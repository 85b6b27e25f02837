----------------------- MODULE MonitorHoldings_proofs -----------------------
(***************************************************************************)
(* What holds of the orders and the shares of ModernMonitor.               *)
(*                                                                         *)
(*   ExitWorksAloneCorrect         Spec => []ExitWorksAlone                *)
(*   LiveExitNotCanceledCorrect    Spec => LiveExitNotCanceled             *)
(*                                                                         *)
(* and with a venue whose position endpoint does not lag, whose lookups    *)
(* miss nothing and where no POST arrives late (Prompt):                   *)
(*                                                                         *)
(*   ExitIsWholePositionCorrect    Spec => []ExitIsWholePosition           *)
(*   ExposureTrackedCorrect        Spec => []ExposureTracked               *)
(*   ReentryOnlyAfterStopCorrect   Spec => []ReentryOnlyAfterStop          *)
(*   PutAwayFillsRecordedCorrect   Spec => []PutAwayFillsRecorded          *)
(*   OwnTraceReconcilesCorrect     Spec => []OwnTraceReconciles            *)
(*   MonitorIsALongOnlyTrade       Spec => ImplementsLongOnlyTrade         *)
(*                                                                         *)
(* PlaceInv says what the process and the row agree on at each place,      *)
(* AloneInv what is known of the exits, BookInv what the venue keeps of a  *)
(* bracket, HoldInv how orders, shares and observations account for each   *)
(* other.  Each is inductive given those before it.                        *)
(***************************************************************************)
EXTENDS ModernMonitor_proofs, SumTheorems

(* A step of the venue or of the monitor that sends nothing: no order      *)
(* appears, an order that has ended stays so, no POST is added to those    *)
(* still travelling.                                                       *)
Settling ==
    /\ \A o \in OrderIds : /\ ord'[o].st = "none" <=> ord[o].st = "none"
                           /\ ord[o].st \in Terminal => ord'[o].st \in Terminal
    /\ wire' \subseteq wire

(* A settling step opens no order, and what there was is still there.      *)
LEMMA SettlingShrinks ==
    ASSUME Settling
    PROVE  OpenOrders' \subseteq OpenOrders /\ \A o \in OrderIds : Exists(o)' <=> Exists(o)
BY DEF Settling, OpenOrders, IsLive, Exists

(* A step that leaves the venue alone settles.                             *)
LEMMA SameVenueSettles ==
    ASSUME UNCHANGED <<ord, wire>>
    PROVE  Settling
BY DEF Settling

(* A DELETE settles.                                                       *)
LEMMA CancelSettles ==
    ASSUME TypeInv, NEW o, ord' = CancelRequested(o), wire' = wire
    PROVE  Settling
BY DEF TypeInv, TypeOK, BrokerTypeOK, CancelRequested, IsLive, Order, Settling, Terminal

(* So does everything the venue does by itself but to receive a late POST. *)
LEMMA VenueSettling ==
    ASSUME TypeInv,
           \/ \E o \in OrderIds : Fill(o) \/ ConfirmCancel(o) \/ VenueEnds(o)
           \/ \E e \in EntryIds : ActivateLegs(e)
           \/ \E r \in wire : DeliverLate(r) /\ Exists(r.id)
           \/ PublishPosition
    PROVE  Settling
<1>1. ASSUME NEW o \in OrderIds, Fill(o) PROVE Settling
  <2>1. PICK k \in 1..Room(o) : ord' = AfterFill(o, k)
    BY <1>1 DEF Fill
  <2>2. wire' = wire /\ ord[o].st \notin Terminal \cup {"none"}
    BY <1>1 DEF Fill, Terminal
  <2>3. ord \in [OrderIds -> Order]
    BY DEF TypeInv, TypeOK, BrokerTypeOK
  <2>4. \A x \in OrderIds : ord'[x] = IF x = o
            THEN [ord[o] EXCEPT !.filled = @ + k,
                    !.st = CASE ord[o].filled + k = ord[o].qty -> "filled"
                    [] ord[o].filled + k # ord[o].qty /\ k = Room(o) -> "canceled"
                    [] k # Room(o) /\ ord[o].st = "pending_cancel" -> "pending_cancel"
                    [] OTHER -> "partially_filled"]
            ELSE IF o \in LegIds /\ x = Sibling(o) /\ k = Room(o) /\ IsLive(ord[x])
            THEN [ord[x] EXCEPT !.st = "canceled"] ELSE ord[x]
    BY <2>1 DEF AfterFill
  <2>5. ord'[o].st # "none"
    BY <2>3, <2>4 DEF Order
  <2>6. \A x \in OrderIds : x # o =>
            ord'[x].st = ord[x].st \/ (ord'[x].st = "canceled" /\ IsLive(ord[x]))
    BY <2>3, <2>4 DEF Order
  <2> QED  BY <2>2, <2>5, <2>6 DEF Settling, Terminal, IsLive
<1>2. ASSUME NEW o \in OrderIds, ConfirmCancel(o) \/ VenueEnds(o) PROVE Settling
  BY <1>2 DEF ConfirmCancel, VenueEnds, Ended, IsLive, Terminal, Settling,
              TypeInv, TypeOK, BrokerTypeOK, Order
<1>3. ASSUME NEW e \in EntryIds, ActivateLegs(e) PROVE Settling
  BY <1>3 DEF ActivateLegs, Terminal, Settling, TypeInv, TypeOK, BrokerTypeOK, Order
<1>4. ASSUME NEW r \in wire, DeliverLate(r), Exists(r.id) PROVE Settling
  BY <1>4 DEF DeliverLate, Settling
<1>5. ASSUME PublishPosition PROVE Settling
  BY <1>5, SameVenueSettles DEF PublishPosition
<1> QED  BY <1>1, <1>2, <1>3, <1>4, <1>5

(* The steps of the monitor that send nothing.                             *)
MonitorReads ==
    Start \/ Tick \/ MinuteIdle \/ MinuteExit \/ Reconcile
    \/ ExitPrevious \/ ExitVisible \/ ExitEntry \/ ExitBefore \/ ExitCancel
    \/ ExitRemaining \/ ExitRefresh \/ ExitFlat \/ ExitIntent \/ ExitSave \/ ExitAttach
    \/ EntryIntent \/ EntrySave \/ EntryRefused \/ abort_unsubmitted_entry \/ EntryAttach

(* They settle: a cancel is all they may ask of the venue.                 *)
LEMMA MonitorSettles ==
    ASSUME TypeInv, MonitorReads \/ Crash \/ CallFails \/ AdvanceClock
    PROVE  Settling
<1>1. CASE CancelEntry
  <2>1. wire' = wire /\ (ord' = ord \/ ord' = CancelRequested(EntryOf(mem)))
    BY <1>1 DEF CancelEntry
  <2> QED  BY <2>1, CancelSettles, SameVenueSettles
<1>2. CASE FlatCancel \/ ExitCancel
  <2>1. PICK o \in todo : CancelOne(o)
    BY <1>2 DEF FlatCancel, ExitCancel
  <2> QED  BY <2>1, CancelSettles DEF CancelOne
<1>3. CASE \/ Start \/ Tick \/ MinuteIdle \/ MinuteExit \/ Crash \/ CallFails \/ AdvanceClock
  BY <1>3, SameVenueSettles DEF Start, Tick, MinuteIdle, MinuteExit, Crash, CallFails,
                                AdvanceClock, brokerVars
<1>4. CASE \/ EntryLookup \/ EntryGonePosition \/ EntryGoneOrders \/ EntryReread
           \/ ActiveStop \/ ActiveTarget \/ ActiveHolding
           \/ FlatEntry \/ FlatOrders \/ CloseRemember
  BY <1>4, SameVenueSettles
     DEF EntryLookup, EntryGonePosition, EntryGoneOrders, EntryReread, ActiveStop, ActiveTarget,
         ActiveHolding, FlatEntry, FlatOrders, CloseRemember, brokerVars
<1>5. CASE \/ ExitPrevious \/ ExitVisible \/ ExitEntry \/ ExitBefore \/ ExitRemaining
           \/ ExitRefresh \/ ExitFlat \/ ExitIntent \/ ExitSave \/ ExitAttach
  BY <1>5, SameVenueSettles
     DEF ExitPrevious, ExitVisible, ExitEntry, ExitBefore, ExitRemaining, ExitRefresh, ExitFlat,
         ExitIntent, ExitSave, ExitAttach, brokerVars
<1>6. CASE EntryIntent \/ EntrySave \/ EntryRefused \/ abort_unsubmitted_entry \/ EntryAttach
  BY <1>6, SameVenueSettles
     DEF EntryIntent, EntrySave, EntryRefused, abort_unsubmitted_entry, EntryAttach, brokerVars
<1> QED  BY <1>1, <1>2, <1>3, <1>4, <1>5, <1>6 DEF MonitorReads, Reconcile

-----------------------------------------------------------------------------
(* Where the monitor is and what its position says go together.            *)
Watching   == {"entry_pending", "active", "exit_pending"}
EntryPlaces  == {"entry", "gonePosition", "goneOrders", "cancelEntry", "reread",
                 "ePost", "eAbort", "eAttach"}
ActivePlaces == {"stop", "target", "holding", "flatEntry", "flatCancel"}
ReadPlaces   == {"close", "xPrevious", "xVisible", "xEntry", "xBefore", "xCancel", "xRefresh"}
SendPlaces   == {"xQuantity", "xSave", "xPost", "xAttach"}

(* The phase of the position p worked on at l.                             *)
PhaseFits(l, p) ==
    /\ l \in EntryPlaces => p.phase = "entry_pending"
    /\ l \in ActivePlaces => p.phase = "active"
    /\ l \in ReadPlaces => p.phase \in Watching
    /\ l \in SendPlaces => p.phase = "exit_pending"
    /\ l \in {"down", "eSave"} => p.phase = "none"
    /\ p.phase = "complete" => l = "tick"
    /\ p.phase # "stopped"
PhaseAt == PhaseFits(pc, mem)

(* What the process holds is what it saved, up to the phase; a state of    *)
(* no position is put away, and the entry under way can be taken back.     *)
SameState ==
    mem.phase # "none" =>
        /\ saved.attempt = mem.attempt /\ saved.entry = mem.entry
        /\ saved.exit = mem.exit /\ saved.ask = mem.ask /\ saved.legs = mem.legs
        /\ mem.phase \in Watching => saved.phase \in Watching
        /\ mem.phase \in {"entry_pending", "active", "complete"} => saved.phase = mem.phase
PutAway ==
    /\ pc \in {"xPost", "xAttach"} => saved.phase = "exit_pending"
    /\ pc # "down" /\ mem.phase = "none" =>
         /\ saved.phase \in {"none", "complete", "stopped"}
         /\ saved.phase = "complete" => outcome = "complete"
    /\ pc = "eSave" => outcome # "complete" /\ prior = saved
    /\ pc \in {"ePost", "eAbort"} => prior.phase \in {"none", "stopped"} /\ prior.exit = -1

(* Only a position being closed has an exit; only one whose entry was seen *)
(* is held or being closed.                                                *)
ExitPhase(p)  == p.exit >= 0 => p.phase \in {"exit_pending", "complete"}
EntryPhase(p) == p.phase \in {"active", "exit_pending"} => Exists(EntryOf(p))
PhaseTells ==
    /\ ExitPhase(mem) /\ ExitPhase(saved) /\ EntryPhase(mem) /\ EntryPhase(saved)
    /\ pc \in {"cancelEntry", "reread"} \cup ReadPlaces => Exists(EntryOf(mem))

PlaceInv == PhaseAt /\ SameState /\ PutAway /\ PhaseTells

-----------------------------------------------------------------------------
(* q is p with other observations, shares, legs or another phase.          *)
SameIds(p, q) ==
    q.attempt = p.attempt /\ q.entry = p.entry /\ q.exit = p.exit /\ q.ask = p.ask
SameLife(p, q) == SameIds(p, q) /\ q.legs = p.legs /\ q.phase = p.phase

(* _remember_fill leaves the life of a position alone.                     *)
LEMMA RememberLife ==
    ASSUME NEW p \in Position, NEW S
    PROVE  SameLife(p, Remember(p, S))
BY DEF SameLife, SameIds, Remember, Position

(* A change of phase changes nothing else.                                 *)
LEMMA PhaseLife ==
    ASSUME NEW p \in Position, NEW ph
    PROVE  LET q == [p EXCEPT !.phase = ph]
           IN  SameIds(p, q) /\ q.legs = p.legs /\ q.phase = ph
BY DEF SameIds, Position

(* Positions of the same ids have the same client order ids.               *)
LEMMA SameIdsSame ==
    ASSUME NEW p, NEW q, SameIds(p, q)
    PROVE  EntryOf(q) = EntryOf(p) /\ \A n : ExitId(q, n) = ExitId(p, n)
BY DEF SameIds, EntryOf, ExitId

(* A position in no phase.                                                 *)
LEMMA NoPositionLife == NoPosition.phase = "none" /\ NoPosition.exit = -1
BY DEF NoPosition

(* The monitor saves q and either works on with it or puts it away.        *)
Writes(q) ==
    /\ saved' = q
    /\ \/ mem' = q /\ outcome' = outcome
       \/ mem' = NoPosition /\ q.phase \in {"complete", "stopped"} /\ outcome' = q.phase

(* What q has to be, for a write of q at the next place.                   *)
FitsAt(l, q) ==
    /\ q.phase \in Watching \cup {"complete", "stopped"}
    /\ ExitPhase(q) /\ EntryPhase(q)
    /\ PhaseFits(l, q) \/ (q.phase \in {"complete", "stopped"} /\ l \in {"tick", "minute"})
    /\ l \notin {"down", "eSave", "ePost", "eAbort"}
    /\ l \in {"xPost", "xAttach"} => q.phase = "exit_pending"
    /\ l \in {"cancelEntry", "reread"} \cup ReadPlaces => Exists(EntryOf(q))

(* Saving a position that fits the next place keeps the invariant.         *)
LEMMA WriteKeepsPlace ==
    ASSUME PlaceInv, TypeInv, TypeInv', Settling, NEW q \in Position, Writes(q), FitsAt(pc', q),
           mem'.phase # "stopped", mem'.phase = "complete" => pc' = "tick", Numbered(q)
    PROVE  PlaceInv'
<1>1. EntryOf(q) \in OrderIds
  <2>1. q.phase # "none"
    BY DEF FitsAt, Watching
  <2> QED  BY <2>1, MemIds DEF TypeInv, TypeOK
<1>2. Exists(EntryOf(q)) => Exists(EntryOf(q))'
  BY <1>1, SettlingShrinks DEF Settling, Exists
<1>3. CASE mem' = q
  <2>1. PhaseAt'
    BY <1>3 DEF Writes, FitsAt, PhaseAt, PhaseFits, EntryPlaces, ActivePlaces, ReadPlaces, SendPlaces, Watching
  <2>2. SameState' /\ PutAway'
    BY <1>3 DEF Writes, FitsAt, SameState, PutAway, Watching
  <2>3. PhaseTells'
    BY <1>2, <1>3 DEF Writes, FitsAt, PhaseTells, ExitPhase, EntryPhase, EntryOf, Exists
  <2> QED  BY <2>1, <2>2, <2>3 DEF PlaceInv
<1>4. CASE mem' = NoPosition /\ q.phase \in {"complete", "stopped"} /\ outcome' = q.phase
  <2>1. pc' \in {"tick", "minute"}
    BY <1>4 DEF FitsAt, PhaseFits, EntryPlaces, ActivePlaces, ReadPlaces, SendPlaces, Watching
  <2>2. PhaseAt'
    BY <1>4, <2>1, NoPositionLife DEF PhaseAt, PhaseFits, EntryPlaces, ActivePlaces, ReadPlaces, SendPlaces
  <2>3. SameState' /\ PutAway'
    BY <1>4, <2>1, NoPositionLife DEF Writes, SameState, PutAway
  <2>4. PhaseTells'
    BY <1>4, <2>1, NoPositionLife DEF Writes, FitsAt, PhaseTells, ExitPhase, EntryPhase, ReadPlaces
  <2> QED  BY <2>2, <2>3, <2>4 DEF PlaceInv
<1> QED  BY <1>3, <1>4 DEF Writes

(* So does a step that saves nothing and stays within the phase.           *)
LEMMA StillKeepsPlace ==
    ASSUME PlaceInv, TypeInv, TypeInv', Settling, UNCHANGED <<saved, mem, outcome>>, PhaseAt',
           pc' \notin {"xPost", "xAttach", "eSave", "ePost", "eAbort"} \/ UNCHANGED <<pc, prior>>,
           pc = "down" => pc' = "down",
           pc' \in {"cancelEntry", "reread"} \cup ReadPlaces => Exists(EntryOf(mem))
    PROVE  PlaceInv'
<1>1. \A p \in {mem, saved} : Exists(EntryOf(p)) /\ p.phase # "none" => Exists(EntryOf(p))'
  BY MemIds, SettlingShrinks DEF TypeInv, TypeOK, Settling, Exists
<1>2. SameState' /\ PutAway'
  BY DEF PlaceInv, SameState, PutAway
<1>3. pc' \in {"cancelEntry", "reread"} \cup ReadPlaces => mem.phase # "none"
  BY DEF PhaseAt, PhaseFits, EntryPlaces, ReadPlaces, Watching
<1>4. PhaseTells'
  BY <1>1, <1>3 DEF PlaceInv, PhaseTells, ExitPhase, EntryPhase, EntryOf, Exists, ReadPlaces
<1> QED  BY <1>2, <1>4 DEF PlaceInv

(* Start, crash and the loop keep the place.                               *)
LEMMA LoopKeepsPlace ==
    ASSUME PlaceInv, TypeInv, TypeInv', Settling,
           Start \/ Crash \/ AdvanceClock \/ Tick \/ MinuteIdle \/ MinuteExit \/ CallFails
    PROVE  PlaceInv'
<1>0. /\ mem \in Position /\ saved \in Position /\ Numbered(saved) /\ Numbered(mem)
      /\ PhaseAt /\ SameState /\ PutAway /\ PhaseTells
  BY DEF TypeInv, TypeOK, PlaceInv
<1>1. CASE Start
  <2>1. /\ saved' = saved /\ pc' = "tick" /\ pc = "down"
        /\ mem' = IF saved.phase \in Watching THEN saved ELSE NoPosition
        /\ outcome' = IF saved.phase \in {"complete", "stopped"} THEN saved.phase ELSE "none"
    BY <1>1 DEF Start, Goto, storeVars, Watching
  <2>2. saved.phase \in Phases
    BY <1>0 DEF Position
  <2>3. PhaseAt' /\ SameState' /\ PutAway'
    BY <2>1, <2>2, NoPositionLife DEF PhaseAt, PhaseFits, EntryPlaces, ActivePlaces, ReadPlaces,
       SendPlaces, Watching, SameState, PutAway, Phases
  <2>4. EntryPhase(saved)'
    BY <1>0, <2>1, MemIds, SettlingShrinks DEF PhaseTells, EntryPhase, EntryOf, Exists, Settling,
       TypeInv, TypeOK
  <2>5. PhaseTells'
    BY <1>0, <2>1, <2>4, NoPositionLife DEF PhaseTells, ExitPhase, EntryPhase, EntryOf, Exists, ReadPlaces
  <2> QED  BY <2>3, <2>5 DEF PlaceInv
<1>2. CASE Crash
  <2>1. saved' = saved /\ pc' = "down" /\ mem' = NoPosition
    BY <1>2 DEF Crash, storeVars
  <2>2. PhaseAt' /\ SameState' /\ PutAway'
    BY <2>1, NoPositionLife DEF PhaseAt, PhaseFits, EntryPlaces, ActivePlaces, ReadPlaces,
       SendPlaces, SameState, PutAway
  <2>3. EntryPhase(saved)'
    BY <1>0, <2>1, MemIds, SettlingShrinks DEF PhaseTells, EntryPhase, EntryOf, Exists, Settling,
       TypeInv, TypeOK
  <2>4. PhaseTells'
    BY <1>0, <2>1, <2>3, NoPositionLife DEF PhaseTells, ExitPhase, EntryPhase, EntryOf, Exists, ReadPlaces
  <2> QED  BY <2>2, <2>4 DEF PlaceInv
<1>3. CASE AdvanceClock
  <2>1. UNCHANGED <<saved, mem, outcome, pc, prior>>
    BY <1>3 DEF AdvanceClock, storeVars, monitorVars, localVars
  <2>2. PhaseAt'
    BY <1>0, <2>1 DEF PhaseAt
  <2>3. pc \in {"cancelEntry", "reread"} \cup ReadPlaces => Exists(EntryOf(mem))
    BY <1>0 DEF PhaseTells
  <2> QED  BY <2>1, <2>2, <2>3, StillKeepsPlace
<1>4. CASE Tick
  <2> PICK hardLoss \in BOOLEAN, frozen \in BOOLEAN :
        LET p == IF mem.phase = "active" /\ FlattenDue(hardLoss)
                 THEN [mem EXCEPT !.phase = "exit_pending"] ELSE mem
        IN  /\ pc' = Lifecycle(p)
            /\ mem' = IF p.phase \in {"complete", "stopped"} THEN NoPosition ELSE p
            /\ outcome' = IF p.phase \in {"complete", "stopped"} THEN p.phase ELSE outcome
    BY <1>4 DEF Tick
  <2> DEFINE p == IF mem.phase = "active" /\ FlattenDue(hardLoss)
                  THEN [mem EXCEPT !.phase = "exit_pending"] ELSE mem
  <2>1. /\ SameIds(mem, p) /\ p.legs = mem.legs
        /\ p.phase = mem.phase \/ (mem.phase = "active" /\ p.phase = "exit_pending")
    BY <1>0, PhaseLife DEF SameIds
  <2> HIDE DEF p
  <2>2. /\ pc' = Lifecycle(p)
        /\ mem' = IF p.phase \in {"complete", "stopped"} THEN NoPosition ELSE p
        /\ outcome' = IF p.phase \in {"complete", "stopped"} THEN p.phase ELSE outcome
        /\ saved' = saved /\ pc = "tick"
    BY <1>4 DEF p, Tick, storeVars
  <2>3. mem.phase \in Phases
    BY <1>0 DEF Position
  <2>4. PhaseAt'
    BY <1>0, <2>1, <2>2, <2>3, NoPositionLife DEF PhaseAt, PhaseFits, EntryPlaces, ActivePlaces,
       ReadPlaces, SendPlaces, Watching, Lifecycle, Phases
  <2>5. SameState'
    BY <1>0, <2>1, <2>2, <2>3, NoPositionLife DEF SameState, SameIds, Watching, Phases
  <2>6. PutAway'
    BY <1>0, <2>1, <2>2, <2>3, NoPositionLife
       DEF SameState, PutAway, Lifecycle, Watching, Phases, PhaseAt, PhaseFits
  <2>7. EntryPhase(saved)' /\ (mem.phase \in {"active", "exit_pending"} => Exists(EntryOf(mem))')
    BY <1>0, <2>2, MemIds, SettlingShrinks DEF PhaseTells, EntryPhase, EntryOf, Exists, Settling,
       TypeInv, TypeOK
  <2>8. PhaseTells'
    BY <1>0, <2>1, <2>2, <2>3, <2>7, NoPositionLife
       DEF PhaseTells, ExitPhase, EntryPhase, EntryOf, Exists, ReadPlaces, SameIds, Lifecycle, Phases
  <2> QED  BY <2>4, <2>5, <2>6, <2>8 DEF PlaceInv
<1>5. CASE MinuteIdle \/ MinuteExit \/ CallFails
  <2>1. /\ UNCHANGED <<saved, mem, outcome>>
        /\ pc' = "tick" \/ (pc' = "xPrevious" /\ mem.phase = "active")
        /\ pc # "down"
    BY <1>5 DEF MinuteIdle, MinuteExit, CallFails, Goto, Raise, storeVars, BrokerCalls
  <2>2. PhaseAt'
    BY <1>0, <2>1 DEF PhaseAt, PhaseFits, EntryPlaces, ActivePlaces, ReadPlaces, SendPlaces, Watching
  <2>3. pc' \in {"cancelEntry", "reread"} \cup ReadPlaces => Exists(EntryOf(mem))
    BY <1>0, <2>1 DEF PhaseTells, EntryPhase, ReadPlaces
  <2> QED  BY <2>1, <2>2, <2>3, StillKeepsPlace
<1> QED  BY <1>1, <1>2, <1>3, <1>4, <1>5

(* A write puts a known position into the memory and into the store.       *)
LEMMA FinishWrites ==
    ASSUME NEW q \in Position, saved' = q, Finish(q)
    PROVE  Writes(q) /\ pc' = "minute" /\ mem'.phase \notin {"complete", "stopped"}
BY NoPositionLife DEF Finish, Goto, Writes

(* The decision on the last reading of an entry keeps the place.           *)
LEMMA DecideKeepsPlace ==
    ASSUME PlaceInv, TypeInv, TypeInv', Settling, NEW p \in Position, p.phase = "entry_pending",
           Numbered(p), ExitPhase(p), Exists(EntryOf(p)), NEW x, NEW w, Decide(p, x, w)
    PROVE  PlaceInv'
<1> DEFINE done == [p EXCEPT !.phase = "complete"]
           open == [p EXCEPT !.phase = "active", !.legs = TRUE, !.shares = x.filled]
<1>0. p.exit < 0 /\ p.exit \in Int
  BY DEF ExitPhase, Position, Retries
<1>1. done \in Position /\ Numbered(done) /\ done.phase = "complete" /\ EntryOf(done) = EntryOf(p)
      /\ done.exit = p.exit
  BY DEF Position, Phases, Numbered, EntryOf
<1>2. open.phase = "active" /\ EntryOf(open) = EntryOf(p) /\ open.exit = p.exit
      /\ open.attempt = p.attempt
  BY DEF Position, EntryOf
<1> HIDE DEF done, open
<1>3. CASE Save(p) /\ CloseNow /\ UNCHANGED <<attempts, outcome>>
  <2>1. Writes(p) /\ pc' = "close" /\ mem' = p
    BY <1>3 DEF Save, CloseNow, Goto, Writes
  <2>2. FitsAt("close", p)
    BY DEF FitsAt, EntryPhase, PhaseFits, EntryPlaces, ActivePlaces, ReadPlaces, SendPlaces, Watching
  <2> QED  BY <2>1, <2>2, WriteKeepsPlace
<1>4. CASE saved' = p /\ Finish(p) /\ UNCHANGED attempts
  <2>1. FitsAt("minute", p)
    BY DEF FitsAt, EntryPhase, PhaseFits, EntryPlaces, ActivePlaces, ReadPlaces, SendPlaces, Watching
  <2> QED  BY <1>4, <2>1, FinishWrites, WriteKeepsPlace
<1>5. CASE saved' = done /\ Finish(done) /\ UNCHANGED attempts
  <2>1. FitsAt("minute", done)
    BY <1>0, <1>1 DEF FitsAt, EntryPhase, ExitPhase, ReadPlaces
  <2> QED  BY <1>1, <1>5, <2>1, FinishWrites, WriteKeepsPlace
<1>6. CASE Save(open) /\ Goto("stop") /\ ClearLocals /\ UNCHANGED <<attempts, outcome>>
  <2>1. Writes(open) /\ pc' = "stop" /\ mem' = open
    BY <1>6 DEF Save, Goto, Writes
  <2>2. open \in Position /\ Numbered(open)
    BY <2>1 DEF TypeInv, TypeOK
  <2>3. FitsAt("stop", open)
    BY <1>0, <1>2 DEF FitsAt, EntryPhase, ExitPhase, PhaseFits, EntryPlaces, ActivePlaces,
                      ReadPlaces, SendPlaces, Watching
  <2> QED  BY <1>2, <2>1, <2>2, <2>3, WriteKeepsPlace
<1> QED  BY <1>3, <1>4, <1>5, <1>6 DEF Decide, done, open

(* The entry_pending phase keeps the place.                                *)
LEMMA EntryKeepsPlace ==
    ASSUME PlaceInv, TypeInv, TypeInv', Settling,
           EntryLookup \/ EntryGonePosition \/ EntryGoneOrders \/ CancelEntry \/ EntryReread
    PROVE  PlaceInv'
<1>0. /\ mem \in Position /\ Numbered(mem) /\ mem.phase = "entry_pending"
      /\ PhaseAt /\ SameState /\ PutAway /\ PhaseTells /\ ExitPhase(mem)
  BY DEF TypeInv, TypeOK, PlaceInv, PhaseAt, PhaseFits, EntryPlaces, PhaseTells,
         EntryLookup, EntryGonePosition, EntryGoneOrders, CancelEntry, EntryReread
<1> DEFINE p == Remember(mem, OrderTree(EntryOf(mem)))
<1>1. p \in Position /\ SameLife(mem, p)
  BY <1>0, RememberLife, RememberType DEF SameTrade, TypeInv, TypeOK
<1>2. Numbered(p) /\ p.phase = "entry_pending" /\ ExitPhase(p) /\ EntryOf(p) = EntryOf(mem)
  BY <1>0, <1>1 DEF SameLife, SameIds, Numbered, ExitPhase, EntryOf
<1> HIDE DEF p
<1>3. CASE EntryLookup
  <2>1. CASE Goto("gonePosition") /\ UNCHANGED <<storeVars, mem, outcome>>
    <3>1. PhaseAt' /\ pc # "down" /\ UNCHANGED <<saved, mem, outcome>> /\ pc' = "gonePosition"
      BY <1>0, <1>3, <2>1 DEF EntryLookup, storeVars, Goto, PhaseAt, PhaseFits, EntryPlaces,
                              ActivePlaces, ReadPlaces, SendPlaces
    <3> QED  BY <3>1, StillKeepsPlace DEF ReadPlaces
  <2>2. CASE Exists(EntryOf(mem)) /\ Save(p) /\ Goto("cancelEntry") /\ UNCHANGED outcome
    <3>1. Writes(p) /\ pc' = "cancelEntry" /\ mem' = p
      BY <2>2 DEF Save, Goto, Writes
    <3>2. FitsAt("cancelEntry", p)
      BY <1>2, <2>2 DEF FitsAt, EntryPhase, PhaseFits, EntryPlaces, ActivePlaces, ReadPlaces,
                        SendPlaces, Watching
    <3> QED  BY <1>1, <1>2, <3>1, <3>2, WriteKeepsPlace
  <2>3. ASSUME Exists(EntryOf(mem)), Decide(p, ord[EntryOf(mem)], EntryPart(ord[EntryOf(mem)]))
        PROVE  PlaceInv'
    BY <1>1, <1>2, <2>3, DecideKeepsPlace
  <2> QED  BY <1>3, <2>1, <2>2, <2>3 DEF EntryLookup, p
<1>4. CASE EntryReread
  <2>1. Exists(EntryOf(mem)) /\ Decide(p, ord[EntryOf(mem)], partial)
    BY <1>0, <1>4 DEF EntryReread, PhaseTells, p
  <2> QED  BY <1>1, <1>2, <2>1, DecideKeepsPlace
<1>5. CASE CancelEntry
  <2>1. PhaseAt' /\ pc = "cancelEntry" /\ UNCHANGED <<saved, mem, outcome>> /\ pc' = "reread"
    BY <1>0, <1>5 DEF CancelEntry, storeVars, Goto, PhaseAt, PhaseFits, EntryPlaces,
                      ActivePlaces, ReadPlaces, SendPlaces
  <2>2. Exists(EntryOf(mem))
    BY <1>0, <2>1 DEF PhaseTells
  <2> QED  BY <2>1, <2>2, StillKeepsPlace
<1>6. CASE EntryGonePosition \/ (EntryGoneOrders /\ pc' = "tick")
  <2>1. UNCHANGED <<saved, mem, outcome>> /\ pc' \in {"tick", "goneOrders"} /\ pc # "down"
    BY <1>6 DEF EntryGonePosition, EntryGoneOrders, storeVars, Goto, Raise, Finish
  <2>2. PhaseAt'
    BY <1>0, <2>1 DEF PhaseAt, PhaseFits, EntryPlaces, ActivePlaces, ReadPlaces, SendPlaces
  <2> QED  BY <2>1, <2>2, StillKeepsPlace DEF ReadPlaces
<1>7. CASE EntryGoneOrders /\ pc' # "tick"
  <2> DEFINE done == [mem EXCEPT !.phase = "complete"]
  <2>1. done \in Position /\ Numbered(done) /\ done.phase = "complete" /\ done.exit = mem.exit
    BY <1>0 DEF Position, Phases, Numbered
  <2>2. saved' = done /\ Finish(done)
    BY <1>7 DEF EntryGoneOrders, Raise
  <2> HIDE DEF done
  <2>3. FitsAt("minute", done)
    BY <2>1 DEF FitsAt, EntryPhase, ExitPhase, ReadPlaces
  <2> QED  BY <2>1, <2>2, <2>3, FinishWrites, WriteKeepsPlace
<1> QED  BY <1>3, <1>4, <1>5, <1>6, <1>7

(* The active phase keeps the place.                                       *)
LEMMA ActiveKeepsPlace ==
    ASSUME PlaceInv, TypeInv, TypeInv', Settling,
           \/ ActiveStop \/ ActiveTarget \/ ActiveHolding
           \/ FlatEntry \/ FlatCancel \/ FlatOrders
    PROVE  PlaceInv'
<1>0. /\ mem \in Position /\ Numbered(mem) /\ mem.phase = "active"
      /\ PhaseAt /\ SameState /\ PutAway /\ PhaseTells /\ ExitPhase(mem) /\ Exists(EntryOf(mem))
  BY DEF TypeInv, TypeOK, PlaceInv, PhaseAt, PhaseFits, ActivePlaces, PhaseTells, EntryPhase,
         ActiveStop, ActiveTarget, ActiveHolding, FlatEntry, FlatCancel, FlatOrders
<1>1. ASSUME UNCHANGED <<saved, mem, outcome>>, pc # "down",
             pc' \in ActivePlaces \cup {"tick", "close"}
      PROVE  PlaceInv'
  <2>1. PhaseAt'
    BY <1>0, <1>1 DEF PhaseAt, PhaseFits, EntryPlaces, ActivePlaces, ReadPlaces, SendPlaces, Watching
  <2> QED  BY <1>0, <1>1, <2>1, StillKeepsPlace DEF ActivePlaces, ReadPlaces
<1>2. ASSUME NEW q \in Position, SameIds(mem, q), q.phase \in {"active", "stopped", "complete"},
             Writes(q), mem' = q => pc' \in ActivePlaces \cup {"tick", "close", "minute"},
             mem'.phase \notin {"stopped", "complete"},
             q.phase # "active" => pc' = "minute"
      PROVE  PlaceInv'
  <2>1. Numbered(q) /\ ExitPhase(q) /\ EntryPhase(q) /\ Exists(EntryOf(q))
    BY <1>0, <1>2, SameIdsSame DEF SameIds, Numbered, ExitPhase, EntryPhase
  <2>2. q.phase = "active" => mem' = q
    BY <1>2 DEF Writes
  <2>3. FitsAt(pc', q)
    BY <1>2, <2>1, <2>2 DEF FitsAt, PhaseFits, EntryPlaces, ActivePlaces, ReadPlaces, SendPlaces, Watching
  <2> QED  BY <1>2, <2>1, <2>3, WriteKeepsPlace
<1>3. CASE ActiveStop \/ FlatCancel
  BY <1>1, <1>3 DEF ActiveStop, FlatCancel, CancelOne, Raise, Goto, storeVars, ActivePlaces
<1>4. CASE ActiveTarget
  <2> DEFINE q == Remember(mem, LegsOf(mem))
  <2>1. q \in Position /\ SameLife(mem, q)
    BY <1>0, RememberLife, RememberType DEF SameTrade, TypeInv, TypeOK
  <2>2. saved' = q /\ mem' = q /\ outcome' = outcome /\ pc' = "holding"
    BY <1>4 DEF ActiveTarget, Save, Goto
  <2> HIDE DEF q
  <2> QED  BY <1>0, <1>2, <2>1, <2>2 DEF Writes, SameLife, ActivePlaces
<1>5. CASE ActiveHolding
  <2> DEFINE q == [mem EXCEPT !.shares = seen]
  <2>1. SameIds(mem, q) /\ q.phase = "active"
    BY <1>0 DEF SameIds, Position
  <2> HIDE DEF q
  <2>2. CASE UNCHANGED <<saved, mem, outcome>> /\ pc' \in {"flatEntry", "tick"}
    BY <1>1, <1>5, <2>2 DEF ActiveHolding, ActivePlaces
  <2>3. CASE saved' = q /\ Finish(q)
    <3>1. q \in Position
      BY <2>3 DEF TypeInv, TypeOK
    <3> QED  BY <1>2, <2>1, <2>3, <3>1, FinishWrites
  <2>4. CASE Save(q) /\ CloseNow /\ UNCHANGED outcome
    <3>1. q \in Position
      BY <2>4 DEF TypeInv, TypeOK, Save
    <3> QED  BY <1>2, <2>1, <2>4, <3>1 DEF Save, CloseNow, Goto, Writes
  <2> QED  BY <1>5, <2>2, <2>3, <2>4 DEF ActiveHolding, q, Goto, Raise
<1>6. CASE FlatEntry
  <2> DEFINE q == Remember(mem, OrderTree(EntryOf(mem)))
  <2>1. q \in Position /\ SameLife(mem, q)
    BY <1>0, RememberLife, RememberType DEF SameTrade, TypeInv, TypeOK
  <2>2. saved' = q /\ mem' = q /\ outcome' = outcome /\ pc' \in {"tick", "flatCancel"}
    BY <1>6 DEF FlatEntry, Save, Goto, Raise
  <2> HIDE DEF q
  <2> QED  BY <1>0, <1>2, <2>1, <2>2 DEF Writes, SameLife, ActivePlaces
<1>7. CASE FlatOrders
  <2>1. PICK q : /\ q = IF OpenOrders # {} THEN mem ELSE [mem EXCEPT !.phase = FlatPhase]
                 /\ saved' = q /\ Finish(q)
    BY <1>7 DEF FlatOrders
  <2>2. q \in Position
    BY <2>1 DEF TypeInv, TypeOK
  <2>3. SameIds(mem, q) /\ q.phase \in {"active", "stopped", "complete"}
    BY <1>0, <2>1, PhaseLife DEF FlatPhase, SameIds
  <2> QED  BY <1>2, <2>1, <2>2, <2>3, FinishWrites
<1> QED  BY <1>3, <1>4, <1>5, <1>6, <1>7

(* Every return of request_position_exit writes the position it was given. *)
LEMMA SaveReturnWrites ==
    ASSUME TypeInv, TypeInv', NEW p \in Position, p.phase # "none", NEW x, NEW o, SaveReturn(p, x, o)
    PROVE  \E q \in Position : /\ SameLife(p, q) /\ Writes(q) /\ pc' \in {"tick", "minute"}
                               /\ mem'.phase = "complete" => pc' = "tick"
                               /\ mem'.phase = "stopped" => p.phase = "stopped"
<1>1. PICK q : /\ q = IF via = "minute" \/ x.st = "none" \/ x.filled <= p.obs[o] THEN p
                      ELSE [p EXCEPT !.obs[o] = x.filled]
               /\ saved' = q
               /\ IF via = "minute"
                  THEN Goto("tick") /\ ClearLocals /\ mem' = q /\ UNCHANGED <<row, outcome>>
                  ELSE Finish(q) /\ Attach(IF x.st = "none" THEN {} ELSE {o})
  BY DEF SaveReturn
<1>2. q \in Position
  BY <1>1 DEF TypeInv, TypeOK
<1>3. SameLife(p, q)
  BY <1>1 DEF SameLife, SameIds, Position
<1>4. Writes(q) /\ pc' \in {"tick", "minute"} /\ (mem'.phase = "complete" => pc' = "tick")
  BY <1>1, <1>2, FinishWrites DEF Writes, Goto
<1>5. mem'.phase = "stopped" => q.phase = "stopped"
  BY <1>1, NoPositionLife DEF Finish
<1> QED  BY <1>2, <1>3, <1>4, <1>5 DEF SameLife

(* The readings of request_position_exit keep the place.                   *)
LEMMA ExitReadKeepsPlace ==
    ASSUME PlaceInv, TypeInv, TypeInv', Settling,
           \/ CloseRemember \/ ExitPrevious \/ ExitVisible \/ ExitEntry \/ ExitBefore \/ ExitCancel
           \/ ExitRemaining \/ ExitRefresh
    PROVE  PlaceInv'
<1>0. /\ mem \in Position /\ Numbered(mem) /\ mem.phase \in Watching /\ pc # "down"
      /\ PhaseAt /\ SameState /\ PutAway /\ PhaseTells /\ ExitPhase(mem) /\ Exists(EntryOf(mem))
  BY DEF TypeInv, TypeOK, PlaceInv, PhaseAt, PhaseFits, ReadPlaces, PhaseTells,
         CloseRemember, ExitPrevious, ExitVisible, ExitEntry, ExitBefore, ExitCancel, ExitRemaining, ExitRefresh
<1>1. ASSUME UNCHANGED <<saved, mem, outcome>>, pc' \in ReadPlaces \cup {"tick"}
      PROVE  PlaceInv'
  <2>1. PhaseAt'
    BY <1>0, <1>1 DEF PhaseAt, PhaseFits, EntryPlaces, ActivePlaces, ReadPlaces, SendPlaces, Watching
  <2> QED  BY <1>0, <1>1, <2>1, StillKeepsPlace DEF ReadPlaces
<1>2. ASSUME NEW q \in Position, SameIds(mem, q), q.phase \in {mem.phase, "exit_pending"},
             Writes(q), pc' \in ReadPlaces \cup {"tick", "minute"}
      PROVE  PlaceInv'
  <2>1. Numbered(q) /\ ExitPhase(q) /\ EntryPhase(q) /\ Exists(EntryOf(q)) /\ q.phase \in Watching
    BY <1>0, <1>2, SameIdsSame DEF SameIds, Numbered, ExitPhase, EntryPhase, Watching
  <2>2. mem' = q
    BY <1>2, <2>1 DEF Writes, Watching
  <2>3. FitsAt(pc', q)
    BY <1>2, <2>1 DEF FitsAt, PhaseFits, EntryPlaces, ActivePlaces, ReadPlaces, SendPlaces, Watching
  <2> QED  BY <1>2, <2>1, <2>2, <2>3, WriteKeepsPlace DEF Watching
<1>3. CASE CloseRemember
  <2> DEFINE q == Remember(mem, ClientIds(mem) \cup OrderTree(EntryOf(mem)))
  <2>1. q \in Position /\ SameLife(mem, q)
    BY <1>0, RememberLife, RememberType DEF SameTrade, TypeInv, TypeOK
  <2>2. saved' = q /\ mem' = q /\ outcome' = outcome /\ pc' = "xPrevious"
    BY <1>3 DEF CloseRemember, Save, Goto
  <2> HIDE DEF q
  <2> QED  BY <1>2, <2>1, <2>2 DEF Writes, SameLife, ReadPlaces
<1>4. CASE ExitPrevious \/ ExitEntry \/ ExitBefore \/ ExitCancel \/ ExitRemaining
  BY <1>1, <1>4 DEF ExitPrevious, ExitEntry, ExitBefore, ExitCancel, ExitRemaining, CancelOne,
                    Raise, Goto, storeVars, ReadPlaces
<1>5. CASE ExitVisible
  <2>1. CASE UNCHANGED <<storeVars, mem, outcome>> /\ pc' \in {"tick", "xEntry"}
    BY <1>1, <2>1 DEF storeVars, ReadPlaces
  <2>2. CASE SaveReturn(mem, PreviousExit, PreviousId)
    <3>1. PICK q \in Position : SameLife(mem, q) /\ Writes(q) /\ pc' \in {"tick", "minute"}
      BY <1>0, <2>2, SaveReturnWrites DEF Watching
    <3> QED  BY <1>2, <3>1 DEF SameLife
  <2> QED  BY <1>5, <2>1, <2>2 DEF ExitVisible, Goto
<1>6. CASE ExitRefresh
  <2> DEFINE p == Remember(mem, Owned(mem))
  <2>1. p \in Position /\ SameLife(mem, p)
    BY <1>0, RememberLife, RememberType DEF SameTrade, TypeInv, TypeOK
  <2> HIDE DEF p
  <2>2. Refreshed = [p EXCEPT !.phase = "exit_pending"]
    BY DEF Refreshed, p
  <2>3. PICK r : r = Refreshed
    OBVIOUS
  <2>4. r \in Position /\ SameIds(mem, r) /\ r.phase = "exit_pending" /\ r.legs = mem.legs
    BY <2>1, <2>2, <2>3, PhaseLife DEF SameLife, SameIds, Position, Phases
  <2>5. CASE SaveReturn(r, NoOrder, EntryOf(mem))
    <3>1. PICK q \in Position : SameLife(r, q) /\ Writes(q) /\ pc' \in {"tick", "minute"}
      BY <2>4, <2>5, SaveReturnWrites
    <3> QED  BY <1>2, <2>4, <3>1 DEF SameLife, SameIds
  <2>6. CASE mem' = r /\ UNCHANGED <<saved, outcome>> /\ pc' = "xQuantity"
    <3>1. PhaseAt'
      BY <2>4, <2>6 DEF PhaseAt, PhaseFits, EntryPlaces, ActivePlaces, ReadPlaces, SendPlaces, Watching
    <3>2. SameState' /\ PutAway'
      BY <1>0, <2>4, <2>6 DEF SameState, PutAway, SameIds, Watching
    <3>3. \A z \in {mem, saved} : Exists(EntryOf(z)) /\ z.phase # "none" => Exists(EntryOf(z))'
      BY MemIds, SettlingShrinks DEF TypeInv, TypeOK, Settling, Exists
    <3>4. Exists(EntryOf(mem))' /\ EntryPhase(saved)'
      BY <1>0, <2>4, <2>6, <3>3, SameIdsSame DEF PhaseTells, EntryPhase, EntryOf, SameIds, Exists, Watching
    <3>5. PhaseTells'
      BY <1>0, <2>4, <2>6, <3>4 DEF PhaseTells, ExitPhase, EntryPhase, ReadPlaces
    <3> QED  BY <3>1, <3>2, <3>5 DEF PlaceInv
  <2> QED  BY <1>6, <2>3, <2>5, <2>6 DEF ExitRefresh, storeVars, Goto
<1> QED  BY <1>3, <1>4, <1>5, <1>6

(* The sending of an exit keeps the place.                                 *)
LEMMA ExitWriteKeepsPlace ==
    ASSUME PlaceInv, TypeInv, TypeInv', \A o \in OrderIds : Exists(o) => Exists(o)',
           ExitFlat \/ ExitIntent \/ ExitSave \/ ExitPost \/ ExitAttach,
           ExitPost \/ Settling
    PROVE  PlaceInv'
<1>0. /\ mem \in Position /\ Numbered(mem) /\ mem.phase = "exit_pending" /\ pc # "down"
      /\ PhaseAt /\ SameState /\ PutAway /\ PhaseTells /\ ExitPhase(mem) /\ Exists(EntryOf(mem))
  BY DEF TypeInv, TypeOK, PlaceInv, PhaseAt, PhaseFits, SendPlaces, PhaseTells, EntryPhase,
         ExitFlat, ExitIntent, ExitSave, ExitPost, ExitAttach
<1>1. CASE ExitFlat
  <2>1. CASE Raise("disagree") /\ UNCHANGED <<storeVars, mem, outcome>>
    <3>1. pc' = "tick" /\ UNCHANGED <<saved, mem, outcome>> /\ PhaseAt'
      BY <1>0, <2>1 DEF Raise, storeVars, PhaseAt, PhaseFits, EntryPlaces, ActivePlaces,
                        ReadPlaces, SendPlaces
    <3>2. Settling
      BY <1>1, SameVenueSettles DEF ExitFlat, brokerVars
    <3> QED  BY <1>0, <3>1, <3>2, StillKeepsPlace DEF ReadPlaces
  <2>2. CASE SaveReturn([mem EXCEPT !.phase = "complete"], snapA, PreviousId)
    <3> DEFINE done == [mem EXCEPT !.phase = "complete"]
    <3>1. done \in Position /\ SameIds(mem, done) /\ done.phase = "complete"
      BY <1>0, PhaseLife DEF Position, Phases
    <3> HIDE DEF done
    <3>2. PICK q \in Position : /\ SameLife(done, q) /\ Writes(q) /\ pc' \in {"tick", "minute"}
                                /\ mem'.phase = "complete" => pc' = "tick"
                                /\ mem'.phase = "stopped" => done.phase = "stopped"
      BY <2>2, <3>1, SaveReturnWrites DEF done
    <3>3. Numbered(q) /\ FitsAt(pc', q)
      BY <1>0, <3>1, <3>2 DEF SameLife, SameIds, Numbered, FitsAt, ExitPhase, EntryPhase, ReadPlaces
    <3>4. Settling
      BY <1>1, SameVenueSettles DEF ExitFlat, brokerVars
    <3> QED  BY <3>1, <3>2, <3>3, <3>4, WriteKeepsPlace
  <2> QED  BY <1>1, <2>1, <2>2 DEF ExitFlat
<1>2. CASE ExitIntent
  <2>1. UNCHANGED <<saved, mem, outcome>> /\ pc' \in {"tick", "xSave"}
    BY <1>2 DEF ExitIntent, Raise, Goto
  <2>2. PhaseAt' /\ Settling
    BY <1>0, <1>2, <2>1, SameVenueSettles DEF ExitIntent, brokerVars, PhaseAt, PhaseFits, EntryPlaces,
       ActivePlaces, ReadPlaces, SendPlaces
  <2> QED  BY <1>0, <2>1, <2>2, StillKeepsPlace DEF ReadPlaces
<1>3. CASE ExitSave
  <2>1. PICK q : q = [mem EXCEPT !.exit = req.n, !.ask = req.qty]
    OBVIOUS
  <2>2. saved' = q /\ mem' = q /\ outcome' = outcome /\ pc' = "xPost"
    BY <1>3, <2>1 DEF ExitSave, Save, Goto
  <2>3. q \in Position /\ Numbered(q)
    BY <2>2 DEF TypeInv, TypeOK
  <2>4. q.phase = "exit_pending" /\ EntryOf(q) = EntryOf(mem)
    BY <1>0, <2>1 DEF Position, EntryOf
  <2>5. FitsAt("xPost", q)
    BY <1>0, <2>4 DEF FitsAt, PhaseFits, EntryPlaces, ActivePlaces, ReadPlaces, SendPlaces, Watching,
                      ExitPhase, EntryPhase
  <2>6. Settling
    BY <1>3, SameVenueSettles DEF ExitSave, brokerVars
  <2> QED  BY <2>2, <2>3, <2>4, <2>5, <2>6, WriteKeepsPlace DEF Writes
<1>4. CASE ExitPost
  <2>1. UNCHANGED <<saved, mem, outcome>> /\ pc' \in {"tick", "xAttach"} /\ pc = "xPost"
    BY <1>4 DEF ExitPost, SubmitIdempotent, PostLost, Raise, Goto, storeVars
  <2>2. PhaseAt'
    BY <1>0, <2>1 DEF PhaseAt, PhaseFits, EntryPlaces, ActivePlaces, ReadPlaces, SendPlaces
  <2>3. saved.phase = "exit_pending" /\ SameState'
    BY <1>0, <2>1 DEF PutAway, SameState
  <2>4. EntryOf(saved) = EntryOf(mem) /\ EntryOf(mem) \in OrderIds
    BY <1>0, MemIds DEF SameState, EntryOf, TypeInv, TypeOK
  <2>5. PutAway' /\ PhaseTells'
    BY <1>0, <2>1, <2>3, <2>4 DEF PutAway, PhaseTells, ExitPhase, EntryPhase, EntryOf, ReadPlaces
  <2> QED  BY <2>2, <2>3, <2>5 DEF PlaceInv
<1>5. CASE ExitAttach
  <2>1. PICK q : /\ q = IF via = "minute" THEN mem ELSE Remember(mem, {ExitId(mem, mem.exit)})
                 /\ saved' = q
                 /\ IF via = "minute" THEN pc' = "tick" /\ UNCHANGED <<mem, outcome>> ELSE Finish(q)
    BY <1>5 DEF ExitAttach, Goto
  <2>2. q \in Position /\ SameLife(mem, q)
    BY <1>0, <2>1, RememberLife, RememberType DEF SameTrade, SameLife, SameIds, TypeInv, TypeOK
  <2>3. Writes(q) /\ pc' \in {"tick", "minute"} /\ mem' = q
    BY <1>0, <2>1, <2>2, FinishWrites DEF Writes, SameLife
  <2>4. Numbered(q) /\ EntryOf(q) = EntryOf(mem) /\ q.phase = "exit_pending"
    BY <1>0, <2>2 DEF Numbered, SameLife, SameIds, EntryOf
  <2>5. FitsAt(pc', q)
    BY <1>0, <2>3, <2>4 DEF FitsAt, PhaseFits, EntryPlaces, ActivePlaces, ReadPlaces, SendPlaces,
                            Watching, ExitPhase, EntryPhase
  <2>6. Settling
    BY <1>5, SameVenueSettles DEF ExitAttach, brokerVars
  <2> QED  BY <2>2, <2>3, <2>4, <2>5, <2>6, WriteKeepsPlace
<1> QED  BY <1>1, <1>2, <1>3, <1>4, <1>5

(* What a POST may come to at the venue: nothing, the order it is for with *)
(* or without legs, or a request still travelling.                         *)
Posted(id, q) ==
    \/ UNCHANGED <<ord, wire>>
    \/ ~Exists(id) /\ wire' = wire
       /\ (ord' = Accepted(id, q, TRUE) \/ ord' = Accepted(id, q, FALSE))
    \/ ~Exists(id) /\ ord' = ord /\ wire' = wire \cup {[id |-> id, qty |-> q]}

(* _submit_idempotent comes to one of these.                               *)
LEMMA SubmitPosts ==
    ASSUME NEW id, NEW q, NEW next, SubmitIdempotent(id, q, next)
    PROVE  Posted(id, q) /\ pc' \in {next, "tick"}
<1>1. Posted(id, q)
  BY Zenon DEF SubmitIdempotent, Accept, PostLost, Posted, brokerVars
<1>2. pc' \in {next, "tick"}
  BY DEF SubmitIdempotent, PostLost, Raise, Goto
<1> QED  BY <1>1, <1>2

(* An accepted POST leaves every order there was where it is.              *)
LEMMA AcceptedGrows ==
    ASSUME NEW id, NEW q, NEW legs \in BOOLEAN, ord' = Accepted(id, q, legs)
    PROVE  \A o \in OrderIds : Exists(o) => Exists(o)'
BY DEF Accepted, Exists, Working, Held

(* An order, once there, never disappears.                                 *)
LEMMA OrdersStay ==
    ASSUME TypeInv, Settling \/ ExitPost \/ EntryPost \/ \E r \in wire : DeliverLate(r)
    PROVE  \A o \in OrderIds : Exists(o) => Exists(o)'
<1>1. CASE Settling
  BY <1>1, SettlingShrinks
<1>2. ASSUME NEW id, NEW q, Posted(id, q)
      PROVE  \A o \in OrderIds : Exists(o) => Exists(o)'
  BY <1>2, AcceptedGrows DEF Posted, Exists
<1>3. CASE ExitPost \/ EntryPost
  BY <1>2, <1>3, SubmitPosts DEF ExitPost, EntryPost
<1>4. ASSUME NEW r \in wire, DeliverLate(r)
      PROVE  \A o \in OrderIds : Exists(o) => Exists(o)'
  <2>1. ord' = ord \/ ord' = Accepted(r.id, r.qty, TRUE)
    BY <1>4 DEF DeliverLate
  <2> QED  BY <2>1, AcceptedGrows DEF Exists
<1> QED  BY <1>1, <1>3, <1>4

(* The entry keeps the place.                                              *)
LEMMA EnterKeepsPlace ==
    ASSUME PlaceInv, TypeInv, TypeInv', \A o \in OrderIds : Exists(o) => Exists(o)', Enter
    PROVE  PlaceInv'
<1>0. /\ mem \in Position /\ saved \in Position /\ prior \in Position
      /\ Numbered(saved) /\ Numbered(mem) /\ Numbered(prior)
      /\ PhaseAt /\ SameState /\ PutAway /\ PhaseTells
  BY DEF TypeInv, TypeOK, PlaceInv
<1>1. \A p \in {mem, saved} : Exists(EntryOf(p)) /\ p.phase # "none" => Exists(EntryOf(p))'
  BY MemIds DEF TypeInv, TypeOK, Exists
<1>2. CASE EntryIntent
  <2>1. /\ pc = "minute" /\ mem.phase = "none" /\ outcome # "complete"
        /\ UNCHANGED <<saved, mem, outcome>>
        /\ pc' = "tick" \/ (pc' = "eSave" /\ prior' = saved)
    BY <1>2 DEF EntryIntent, MayEnter, Goto, Raise
  <2>2. PhaseAt' /\ SameState' /\ PutAway'
    BY <1>0, <2>1 DEF PhaseAt, PhaseFits, EntryPlaces, ActivePlaces, ReadPlaces, SendPlaces, SameState, PutAway
  <2>3. PhaseTells'
    BY <1>0, <1>1, <2>1 DEF PhaseTells, ExitPhase, EntryPhase, EntryOf, Exists, ReadPlaces
  <2> QED  BY <2>2, <2>3 DEF PlaceInv
<1>3. CASE EntrySave
  <2>1. PICK q : q = [NoPosition EXCEPT !.phase = "entry_pending", !.attempt = attempts + 1,
                               !.entry = req.n, !.obs = prior.obs]
    OBVIOUS
  <2>2. saved' = q /\ mem' = q /\ pc' = "ePost" /\ pc = "eSave" /\ prior' = prior
    BY <1>3, <2>1 DEF EntrySave, Save, Goto, localVars
  <2>3. q.phase = "entry_pending" /\ q.exit = -1
    BY <2>1 DEF NoPosition
  <2>4. prior'.phase \in {"none", "stopped"} /\ prior'.exit = -1
    <3>1. prior = saved /\ saved.phase \in {"none", "stopped"}
      BY <1>0, <2>2 DEF PutAway, PhaseAt, PhaseFits
    <3>2. saved.exit \in {-1} \cup Retries
      BY <1>0 DEF Position
    <3> QED  BY <1>0, <2>2, <3>1, <3>2 DEF PhaseTells, ExitPhase, Retries
  <2>5. PhaseAt' /\ SameState' /\ PutAway'
    BY <2>2, <2>3, <2>4 DEF PhaseAt, PhaseFits, EntryPlaces, ActivePlaces, ReadPlaces, SendPlaces,
                            SameState, PutAway, Watching
  <2>6. PhaseTells'
    BY <2>2, <2>3 DEF PhaseTells, ExitPhase, EntryPhase, ReadPlaces
  <2> QED  BY <2>5, <2>6 DEF PlaceInv
<1>4. CASE EntryPost \/ EntryRefused
  <2>1. /\ UNCHANGED <<saved, mem, outcome>> /\ pc = "ePost"
        /\ pc' \in {"tick", "eAttach"} \/ (pc' = "eAbort" /\ prior' = prior)
    BY <1>4, SubmitPosts DEF EntryPost, EntryRefused, storeVars, Goto, localVars
  <2>2. PhaseAt' /\ SameState' /\ PutAway'
    BY <1>0, <2>1 DEF PhaseAt, PhaseFits, EntryPlaces, ActivePlaces, ReadPlaces, SendPlaces, SameState, PutAway
  <2>3. PhaseTells'
    BY <1>0, <1>1, <2>1 DEF PhaseTells, ExitPhase, EntryPhase, EntryOf, Exists, ReadPlaces
  <2> QED  BY <2>2, <2>3 DEF PlaceInv
<1>5. CASE abort_unsubmitted_entry
  <2>1. saved' = prior /\ mem' = NoPosition /\ pc' = "tick" /\ pc = "eAbort"
    BY <1>5 DEF abort_unsubmitted_entry, Goto
  <2>2. prior.phase \in {"none", "stopped"} /\ prior.exit = -1
    BY <1>0, <2>1 DEF PutAway
  <2>3. PhaseAt' /\ SameState' /\ PutAway'
    BY <2>1, <2>2, NoPositionLife DEF PhaseAt, PhaseFits, EntryPlaces, ActivePlaces, ReadPlaces,
       SendPlaces, SameState, PutAway
  <2>4. PhaseTells'
    BY <2>1, <2>2, NoPositionLife DEF PhaseTells, ExitPhase, EntryPhase, ReadPlaces
  <2> QED  BY <2>3, <2>4 DEF PlaceInv
<1>6. CASE EntryAttach
  <2>1. saved' = mem /\ UNCHANGED <<mem, outcome>> /\ pc' = "tick" /\ pc = "eAttach"
    BY <1>6 DEF EntryAttach, Goto
  <2>2. mem.phase = "entry_pending"
    BY <1>0, <2>1 DEF PhaseAt, PhaseFits, EntryPlaces
  <2>3. PhaseAt' /\ SameState' /\ PutAway'
    BY <2>1, <2>2 DEF PhaseAt, PhaseFits, EntryPlaces, ActivePlaces, ReadPlaces, SendPlaces, SameState,
                      PutAway, Watching
  <2>4. PhaseTells'
    BY <1>0, <1>1, <2>1, <2>2 DEF PhaseTells, ExitPhase, EntryPhase, EntryOf, Exists, ReadPlaces
  <2> QED  BY <2>3, <2>4 DEF PlaceInv
<1> QED  BY <1>2, <1>3, <1>4, <1>5, <1>6 DEF Enter

(* What leaves the monitor alone keeps the place.                          *)
LEMMA OutsideKeepsPlace ==
    ASSUME PlaceInv, TypeInv, \A o \in OrderIds : Exists(o) => Exists(o)',
           UNCHANGED <<saved, mem, outcome, pc, prior>>
    PROVE  PlaceInv'
<1>1. \A p \in {mem, saved} : Exists(EntryOf(p)) /\ p.phase # "none" => Exists(EntryOf(p))'
  BY MemIds DEF TypeInv, TypeOK, Exists
<1>2. pc \in {"cancelEntry", "reread"} \cup ReadPlaces => mem.phase # "none"
  BY DEF PlaceInv, PhaseAt, PhaseFits, EntryPlaces, ReadPlaces, Watching
<1>3. PhaseTells'
  BY <1>1, <1>2 DEF PlaceInv, PhaseTells, ExitPhase, EntryPhase, EntryOf, Exists
<1> QED  BY <1>3 DEF PlaceInv, PhaseAt, SameState, PutAway

(* Every step either settles, posts, or receives a late POST.              *)
LEMMA StepSettles ==
    ASSUME TypeInv, Next
    PROVE  \/ Settling /\ ~ExitPost /\ ~EntryPost
           \/ ExitPost \/ EntryPost
           \/ \E r \in wire : DeliverLate(r) /\ ~Exists(r.id) /\ UNCHANGED <<storeVars, clock, monitorVars, localVars>>
<1>1. CASE Monitor
  BY <1>1, MonitorSettles DEF Monitor, MonitorReads, RequestPositionExit, Enter
<1>2. CASE Venue
  BY <1>2, VenueSettling DEF Venue, BrokerNext
<1> QED  BY <1>1, <1>2, MonitorSettles DEF Next

(* At every step the position the process works on, the one it saved and   *)
(* the place it is at belong together.                                     *)
LEMMA PlaceInvCorrect == Spec => []PlaceInv
<1>1. Init => PlaceInv
  BY NoPositionLife DEF Init, PlaceInv, PhaseAt, PhaseFits, EntryPlaces, ActivePlaces, ReadPlaces,
     SendPlaces, SameState, PutAway, PhaseTells, ExitPhase, EntryPhase
<1>2. PlaceInv /\ TypeInv /\ TypeInv' /\ [Next]_vars => PlaceInv'
  <2> SUFFICES ASSUME PlaceInv, TypeInv, TypeInv', [Next]_vars PROVE PlaceInv'
    OBVIOUS
  <2>1. CASE UNCHANGED vars
    BY <2>1, OutsideKeepsPlace DEF vars, brokerVars, storeVars, monitorVars, localVars, Exists
  <2>2. CASE Next
    <3>1. \A o \in OrderIds : Exists(o) => Exists(o)'
      BY <2>2, StepSettles, OrdersStay
    <3>2. CASE Monitor \/ Crash \/ CallFails \/ AdvanceClock
      <4>1. CASE Start \/ Crash \/ AdvanceClock \/ Tick \/ MinuteIdle \/ MinuteExit \/ CallFails
        BY <4>1, LoopKeepsPlace, MonitorSettles DEF MonitorReads
      <4>2. CASE Reconcile
        BY <4>2, MonitorSettles, EntryKeepsPlace, ActiveKeepsPlace, ExitReadKeepsPlace
           DEF MonitorReads, Reconcile
      <4>3. CASE RequestPositionExit
        BY <3>1, <4>3, MonitorSettles, ExitReadKeepsPlace, ExitWriteKeepsPlace
           DEF MonitorReads, RequestPositionExit
      <4>4. CASE Enter
        BY <3>1, <4>4, EnterKeepsPlace
      <4> QED  BY <3>2, <4>1, <4>2, <4>3, <4>4 DEF Monitor
    <3>3. CASE Venue
      BY <3>1, <3>3, OutsideKeepsPlace DEF Venue, storeVars, monitorVars, localVars
    <3> QED  BY <2>2, <3>2, <3>3 DEF Next
  <2> QED  BY <2>1, <2>2
<1> QED  BY <1>1, <1>2, TypeInvCorrect, PTL DEF Spec
-----------------------------------------------------------------------------
(* A POST still travelling that the venue does not know yet belongs to the *)
(* state that is saved, and nothing else works while it does.              *)
Pending ==
    \A r \in wire : ~Exists(r.id) =>
        /\ OpenOrders = {}
        /\ \/ r.id = EntryOf(saved)
           \/ saved.exit >= 0 /\ r.id = ExitId(saved, saved.exit) /\ Exists(EntryOf(saved))

(* A working exit is the one the saved state names.                        *)
LiveExitIsSaved ==
    \A o \in ExitIds \cap OpenOrders : saved.exit >= 0 /\ o = ExitId(saved, saved.exit)

(* Between two positions, and before an entry is sent, nothing works.      *)
Clean == OpenOrders = {} /\ \A r \in wire : Exists(r.id)
CleanBetween == saved.phase \in {"none", "stopped"} \/ pc \in {"ePost", "eAbort"} => Clean

(* Once the open orders were read and none was left, only the exit whose   *)
(* lookup found nothing may still come up, and it is the one sent again.   *)
ClearedForExit ==
    /\ pc = "xQuantity" \/ (pc = "xRefresh" /\ vis = {}) =>
          OpenOrders = {} \/ (Unresolved /\ OpenOrders = {PreviousId})
    /\ pc = "xSave" => /\ OpenOrders \subseteq {ExitId(mem, req.n)}
                       /\ \A r \in wire : Exists(r.id) \/ r.id = ExitId(mem, req.n)
    /\ pc = "xPost" => OpenOrders \subseteq {ExitId(mem, mem.exit)}

(* What the previous exit was found to be is still true of it: it is there *)
(* when it was found, and has ended when it was found ended.               *)
EndedPlaces == {"xEntry", "xBefore", "xCancel", "xRefresh", "xQuantity"}
PreviousKnown ==
    /\ pc \in EndedPlaces \cup {"xVisible"} /\ snapA.st # "none" =>
          /\ mem.exit >= 0 /\ Exists(PreviousId)
          /\ snapA.st \in Terminal => ord[PreviousId].st \in Terminal
    /\ pc \in EndedPlaces => ~IsLive(snapA)

(* The orders to be canceled are entries and legs.                         *)
NoExitToCancel == pc \in {"xEntry", "xBefore", "xCancel", "flatCancel"} => todo \cap ExitIds = {}

AloneInv ==
    /\ ExitWorksAlone /\ Pending /\ LiveExitIsSaved /\ CleanBetween
    /\ ClearedForExit /\ PreviousKnown /\ NoExitToCancel

-----------------------------------------------------------------------------
(* The order a saved state names is an order.                              *)
LEMMA SavedOrder ==
    ASSUME TypeInv, PlaceInv, saved.exit >= 0
    PROVE  EntryOf(saved) \in OrderIds
BY MemIds DEF TypeInv, TypeOK, PlaceInv, PhaseTells, ExitPhase

(* A settling step that keeps the ids of the saved state keeps what works  *)
(* at the venue and what may still come up there in order.                 *)
LEMMA SettlingKeepsAlone ==
    ASSUME TypeInv, PlaceInv, AloneInv, Settling, SameIds(saved, saved')
    PROVE  ExitWorksAlone' /\ Pending' /\ LiveExitIsSaved' /\ (Clean => Clean')
<1>1. OpenOrders' \subseteq OpenOrders /\ \A o \in OrderIds : Exists(o)' <=> Exists(o)
  BY SettlingShrinks
<1>2. wire' \subseteq wire /\ \A r \in wire : r.id \in OrderIds
  BY DEF Settling, TypeInv, TypeOK, BrokerTypeOK, Request, OrderIds
<1>3. EntryOf(saved)' = EntryOf(saved) /\ saved'.exit = saved.exit
      /\ ExitId(saved, saved.exit)' = ExitId(saved, saved.exit)
  BY DEF SameIds, EntryOf, ExitId
<1>4. ExitWorksAlone' /\ LiveExitIsSaved'
  BY <1>1, <1>3 DEF AloneInv, ExitWorksAlone, LiveExitIsSaved
<1>5. Clean => Clean'
  BY <1>1, <1>2 DEF Clean, Exists
<1>6. Pending'
  <2> SUFFICES ASSUME NEW r \in wire', ~Exists(r.id)'
               PROVE  /\ OpenOrders' = {}
                      /\ \/ r.id = EntryOf(saved)'
                         \/ /\ saved'.exit >= 0 /\ r.id = ExitId(saved, saved.exit)'
                            /\ Exists(EntryOf(saved))'
    BY DEF Pending, Exists
  <2>1. r \in wire /\ ~Exists(r.id)
    BY <1>1, <1>2 DEF Exists
  <2>2. /\ OpenOrders = {}
        /\ \/ r.id = EntryOf(saved)
           \/ saved.exit >= 0 /\ r.id = ExitId(saved, saved.exit) /\ Exists(EntryOf(saved))
    BY <2>1 DEF AloneInv, Pending
  <2>3. saved.exit >= 0 /\ Exists(EntryOf(saved)) => Exists(EntryOf(saved))'
    BY <1>1, <1>3, SavedOrder DEF Exists
  <2> QED  BY <1>1, <1>3, <2>2, <2>3
<1> QED  BY <1>4, <1>5, <1>6

PlacesAfterReading == {"xVisible", "flatCancel", "xSave", "xPost"} \cup EndedPlaces

(* Together with what the next place asks for, that is the invariant.      *)
LEMMA SettlingStep ==
    ASSUME TypeInv, PlaceInv, AloneInv, Settling, SameIds(saved, saved'),
           saved'.phase \in {"none", "stopped"} => saved.phase \in {"none", "stopped"} \/ Clean,
           pc' \in {"ePost", "eAbort"} => Clean,
           pc' \in PlacesAfterReading => ClearedForExit' /\ PreviousKnown' /\ NoExitToCancel'
    PROVE  AloneInv'
<1>1. ExitWorksAlone' /\ Pending' /\ LiveExitIsSaved' /\ (Clean => Clean')
  BY SettlingKeepsAlone
<1>2. CleanBetween'
  BY <1>1 DEF AloneInv, CleanBetween
<1>3. pc' \notin PlacesAfterReading => ClearedForExit' /\ PreviousKnown' /\ NoExitToCancel'
  BY DEF PlacesAfterReading, EndedPlaces, ClearedForExit, PreviousKnown, NoExitToCancel
<1> QED  BY <1>1, <1>2, <1>3 DEF AloneInv

(* The venue settles while the monitor waits, or is at its cancels.        *)
LEMMA WaitingStep ==
    ASSUME TypeInv, PlaceInv, AloneInv, Settling, UNCHANGED <<saved, pc, mem, snapA, vis, req>>,
           todo' \subseteq todo
    PROVE  AloneInv'
<1>1. OpenOrders' \subseteq OpenOrders /\ \A o \in OrderIds : Exists(o)' <=> Exists(o)
  BY SettlingShrinks
<1>2. /\ wire' \subseteq wire /\ \A r \in wire : r.id \in OrderIds
      /\ \A o \in OrderIds : ord[o].st \in Terminal => ord'[o].st \in Terminal
  BY DEF Settling, TypeInv, TypeOK, BrokerTypeOK, Request, OrderIds
<1>3. SameIds(saved, saved')
  BY DEF SameIds
<1>4. PreviousId' = PreviousId /\ Unresolved' = Unresolved
      /\ (pc \in EndedPlaces \cup {"xVisible"} => PreviousId \in OrderIds)
  <2>1. pc \in EndedPlaces \cup {"xVisible"} => mem.phase # "none"
    BY DEF PlaceInv, PhaseAt, PhaseFits, EndedPlaces, ReadPlaces, SendPlaces, Watching
  <2>2. mem.exit \in {-1} \cup Retries
    BY DEF TypeInv, TypeOK, Position
  <2>3. pc \in EndedPlaces \cup {"xVisible"} => \A n \in Retries : ExitId(mem, n) \in OrderIds
    BY <2>1, MemIds DEF TypeInv, TypeOK
  <2>4. PreviousId = ExitId(mem, IF mem.exit >= 0 THEN mem.exit ELSE 0)
        /\ (IF mem.exit >= 0 THEN mem.exit ELSE 0) \in Retries
    BY <2>2 DEF PreviousId, Retries
  <2>5. PreviousId' = PreviousId /\ Unresolved' = Unresolved
    BY DEF PreviousId, Unresolved, ExitId
  <2> QED  BY <2>3, <2>4, <2>5
<1>5. ClearedForExit'
  <2>1. /\ pc = "xQuantity" \/ (pc = "xRefresh" /\ vis = {}) =>
             OpenOrders = {} \/ (Unresolved /\ OpenOrders = {PreviousId})
        /\ pc = "xSave" => /\ OpenOrders \subseteq {ExitId(mem, req.n)}
                           /\ \A r \in wire : Exists(r.id) \/ r.id = ExitId(mem, req.n)
        /\ pc = "xPost" => OpenOrders \subseteq {ExitId(mem, mem.exit)}
    BY DEF AloneInv, ClearedForExit
  <2>2. pc = "xQuantity" \/ (pc = "xRefresh" /\ vis = {}) =>
             OpenOrders' = {} \/ (Unresolved /\ OpenOrders' = {PreviousId})
    BY <1>1, <2>1
  <2>3. pc = "xSave" => /\ OpenOrders' \subseteq {ExitId(mem, req.n)}
                        /\ \A r \in wire' : ord'[r.id].st # "none" \/ r.id = ExitId(mem, req.n)
    BY <1>1, <1>2, <2>1 DEF Exists
  <2> QED  BY <1>1, <1>4, <2>1, <2>2, <2>3 DEF ClearedForExit, Exists, ExitId
<1>6. PreviousKnown' /\ NoExitToCancel'
  BY <1>1, <1>2, <1>4 DEF AloneInv, PreviousKnown, NoExitToCancel, Exists, IsLive
<1> QED  BY <1>3, <1>5, <1>6, SettlingStep DEF AloneInv, CleanBetween
-----------------------------------------------------------------------------
(* A position under way is saved under the ids it has in memory.           *)
LEMMA SavedAsHeld ==
    ASSUME PlaceInv, mem.phase # "none", NEW q, SameIds(mem, q)
    PROVE  SameIds(saved, q) /\ EntryOf(mem) = EntryOf(saved)
           /\ \A n : ExitId(mem, n) = ExitId(saved, n)
BY DEF PlaceInv, SameState, SameIds, EntryOf, ExitId

(* The previous exit is an exit of the position under way.                 *)
LEMMA PreviousIsExit ==
    ASSUME TypeInv, mem.phase # "none"
    PROVE  /\ PreviousId \in ExitIds /\ PreviousId \in OrderIds
           /\ mem.exit >= 0 => PreviousId = ExitId(mem, mem.exit)
<1>1. \A n \in Retries : ExitId(mem, n) \in ExitIds /\ ExitId(mem, n) \in OrderIds
  BY MemIds DEF TypeInv, TypeOK
<1>2. (IF mem.exit >= 0 THEN mem.exit ELSE 0) \in Retries
  BY DEF TypeInv, TypeOK, Position, Retries
<1> QED  BY <1>1, <1>2 DEF PreviousId

(* What SettlingStep needs of a step that goes on anywhere but to an exit  *)
(* in progress.                                                            *)
PlainStep ==
    /\ SameIds(saved, saved')
    /\ saved'.phase \in {"none", "stopped"} => saved.phase \in {"none", "stopped"} \/ Clean
    /\ pc' \notin PlacesAfterReading \cup {"ePost", "eAbort"}

(* Saving nothing.                                                         *)
LEMMA NothingSaved ==
    ASSUME saved' = saved, pc' \notin PlacesAfterReading \cup {"ePost", "eAbort"}
    PROVE  PlainStep
BY DEF PlainStep, SameIds

(* Saving the position under way in a phase that is not put away clean.    *)
LEMMA SavedAgain ==
    ASSUME PlaceInv, mem.phase # "none", SameIds(mem, saved'),
           saved'.phase \notin {"none", "stopped"} \/ Clean,
           pc' \notin PlacesAfterReading \cup {"ePost", "eAbort"}
    PROVE  PlainStep
BY SavedAsHeld DEF PlainStep

(* The places of the loop and of the reconciliation are plain.             *)
LEMMA PlainPlaces ==
    {"down", "tick", "minute", "entry", "gonePosition", "goneOrders", "cancelEntry", "reread",
     "stop", "target", "holding", "flatEntry", "close", "xPrevious", "xAttach", "eSave", "eAttach"}
      \cap (PlacesAfterReading \cup {"ePost", "eAbort"}) = {}
BY DEF PlacesAfterReading, EndedPlaces

(* The decision on an entry is plain.                                      *)
LEMMA DecideIsPlain ==
    ASSUME PlaceInv, mem.phase # "none", NEW p \in Position, SameLife(mem, p), p.phase = "entry_pending",
           NEW x, NEW w, Decide(p, x, w)
    PROVE  PlainStep
<1>1. pc' \notin PlacesAfterReading \cup {"ePost", "eAbort"}
  BY DecidePlace, PlainPlaces
<1>2. SameIds(p, saved') /\ saved'.phase \in {"entry_pending", "complete", "active"}
  BY DEF Decide, Save, SameIds, Position
<1>3. SameIds(mem, saved')
  BY <1>2 DEF SameLife, SameIds
<1> QED  BY <1>1, <1>2, <1>3, SavedAgain

(* A return of request_position_exit is plain.                             *)
LEMMA SaveReturnIsPlain ==
    ASSUME TypeInv, TypeInv', PlaceInv, mem.phase # "none", NEW p \in Position, SameIds(mem, p),
           p.phase \notin {"none", "stopped"}, NEW x, NEW o, SaveReturn(p, x, o)
    PROVE  PlainStep
<1>1. PICK q \in Position : SameLife(p, q) /\ Writes(q) /\ pc' \in {"tick", "minute"}
  BY SaveReturnWrites
<1>2. SameIds(mem, saved') /\ saved'.phase \notin {"none", "stopped"}
  BY <1>1 DEF SameLife, SameIds, Writes
<1> QED  BY <1>1, <1>2, SavedAgain, PlainPlaces

(* The loop and the entry_pending phase are plain.                         *)
LEMMA LoopAndEntryArePlain ==
    ASSUME TypeInv, PlaceInv,
           \/ Start \/ Crash \/ Tick \/ MinuteIdle \/ MinuteExit \/ CallFails
           \/ EntryLookup \/ EntryGonePosition \/ EntryGoneOrders \/ CancelEntry \/ EntryReread
    PROVE  PlainStep
<1>1. CASE \/ Start \/ Crash \/ Tick \/ MinuteIdle \/ MinuteExit \/ CallFails
           \/ EntryGonePosition \/ CancelEntry
  <2>1. saved' = saved /\ pc' \in {"down", "tick", "entry", "stop", "close", "minute", "xPrevious",
                                   "goneOrders", "reread"}
    BY <1>1 DEF Start, Crash, Tick, Lifecycle, MinuteIdle, MinuteExit, CallFails, EntryGonePosition,
                CancelEntry, Goto, Raise, storeVars
  <2> QED  BY <2>1, NothingSaved, PlainPlaces
<1>2. ASSUME EntryLookup \/ EntryGoneOrders \/ EntryReread
      PROVE  mem.phase = "entry_pending" /\ mem \in Position
  BY <1>2 DEF EntryLookup, EntryGoneOrders, EntryReread, PlaceInv, PhaseAt, PhaseFits, EntryPlaces,
              TypeInv, TypeOK
<1> DEFINE p == Remember(mem, OrderTree(EntryOf(mem)))
<1>3. ASSUME mem.phase = "entry_pending", mem \in Position
      PROVE  p \in Position /\ SameLife(mem, p) /\ p.phase = "entry_pending"
  BY <1>3, RememberLife, RememberType DEF SameTrade, SameLife, TypeInv, TypeOK
<1> HIDE DEF p
<1>4. CASE EntryLookup
  <2>1. CASE saved' = saved /\ pc' = "gonePosition"
    BY <2>1, NothingSaved, PlainPlaces
  <2>2. CASE Save(p) /\ pc' = "cancelEntry"
    <3>1. SameIds(mem, saved') /\ saved'.phase \notin {"none", "stopped"}
      BY <1>2, <1>3, <1>4, <2>2 DEF Save, SameLife
    <3> QED  BY <1>2, <1>4, <2>2, <3>1, SavedAgain, PlainPlaces
  <2>3. CASE \E w : Decide(p, ord[EntryOf(mem)], w)
    BY <1>2, <1>3, <1>4, <2>3, DecideIsPlain
  <2> QED  BY <1>4, <2>1, <2>2, <2>3 DEF EntryLookup, p, Goto, storeVars
<1>5. CASE EntryReread
  <2>1. Decide(p, ord[EntryOf(mem)], partial)
    BY <1>5 DEF EntryReread, p
  <2> QED  BY <1>2, <1>3, <1>5, <2>1, DecideIsPlain
<1>6. CASE EntryGoneOrders
  <2>1. CASE saved' = saved
    BY <1>6, <2>1, NothingSaved, PlainPlaces DEF EntryGoneOrders, Raise, Finish, Goto
  <2>2. CASE saved' = [mem EXCEPT !.phase = "complete"]
    <3>1. SameIds(mem, saved') /\ saved'.phase = "complete" /\ pc' \in {"tick", "minute"}
      BY <1>2, <1>6, <2>2, PhaseLife DEF EntryGoneOrders, Raise, Finish, Goto
    <3> QED  BY <1>2, <1>6, <3>1, SavedAgain, PlainPlaces
  <2> QED  BY <1>6, <2>1, <2>2 DEF EntryGoneOrders
<1> QED  BY <1>1, <1>4, <1>5, <1>6

(* So is the active phase, but for the cancels of a flat position.         *)
LEMMA ActiveIsPlain ==
    ASSUME TypeInv, PlaceInv, AloneInv,
           ActiveStop \/ ActiveTarget \/ ActiveHolding \/ FlatOrders
    PROVE  PlainStep
<1>0. mem.phase = "active" /\ mem \in Position
  BY DEF ActiveStop, ActiveTarget, ActiveHolding, FlatOrders, PlaceInv, PhaseAt, PhaseFits,
         ActivePlaces, TypeInv, TypeOK
<1>1. CASE ActiveStop
  BY <1>1, NothingSaved, PlainPlaces DEF ActiveStop, Goto, storeVars
<1>2. CASE ActiveTarget
  <2>1. saved' = Remember(mem, LegsOf(mem)) /\ pc' = "holding"
    BY <1>2 DEF ActiveTarget, Save, Goto
  <2>2. SameIds(mem, saved') /\ saved'.phase = "active"
    BY <1>0, <2>1, RememberLife DEF SameLife
  <2> QED  BY <1>0, <2>1, <2>2, SavedAgain, PlainPlaces
<1>3. CASE ActiveHolding
  <2>1. /\ saved' = saved \/ saved' = [mem EXCEPT !.shares = seen]
        /\ pc' \in {"tick", "minute", "close", "flatEntry"}
    BY <1>3 DEF ActiveHolding, Finish, Raise, CloseNow, Save, Goto
  <2>2. ASSUME saved' = [mem EXCEPT !.shares = seen]
        PROVE  SameIds(mem, saved') /\ saved'.phase = "active"
    BY <1>0, <2>2 DEF SameIds, Position
  <2> QED  BY <1>0, <2>1, <2>2, NothingSaved, SavedAgain, PlainPlaces
<1>4. CASE FlatOrders
  <2>1. /\ saved' = IF OpenOrders # {} THEN mem ELSE [mem EXCEPT !.phase = FlatPhase]
        /\ pc' = "minute"
    BY <1>4 DEF FlatOrders, Finish, Goto
  <2>2. SameIds(mem, saved')
    BY <1>0, <2>1, PhaseLife DEF SameIds
  <2>3. CASE OpenOrders # {}
    BY <1>0, <2>1, <2>2, <2>3, SavedAgain, PlainPlaces
  <2>4. CASE OpenOrders = {}
    <3>1. saved.phase = "active" /\ saved.exit = mem.exit
      BY <1>0 DEF PlaceInv, SameState
    <3>2. ~(saved.exit >= 0) /\ Exists(EntryOf(saved))
      BY <3>1 DEF PlaceInv, PhaseTells, ExitPhase, EntryPhase
    <3>3. \A r \in wire : Exists(r.id)
      BY <3>2 DEF AloneInv, Pending
    <3> QED  BY <1>0, <2>1, <2>2, <2>4, <3>3, SavedAgain, PlainPlaces DEF Clean
  <2> QED  BY <2>3, <2>4
<1> QED  BY <1>1, <1>2, <1>3, <1>4

(* And what an exit does before its readings and after its POST.           *)
LEMMA ExitEndsArePlain ==
    ASSUME TypeInv, TypeInv', PlaceInv,
           \/ CloseRemember \/ ExitFlat \/ ExitAttach \/ EntryIntent \/ EntryAttach
           \/ ExitVisible /\ pc' # "xEntry"
           \/ ExitEntry /\ pc' # "xBefore"
           \/ ExitBefore /\ pc' # "xCancel"
           \/ ExitRefresh /\ vis # {}
           \/ ExitIntent /\ pc' # "xSave"
           \/ (ExitCancel \/ FlatCancel) /\ pc' = "tick"
    PROVE  PlainStep
<1>0. mem \in Position
  BY DEF TypeInv, TypeOK
<1>1. CASE \/ ExitEntry /\ pc' # "xBefore"
           \/ ExitBefore /\ pc' # "xCancel"
           \/ ExitIntent /\ pc' # "xSave"
           \/ (ExitCancel \/ FlatCancel) /\ pc' = "tick"
           \/ EntryIntent
  <2>1. saved' = saved /\ pc' \in {"tick", "eSave"}
    BY <1>1 DEF ExitEntry, ExitBefore, ExitIntent, ExitCancel, FlatCancel, CancelOne, EntryIntent,
                Goto, Raise, storeVars
  <2> QED  BY <2>1, NothingSaved, PlainPlaces
<1>2. CASE CloseRemember
  <2>1. saved' = Remember(mem, ClientIds(mem) \cup OrderTree(EntryOf(mem))) /\ pc' = "xPrevious"
    BY <1>2 DEF CloseRemember, Save, Goto
  <2>2. mem.phase \in Watching
    BY <1>2 DEF CloseRemember, PlaceInv, PhaseAt, PhaseFits, ReadPlaces
  <2>3. SameLife(mem, saved')
    BY <1>0, <2>1, RememberLife
  <2> QED  BY <2>1, <2>2, <2>3, SavedAgain, PlainPlaces DEF SameLife, Watching
<1>3. CASE ExitFlat
  <2>1. mem.phase = "exit_pending"
    BY <1>3 DEF ExitFlat, PlaceInv, PhaseAt, PhaseFits, SendPlaces
  <2>2. CASE saved' = saved /\ pc' = "tick"
    BY <2>2, NothingSaved, PlainPlaces
  <2>3. CASE SaveReturn([mem EXCEPT !.phase = "complete"], snapA, PreviousId)
    <3>1. PICK p : p = [mem EXCEPT !.phase = "complete"]
      OBVIOUS
    <3>2. p \in Position /\ SameIds(mem, p) /\ p.phase = "complete"
      BY <1>0, <3>1, PhaseLife DEF Position, Phases
    <3> QED  BY <2>1, <2>3, <3>1, <3>2, SaveReturnIsPlain
  <2> QED  BY <1>3, <2>2, <2>3 DEF ExitFlat, Raise, storeVars
<1>4. CASE ExitAttach \/ EntryAttach
  <2>1. mem.phase \in {"exit_pending", "entry_pending"}
    BY <1>4 DEF ExitAttach, EntryAttach, PlaceInv, PhaseAt, PhaseFits, SendPlaces, EntryPlaces
  <2>2. /\ saved' = mem \/ saved' = Remember(mem, {ExitId(mem, mem.exit)})
        /\ pc' \in {"tick", "minute"}
    BY <1>4 DEF ExitAttach, EntryAttach, Finish, Goto
  <2>3. SameLife(mem, saved')
    BY <1>0, <2>2, RememberLife DEF SameLife, SameIds
  <2> QED  BY <2>1, <2>2, <2>3, SavedAgain, PlainPlaces DEF SameLife
<1>5. CASE ExitVisible /\ pc' # "xEntry"
  <2>1. mem.phase \in Watching
    BY <1>5 DEF ExitVisible, PlaceInv, PhaseAt, PhaseFits, ReadPlaces
  <2>2. CASE saved' = saved /\ pc' = "tick"
    BY <2>2, NothingSaved, PlainPlaces
  <2>3. CASE SaveReturn(mem, PreviousExit, PreviousId)
    <3>1. SameIds(mem, mem)
      BY DEF SameIds
    <3> QED  BY <1>0, <2>1, <2>3, <3>1, SaveReturnIsPlain DEF Watching
  <2> QED  BY <1>5, <2>2, <2>3 DEF ExitVisible, Goto, storeVars
<1>6. CASE ExitRefresh /\ vis # {}
  <2>1. mem.phase \in Watching
    BY <1>6 DEF ExitRefresh, PlaceInv, PhaseAt, PhaseFits, ReadPlaces
  <2>2. PICK p : p = Refreshed
    OBVIOUS
  <2>3. SaveReturn(p, NoOrder, EntryOf(mem))
    BY <1>6, <2>2 DEF ExitRefresh
  <2>4. PICK r : r = Remember(mem, Owned(mem))
    OBVIOUS
  <2>5. r \in Position /\ SameLife(mem, r)
    BY <1>0, <2>4, RememberLife, RememberType DEF SameTrade, TypeInv, TypeOK
  <2>6. p = [r EXCEPT !.phase = "exit_pending"]
    BY <2>2, <2>4 DEF Refreshed
  <2>7. p \in Position /\ SameIds(mem, p) /\ p.phase = "exit_pending"
    <3>1. p \in Position
      BY <2>5, <2>6 DEF Position, Phases
    <3>2. SameIds(r, p) /\ p.phase = "exit_pending"
      BY <2>5, <2>6, PhaseLife
    <3> QED  BY <2>5, <3>1, <3>2 DEF SameLife, SameIds
  <2> QED  BY <2>1, <2>3, <2>7, SaveReturnIsPlain DEF Watching
<1> QED  BY <1>1, <1>2, <1>3, <1>4, <1>5, <1>6
-----------------------------------------------------------------------------
(* A plain step keeps the exit alone.                                      *)
LEMMA PlainKeepsAlone ==
    ASSUME TypeInv, PlaceInv, AloneInv, Settling, PlainStep
    PROVE  AloneInv'
BY SettlingStep DEF PlainStep

(* A flat position cancels what is left of its bracket, and no exit.       *)
LEMMA FlatEntryKeepsAlone ==
    ASSUME TypeInv, PlaceInv, AloneInv, Settling, FlatEntry
    PROVE  AloneInv'
<1>0. mem.phase = "active" /\ mem \in Position
  BY DEF FlatEntry, PlaceInv, PhaseAt, PhaseFits, ActivePlaces, TypeInv, TypeOK
<1>1. saved' = Remember(mem, OrderTree(EntryOf(mem))) /\ pc' \in {"tick", "flatCancel"}
  BY DEF FlatEntry, Save, Goto, Raise
<1>2. SameIds(saved, saved') /\ saved'.phase = "active"
  BY <1>0, <1>1, RememberLife, SavedAsHeld DEF SameLife
<1>3. pc' = "flatCancel" => todo' \subseteq {StopOf(EntryOf(mem)), TargetOf(EntryOf(mem))}
  BY DEF FlatEntry, Goto, Raise
<1>4. todo' \cap ExitIds = {} \/ pc' = "tick"
  <2>1. EntryOf(mem) \in EntryIds
    BY <1>0, MemIds DEF TypeInv, TypeOK
  <2> QED  BY <1>1, <1>3, <2>1, IdTypes, IdsDiffer
<1>5. ClearedForExit' /\ PreviousKnown' /\ NoExitToCancel'
  BY <1>1, <1>4 DEF ClearedForExit, PreviousKnown, EndedPlaces, NoExitToCancel
<1> QED  BY <1>1, <1>2, <1>5, SettlingStep

(* The point lookup of the previous exit tells what it is, or nothing.     *)
LEMMA ExitPreviousKeepsAlone ==
    ASSUME TypeInv, PlaceInv, AloneInv, Settling, ExitPrevious
    PROVE  AloneInv'
<1>1. UNCHANGED <<saved, mem, ord>> /\ pc' = "xVisible"
  BY DEF ExitPrevious, Goto, storeVars
<1>2. snapA'.st # "none" => mem.exit >= 0 /\ snapA' = ord[PreviousId]
  BY DEF ExitPrevious, NoOrder
<1>3. ClearedForExit' /\ PreviousKnown' /\ NoExitToCancel'
  BY <1>1, <1>2 DEF ClearedForExit, PreviousKnown, EndedPlaces, NoExitToCancel, PreviousId,
                    ExitId, Exists
<1> QED  BY <1>1, <1>3, SettlingStep DEF SameIds

(* When the previous exit does not work any more, no exit is among the     *)
(* open orders: the orders to be canceled are the others.                  *)
LEMMA ExitVisibleKeepsAlone ==
    ASSUME TypeInv, PlaceInv, AloneInv, Settling, ExitVisible, pc' = "xEntry"
    PROVE  AloneInv'
<1>0. /\ pc = "xVisible" /\ UNCHANGED <<saved, mem, ord>> /\ ~IsLive(PreviousExit)
      /\ snapA' = PreviousExit
      /\ todo' = {o \in OpenOrders : ord[o].st # "pending_cancel"}
  BY DEF ExitVisible, Goto, Raise, SaveReturn, Finish, storeVars, brokerVars
<1>1. mem.phase # "none"
  BY <1>0 DEF PlaceInv, PhaseAt, PhaseFits, ReadPlaces, Watching
<1>2. PreviousExit = ord[PreviousId] \/ PreviousExit = snapA
  BY DEF PreviousExit
<1>3. PreviousExit # snapA => mem.exit >= 0
  BY DEF PreviousExit, Unresolved
<1>4. PreviousKnown'
  BY <1>0, <1>2, <1>3 DEF AloneInv, PreviousKnown, EndedPlaces, PreviousId, ExitId, Exists
<1>5. todo' \cap ExitIds = {}
  <2> SUFFICES ASSUME NEW o \in OpenOrders \cap ExitIds PROVE FALSE
    BY <1>0
  <2>1. saved.exit >= 0 /\ o = ExitId(saved, saved.exit)
    BY DEF AloneInv, LiveExitIsSaved
  <2>2. mem.exit >= 0 /\ o = PreviousId
    BY <1>1, <2>1, PreviousIsExit DEF PlaceInv, SameState, ExitId
  <2>3. IsLive(ord[PreviousId]) /\ PreviousId \in OpenOrders
    BY <2>2 DEF OpenOrders
  <2>4. CASE Unresolved
    BY <1>0, <2>3, <2>4 DEF PreviousExit
  <2>5. CASE ~Unresolved
    <3>1. PreviousExit = snapA /\ snapA.st # "none" /\ snapA.st \in Terminal
      BY <1>0, <2>2, <2>5 DEF PreviousExit, Unresolved, IsLive
    <3>2. ord[PreviousId].st \in Terminal
      BY <1>0, <3>1 DEF AloneInv, PreviousKnown
    <3> QED  BY <2>3, <3>2 DEF IsLive
  <2> QED  BY <2>4, <2>5
<1>6. ClearedForExit' /\ NoExitToCancel'
  BY <1>5 DEF ClearedForExit, NoExitToCancel
<1> QED  BY <1>0, <1>4, <1>6, SettlingStep DEF SameIds

(* The readings that follow leave what was found as it is.                 *)
LEMMA ExitReadingKeepsAlone ==
    ASSUME TypeInv, PlaceInv, AloneInv, Settling,
           \/ ExitEntry /\ pc' = "xBefore"
           \/ ExitBefore /\ pc' = "xCancel"
           \/ ExitRemaining
    PROVE  AloneInv'
<1>1. /\ UNCHANGED <<saved, mem, ord, snapA, todo>> /\ pc \in {"xEntry", "xBefore", "xCancel"}
      /\ pc' \in {"xBefore", "xCancel", "xRefresh"} /\ (pc' = "xRefresh" => vis' = OpenOrders)
  BY DEF ExitEntry, ExitBefore, ExitRemaining, Goto, Raise, storeVars, brokerVars, localVars
<1>2. PreviousKnown' /\ NoExitToCancel'
  BY <1>1 DEF AloneInv, PreviousKnown, EndedPlaces, NoExitToCancel, PreviousId, ExitId, Exists
<1>3. ClearedForExit'
  <2>1. OpenOrders' = OpenOrders
    BY <1>1 DEF OpenOrders
  <2> QED  BY <1>1, <2>1 DEF ClearedForExit
<1> QED  BY <1>1, <1>2, <1>3, SettlingStep DEF SameIds

(* With no open order left, the quantity is asked for.                     *)
LEMMA ExitRefreshKeepsAlone ==
    ASSUME TypeInv, PlaceInv, AloneInv, Settling, ExitRefresh, vis = {}
    PROVE  AloneInv'
<1>0. mem \in Position
  BY DEF TypeInv, TypeOK
<1>1. UNCHANGED <<saved, ord, snapA>> /\ pc = "xRefresh" /\ pc' = "xQuantity" /\ mem' = Refreshed
  BY DEF ExitRefresh, Goto, storeVars, brokerVars
<1>2. PICK r : r = Remember(mem, Owned(mem))
  OBVIOUS
<1>3. mem' = [r EXCEPT !.phase = "exit_pending"] /\ r \in Position /\ SameLife(mem, r)
  BY <1>0, <1>1, <1>2, RememberLife, RememberType DEF Refreshed, SameTrade, TypeInv, TypeOK
<1>4. mem'.exit = mem.exit /\ mem'.attempt = mem.attempt
  BY <1>3, PhaseLife DEF SameLife, SameIds
<1>5. PreviousId' = PreviousId /\ Unresolved' = Unresolved /\ OpenOrders' = OpenOrders
  BY <1>1, <1>4 DEF PreviousId, Unresolved, ExitId, OpenOrders
<1>6. OpenOrders = {} \/ (Unresolved /\ OpenOrders = {PreviousId})
  BY <1>1 DEF AloneInv, ClearedForExit
<1>7. ClearedForExit' /\ NoExitToCancel'
  BY <1>1, <1>5, <1>6 DEF ClearedForExit, NoExitToCancel
<1>8. PreviousKnown'
  BY <1>1, <1>4, <1>5 DEF AloneInv, PreviousKnown, EndedPlaces, Exists
<1> QED  BY <1>1, <1>7, <1>8, SettlingStep DEF SameIds

(* A POST that may come up belongs to the exit that will be sent.          *)
LEMMA PendingIsPrevious ==
    ASSUME TypeInv, PlaceInv, AloneInv, mem.phase = "exit_pending", NEW r \in wire, ~Exists(r.id)
    PROVE  OpenOrders = {} /\ mem.exit >= 0 /\ r.id = ExitId(mem, mem.exit) /\ r.id = PreviousId
<1>1. EntryOf(saved) = EntryOf(mem) /\ ExitId(saved, saved.exit) = ExitId(mem, mem.exit)
      /\ saved.exit = mem.exit
  BY DEF PlaceInv, SameState, EntryOf, ExitId
<1>2. Exists(EntryOf(mem))
  BY DEF PlaceInv, PhaseTells, EntryPhase
<1>3. OpenOrders = {} /\ mem.exit >= 0 /\ r.id = ExitId(mem, mem.exit)
  BY <1>1, <1>2 DEF AloneInv, Pending
<1> QED  BY <1>3, PreviousIsExit

(* The next exit is the one that may come up, when there is such a one.    *)
LEMMA ExitIntentKeepsAlone ==
    ASSUME TypeInv, PlaceInv, AloneInv, Settling, ExitIntent, pc' = "xSave"
    PROVE  AloneInv'
<1>1. /\ pc = "xQuantity" /\ UNCHANGED <<saved, mem, ord, wire, snapA>> /\ req'.n = NextExit
  BY DEF ExitIntent, Goto, Raise, brokerVars
<1>2. mem.phase = "exit_pending"
  BY <1>1 DEF PlaceInv, PhaseAt, PhaseFits, SendPlaces
<1>3. Unresolved => req'.n = mem.exit /\ PreviousId = ExitId(mem, req'.n)
  BY <1>1, <1>2, PreviousIsExit DEF NextExit, Unresolved, TypeInv, TypeOK, Position, Retries
<1>4. OpenOrders \subseteq {ExitId(mem, req'.n)}
  BY <1>1, <1>3 DEF AloneInv, ClearedForExit
<1>5. \A r \in wire : Exists(r.id) \/ r.id = ExitId(mem, req'.n)
  <2> SUFFICES ASSUME NEW r \in wire, ~Exists(r.id) PROVE r.id = ExitId(mem, req'.n)
    OBVIOUS
  <2>1. mem.exit >= 0 /\ r.id = PreviousId
    BY <1>2, PendingIsPrevious
  <2>2. Unresolved
    BY <1>1, <2>1 DEF AloneInv, PreviousKnown, EndedPlaces, Unresolved
  <2> QED  BY <1>3, <2>1, <2>2
<1>6. ClearedForExit'
  BY <1>1, <1>4, <1>5 DEF ClearedForExit, OpenOrders, Exists, ExitId
<1>7. PreviousKnown' /\ NoExitToCancel'
  BY DEF PreviousKnown, EndedPlaces, NoExitToCancel
<1> QED  BY <1>1, <1>6, <1>7, SettlingStep DEF SameIds

(* It is saved before it is sent.                                          *)
LEMMA ExitSaveKeepsAlone ==
    ASSUME TypeInv, PlaceInv, AloneInv, ExitSave
    PROVE  AloneInv'
<1>0. mem.phase = "exit_pending" /\ mem \in Position /\ req.n \in Retries
  BY DEF ExitSave, PlaceInv, PhaseAt, PhaseFits, SendPlaces, TypeInv, TypeOK
<1>1. PICK q : q = [mem EXCEPT !.exit = req.n, !.ask = req.qty]
  OBVIOUS
<1>2. saved' = q /\ mem' = q /\ pc = "xSave" /\ pc' = "xPost" /\ UNCHANGED <<ord, wire>>
  BY <1>1 DEF ExitSave, Save, Goto, brokerVars
<1>3. q.exit = req.n /\ q.phase = "exit_pending" /\ EntryOf(q) = EntryOf(mem)
      /\ ExitId(q, q.exit) = ExitId(mem, req.n) /\ q.exit >= 0
  BY <1>0, <1>1 DEF Position, EntryOf, ExitId, Retries
<1>4. OpenOrders \subseteq {ExitId(mem, req.n)}
      /\ \A r \in wire : Exists(r.id) \/ r.id = ExitId(mem, req.n)
  BY <1>2 DEF AloneInv, ClearedForExit
<1>5. Exists(EntryOf(mem))
  BY <1>0 DEF PlaceInv, PhaseTells, EntryPhase
<1>6. OpenOrders' = OpenOrders /\ \A o : ord'[o] = ord[o]
  BY <1>2 DEF OpenOrders
<1>7. ExitWorksAlone' /\ LiveExitIsSaved' /\ ClearedForExit'
  BY <1>2, <1>3, <1>4, <1>6 DEF ExitWorksAlone, LiveExitIsSaved, ClearedForExit
<1>8. Pending'
  <2>1. \A r \in wire : ~Exists(r.id) => OpenOrders = {}
    BY DEF AloneInv, Pending
  <2> QED  BY <1>2, <1>3, <1>4, <1>5, <1>6, <2>1 DEF Pending, Exists
<1>9. CleanBetween' /\ PreviousKnown' /\ NoExitToCancel'
  BY <1>2, <1>3 DEF CleanBetween, PreviousKnown, EndedPlaces, NoExitToCancel
<1> QED  BY <1>7, <1>8, <1>9 DEF AloneInv
-----------------------------------------------------------------------------
(* An accepted exit opens itself and nothing else; an accepted entry opens *)
(* no exit.                                                                *)
LEMMA AcceptedOpens ==
    ASSUME NEW id \in EntryIds \cup ExitIds, NEW q, NEW legs \in BOOLEAN, ord' = Accepted(id, q, legs)
    PROVE  /\ id \in OpenOrders' /\ Exists(id)'
           /\ id \in ExitIds => OpenOrders' = OpenOrders \cup {id}
           /\ id \in EntryIds => OpenOrders' \cap ExitIds = OpenOrders \cap ExitIds
           /\ \A o \in ExitIds : o # id => ord'[o] = ord[o]
<1>1. id \in OrderIds /\ ExitIds \subseteq OrderIds
  BY DEF OrderIds
<1>2. \A o \in OrderIds : ord'[o] = CASE o = id -> Working(q)
          [] legs /\ id \in EntryIds /\ o \in {StopOf(id), TargetOf(id)} -> Held(q)
          [] OTHER -> ord[o]
  BY DEF Accepted
<1>3. ord'[id].st = "new"
  <2>1. id \notin {StopOf(id), TargetOf(id)} \/ id \in ExitIds
    BY IdTypes, IdsDiffer
  <2>2. ord'[id] = Working(q)
    BY <1>1, <1>2, <2>1, IdsDiffer
  <2> QED  BY <2>2 DEF Working
<1>4. ASSUME id \in ExitIds PROVE \A o \in OrderIds : o # id => ord'[o] = ord[o]
  BY <1>2, <1>4, IdsDiffer
<1>5. ASSUME id \in EntryIds PROVE \A o \in ExitIds : ord'[o] = ord[o] /\ o # id
  <2>1. \A o \in ExitIds : o \notin {id, StopOf(id), TargetOf(id)}
    BY <1>5, IdTypes, IdsDiffer
  <2> QED  BY <1>1, <1>2, <2>1
<1>6. id \in OpenOrders' /\ Exists(id)'
  BY <1>1, <1>3 DEF OpenOrders, IsLive, Exists, Terminal
<1> QED  BY <1>1, <1>4, <1>5, <1>6 DEF OpenOrders

(* The POST of an exit, answered, refused, lost or late, leaves it alone.  *)
LEMMA ExitPostKeepsAlone ==
    ASSUME TypeInv, PlaceInv, PlaceInv', AloneInv, ExitPost
    PROVE  AloneInv'
<1> PICK id : id = ExitId(mem, mem.exit)
  OBVIOUS
<1>0. mem.phase = "exit_pending" /\ saved.phase = "exit_pending" /\ mem.exit \in Retries
  BY DEF ExitPost, PlaceInv, PhaseAt, PhaseFits, SendPlaces, PutAway, TypeInv
<1>1. /\ UNCHANGED <<saved, mem>> /\ pc = "xPost" /\ Posted(id, mem.ask) /\ pc' \in {"xAttach", "tick"}
  BY SubmitPosts DEF ExitPost, storeVars
<1>2. id \in ExitIds /\ id = ExitId(saved, saved.exit) /\ saved.exit >= 0 /\ Exists(EntryOf(saved))
      /\ EntryOf(saved) \in OrderIds /\ id \in OrderIds
  <2>1. id \in ExitIds /\ id \in OrderIds
    BY <1>0, MemIds DEF TypeInv, TypeOK
  <2>2. saved.exit = mem.exit /\ id = ExitId(saved, saved.exit) /\ saved.exit >= 0
    BY <1>0 DEF PlaceInv, SameState, ExitId, Retries
  <2> QED  BY <1>0, <2>1, <2>2, SavedOrder DEF PlaceInv, PhaseTells, EntryPhase
<1>3. \A r \in wire : ~Exists(r.id) => r.id = id /\ OpenOrders = {}
  BY <1>0, PendingIsPrevious
<1>4. OpenOrders \subseteq {id}
  BY <1>1 DEF AloneInv, ClearedForExit
<1>5. EntryOf(saved)' = EntryOf(saved) /\ ExitId(saved, saved.exit)' = id
  BY <1>1, <1>2 DEF EntryOf, ExitId
<1>6. /\ CleanBetween' /\ ClearedForExit' /\ PreviousKnown' /\ NoExitToCancel'
  BY <1>0, <1>1 DEF CleanBetween, ClearedForExit, PreviousKnown, EndedPlaces, NoExitToCancel
<1>7. ExitWorksAlone' /\ Pending' /\ LiveExitIsSaved'
  <2>1. CASE UNCHANGED <<ord, wire>>
    BY <1>1, <2>1 DEF AloneInv, ExitWorksAlone, Pending, LiveExitIsSaved, OpenOrders, Exists, EntryOf, ExitId
  <2>2. CASE ~Exists(id) /\ ord' = ord /\ wire' = wire \cup {[id |-> id, qty |-> mem.ask]}
    <3>1. OpenOrders' = OpenOrders /\ \A o : Exists(o)' <=> Exists(o)
      BY <2>2 DEF OpenOrders, Exists
    <3>2. OpenOrders = {}
      BY <1>4, <2>2 DEF OpenOrders, IsLive, Exists
    <3>3. ExitWorksAlone' /\ LiveExitIsSaved'
      BY <3>1, <3>2 DEF ExitWorksAlone, LiveExitIsSaved
    <3>4. \A r \in wire' : ~Exists(r.id)' => r.id = id
      BY <1>3, <2>2, <3>1 DEF Exists
    <3>5. Exists(EntryOf(saved))' /\ saved'.exit >= 0
      BY <1>1, <1>2, <3>1 DEF Exists, EntryOf
    <3>6. Pending'
      BY <1>5, <3>1, <3>2, <3>4, <3>5 DEF Pending, Exists
    <3> QED  BY <3>3, <3>6
  <2>3. CASE /\ ~Exists(id) /\ wire' = wire
             /\ ord' = Accepted(id, mem.ask, TRUE) \/ ord' = Accepted(id, mem.ask, FALSE)
    <3>1. /\ id \in OpenOrders' /\ Exists(id)' /\ OpenOrders' = OpenOrders \cup {id}
          /\ \A o \in OrderIds : Exists(o) => Exists(o)'
      <4>1. CASE ord' = Accepted(id, mem.ask, TRUE)
        BY <1>2, <4>1, AcceptedOpens, AcceptedGrows
      <4>2. CASE ord' = Accepted(id, mem.ask, FALSE)
        BY <1>2, <4>2, AcceptedOpens, AcceptedGrows
      <4> QED  BY <2>3, <4>1, <4>2
    <3>2. OpenOrders' = {id}
      BY <1>4, <3>1
    <3>3. ExitWorksAlone' /\ LiveExitIsSaved'
      BY <1>1, <1>2, <1>5, <3>2 DEF ExitWorksAlone, LiveExitIsSaved
    <3>4. \A r \in wire' : Exists(r.id)'
      <4>1. wire' = wire /\ \A r \in wire : r.id \in OrderIds
        BY <2>3 DEF TypeInv, TypeOK, BrokerTypeOK, Request, OrderIds
      <4>2. \A r \in wire : r.id = id \/ Exists(r.id)'
        BY <1>3, <3>1, <4>1
      <4> QED  BY <3>1, <4>1, <4>2
    <3>5. Pending'
      BY <3>4 DEF Pending, Exists
    <3> QED  BY <3>3, <3>5
  <2> QED  BY <1>1, <2>1, <2>2, <2>3 DEF Posted
<1> QED  BY <1>6, <1>7 DEF AloneInv

(* The POST of an entry goes to a venue where nothing works.               *)
LEMMA EntryPostKeepsAlone ==
    ASSUME TypeInv, PlaceInv, PlaceInv', AloneInv, EntryPost
    PROVE  AloneInv'
<1> DEFINE id == EntryOf(mem)
<1>0. mem.phase = "entry_pending" /\ saved.phase = "entry_pending" /\ id = EntryOf(saved)
  BY DEF EntryPost, PlaceInv, PhaseAt, PhaseFits, EntryPlaces, SameState, EntryOf
<1>1. UNCHANGED <<saved, mem>> /\ pc = "ePost" /\ Posted(id, Qty) /\ pc' \in {"eAttach", "tick"}
  BY SubmitPosts DEF EntryPost, storeVars
<1>2. id \in EntryIds /\ id \in OrderIds
  BY <1>0, MemIds DEF TypeInv, TypeOK
<1> HIDE DEF id
<1>3. OpenOrders = {} /\ \A r \in wire : Exists(r.id) /\ r.id \in OrderIds
  BY <1>1 DEF AloneInv, CleanBetween, Clean, TypeInv, TypeOK, BrokerTypeOK, Request, OrderIds
<1>4. EntryOf(saved)' = id
  BY <1>0, <1>1 DEF EntryOf
<1>5. CleanBetween' /\ ClearedForExit' /\ PreviousKnown' /\ NoExitToCancel'
  BY <1>0, <1>1 DEF CleanBetween, ClearedForExit, PreviousKnown, EndedPlaces, NoExitToCancel
<1>6. ExitWorksAlone' /\ Pending' /\ LiveExitIsSaved'
  <2>1. CASE UNCHANGED <<ord, wire>>
    BY <1>3, <2>1 DEF ExitWorksAlone, Pending, LiveExitIsSaved, OpenOrders, Exists
  <2>2. CASE ~Exists(id) /\ ord' = ord /\ wire' = wire \cup {[id |-> id, qty |-> Qty]}
    <3>1. OpenOrders' = {}
      BY <1>3, <2>2 DEF OpenOrders
    <3>2. \A r \in wire' : r.id = id \/ Exists(r.id)'
      BY <1>3, <2>2 DEF Exists
    <3> QED  BY <1>4, <3>1, <3>2 DEF ExitWorksAlone, Pending, LiveExitIsSaved, Exists
  <2>3. CASE /\ ~Exists(id) /\ wire' = wire
             /\ ord' = Accepted(id, Qty, TRUE) \/ ord' = Accepted(id, Qty, FALSE)
    <3>1. OpenOrders' \cap ExitIds = {} /\ \A o \in OrderIds : Exists(o) => Exists(o)'
      BY <1>2, <1>3, <2>3, AcceptedOpens, AcceptedGrows
    <3>2. \A r \in wire' : Exists(r.id)'
      BY <1>3, <2>3, <3>1 DEF Exists
    <3> QED  BY <3>1, <3>2 DEF ExitWorksAlone, Pending, LiveExitIsSaved, Exists
  <2> QED  BY <1>1, <2>1, <2>2, <2>3 DEF Posted
<1> QED  BY <1>5, <1>6 DEF AloneInv

(* What precedes the POST of an entry keeps the venue clean.               *)
LEMMA EnterKeepsAlone ==
    ASSUME TypeInv, PlaceInv, AloneInv, EntrySave \/ EntryRefused \/ abort_unsubmitted_entry
    PROVE  AloneInv'
<1>1. Clean
  <2>1. CASE EntrySave
    <3>1. saved.phase \in {"none", "stopped"}
      BY <2>1 DEF EntrySave, PlaceInv, PutAway, PhaseAt, PhaseFits
    <3> QED  BY <3>1 DEF AloneInv, CleanBetween
  <2> QED  BY <2>1 DEF EntryRefused, abort_unsubmitted_entry, AloneInv, CleanBetween
<1>2. UNCHANGED <<ord, wire>> /\ pc' \in {"ePost", "eAbort", "tick"}
  BY DEF EntrySave, EntryRefused, abort_unsubmitted_entry, brokerVars, Goto
<1>3. Clean' /\ OpenOrders' = {} /\ \A r \in wire' : Exists(r.id)'
  BY <1>1, <1>2 DEF Clean, OpenOrders, Exists
<1>4. ExitWorksAlone' /\ Pending' /\ LiveExitIsSaved' /\ CleanBetween'
  BY <1>3 DEF ExitWorksAlone, Pending, LiveExitIsSaved, CleanBetween, Exists
<1>5. ClearedForExit' /\ PreviousKnown' /\ NoExitToCancel'
  BY <1>2 DEF ClearedForExit, PreviousKnown, EndedPlaces, NoExitToCancel
<1> QED  BY <1>4, <1>5 DEF AloneInv

(* A POST that arrives late finds nothing working.                         *)
LEMMA LateKeepsAlone ==
    ASSUME TypeInv, PlaceInv, AloneInv, NEW r \in wire, DeliverLate(r), ~Exists(r.id),
           UNCHANGED <<storeVars, clock, monitorVars, localVars>>
    PROVE  AloneInv'
<1>1. UNCHANGED <<saved, mem, pc, snapA, vis, todo, req>>
  BY DEF storeVars, monitorVars, localVars
<1>2. ord' = Accepted(r.id, r.qty, TRUE) /\ wire' = wire \ {r}
  BY DEF DeliverLate
<1>3. r.id \in EntryIds \cup ExitIds /\ r.id \in OrderIds /\ \A s \in wire : s.id \in OrderIds
  BY DEF TypeInv, TypeOK, BrokerTypeOK, Request, OrderIds
<1>4. /\ OpenOrders = {}
      /\ \/ r.id = EntryOf(saved)
         \/ saved.exit >= 0 /\ r.id = ExitId(saved, saved.exit) /\ Exists(EntryOf(saved))
  BY DEF AloneInv, Pending
<1>5. /\ r.id \in OpenOrders' /\ Exists(r.id)'
      /\ r.id \in ExitIds => OpenOrders' = {r.id}
      /\ r.id \in EntryIds => OpenOrders' \cap ExitIds = {}
      /\ \A o \in ExitIds : o # r.id => ord'[o] = ord[o]
      /\ \A o \in OrderIds : Exists(o) => Exists(o)'
  BY <1>2, <1>3, <1>4, AcceptedOpens, AcceptedGrows
<1>6. \A s \in wire : ~Exists(s.id) => s.id = r.id
  <2> SUFFICES ASSUME NEW s \in wire, ~Exists(s.id) PROVE s.id = r.id
    OBVIOUS
  <2>1. \/ s.id = EntryOf(saved)
        \/ saved.exit >= 0 /\ s.id = ExitId(saved, saved.exit) /\ Exists(EntryOf(saved))
    BY DEF AloneInv, Pending
  <2> QED  BY <1>4, <2>1
<1>7. \A s \in wire' : Exists(s.id)'
  BY <1>2, <1>3, <1>5, <1>6 DEF Exists
<1>8. EntryOf(saved)' = EntryOf(saved) /\ ExitId(saved, saved.exit)' = ExitId(saved, saved.exit)
  BY <1>1 DEF EntryOf, ExitId
<1>9. ExitWorksAlone' /\ Pending'
  BY <1>3, <1>5, <1>7, IdsDiffer DEF ExitWorksAlone, Pending, Exists
<1>10. LiveExitIsSaved'
  <2> SUFFICES ASSUME NEW o \in ExitIds \cap OpenOrders'
               PROVE  saved'.exit >= 0 /\ o = ExitId(saved, saved.exit)'
    BY DEF LiveExitIsSaved
  <2>1. r.id \in ExitIds /\ o = r.id
    BY <1>3, <1>5
  <2>2. EntryOf(saved) # r.id
    <3>1. EntryOf(saved) = r.id => EntryOf(saved)[2] = "entry" /\ r.id[2] = "exit"
      BY <2>1 DEF EntryOf, ExitIds
    <3> QED  BY <3>1
  <2> QED  BY <1>1, <1>4, <1>8, <2>1, <2>2
<1>11. CleanBetween' /\ NoExitToCancel'
  <2>1. ~Clean
    BY DEF Clean
  <2> QED  BY <1>1, <2>1 DEF AloneInv, CleanBetween, NoExitToCancel
<1>12. PreviousKnown'
  <2> SUFFICES ASSUME pc \in EndedPlaces \cup {"xVisible"}, snapA.st # "none"
               PROVE  /\ mem.exit >= 0 /\ Exists(PreviousId)'
                      /\ snapA.st \in Terminal => ord'[PreviousId].st \in Terminal
    BY <1>1 DEF AloneInv, PreviousKnown, PreviousId, ExitId, Exists
  <2>1. mem.phase # "none"
    BY DEF PlaceInv, PhaseAt, PhaseFits, EndedPlaces, ReadPlaces, SendPlaces, Watching
  <2>2. PreviousId \in ExitIds /\ PreviousId \in OrderIds /\ PreviousId' = PreviousId
    BY <1>1, <2>1, PreviousIsExit DEF PreviousId, ExitId
  <2>3. /\ mem.exit >= 0 /\ Exists(PreviousId)
        /\ snapA.st \in Terminal => ord[PreviousId].st \in Terminal
    BY DEF AloneInv, PreviousKnown
  <2>4. PreviousId # r.id
    BY <2>3
  <2> QED  BY <1>5, <2>2, <2>3, <2>4 DEF Exists
<1>13. ClearedForExit'
  <2>1. ASSUME mem.phase = "exit_pending"
        PROVE  /\ mem.exit >= 0 /\ r.id = ExitId(mem, mem.exit) /\ r.id = PreviousId
               /\ OpenOrders' = {r.id}
    <3>1. mem.exit >= 0 /\ r.id = ExitId(mem, mem.exit) /\ r.id = PreviousId
      BY <2>1, PendingIsPrevious
    <3> QED  BY <1>5, <2>1, <3>1, PreviousIsExit
  <2>2. CASE pc \in {"xQuantity", "xSave", "xPost"}
    <3>1. mem.phase = "exit_pending"
      BY <2>2 DEF PlaceInv, PhaseAt, PhaseFits, SendPlaces
    <3>2. pc = "xQuantity" => snapA.st = "none"
      BY <2>1, <3>1 DEF AloneInv, PreviousKnown, EndedPlaces
    <3>3. pc = "xSave" => r.id = ExitId(mem, req.n)
      BY DEF AloneInv, ClearedForExit
    <3> QED  BY <1>1, <1>7, <2>1, <2>2, <3>1, <3>2, <3>3
             DEF ClearedForExit, Unresolved, PreviousId, ExitId, Exists
  <2>3. CASE pc = "xRefresh"
    <3>1. mem.phase \in Watching /\ Exists(EntryOf(mem))
      BY <2>3 DEF PlaceInv, PhaseAt, PhaseFits, ReadPlaces, PhaseTells
    <3>2. EntryOf(saved) = EntryOf(mem) /\ saved.exit = mem.exit
          /\ ExitId(saved, saved.exit) = ExitId(mem, mem.exit)
      BY <3>1 DEF PlaceInv, SameState, EntryOf, ExitId, Watching
    <3>3. mem.exit >= 0 /\ r.id = PreviousId
      BY <1>4, <3>1, <3>2, PreviousIsExit DEF Watching
    <3>4. snapA.st = "none"
      BY <2>3, <3>3 DEF AloneInv, PreviousKnown, EndedPlaces
    <3>5. OpenOrders' = {PreviousId}
      BY <1>5, <3>1, <3>3, PreviousIsExit DEF Watching
    <3> QED  BY <1>1, <2>3, <3>3, <3>4, <3>5 DEF ClearedForExit, Unresolved, PreviousId, ExitId
  <2> QED  BY <1>1, <2>2, <2>3 DEF ClearedForExit
<1> QED  BY <1>9, <1>10, <1>11, <1>12, <1>13 DEF AloneInv

(* Every step keeps the exit alone.                                        *)
LEMMA NextKeepsAlone ==
    ASSUME TypeInv, TypeInv', PlaceInv, PlaceInv', AloneInv, [Next]_vars
    PROVE  AloneInv'
<1>1. CASE UNCHANGED vars
  <2>1. UNCHANGED <<ord, wire, saved, pc, mem, snapA, vis, req, todo>>
    BY <1>1 DEF vars, brokerVars, storeVars, monitorVars, localVars
  <2> QED  BY <2>1, SameVenueSettles, WaitingStep
<1>2. CASE AdvanceClock \/ Venue
  <2>1. UNCHANGED <<saved, pc, mem, snapA, vis, req, todo>>
    BY <1>2 DEF AdvanceClock, Venue, storeVars, monitorVars, localVars
  <2>2. CASE Settling
    BY <2>1, <2>2, WaitingStep
  <2>3. CASE ~Settling
    <3>1. Venue
      BY <1>2, <2>3, MonitorSettles
    <3>2. \E r \in wire : DeliverLate(r) /\ ~Exists(r.id)
      BY <2>3, <3>1, VenueSettling DEF Venue, BrokerNext
    <3> QED  BY <3>1, <3>2, LateKeepsAlone DEF Venue
  <2> QED  BY <2>2, <2>3
<1>3. CASE Start \/ Crash \/ Tick \/ MinuteIdle \/ MinuteExit \/ CallFails
  BY <1>3, LoopAndEntryArePlain, PlainKeepsAlone, MonitorSettles DEF MonitorReads
<1>4. CASE (FlatCancel \/ ExitCancel) /\ pc' # "tick"
  <2>1. Settling
    BY <1>4, MonitorSettles DEF MonitorReads, Reconcile
  <2>2. PICK o \in todo : CancelOne(o)
    BY <1>4 DEF FlatCancel, ExitCancel
  <2>3. UNCHANGED <<saved, pc, mem, snapA, vis, req>> /\ todo' \subseteq todo
    BY <1>4, <2>2 DEF CancelOne, Raise, storeVars
  <2> QED  BY <2>1, <2>3, WaitingStep
<1>5. CASE Reconcile /\ ~(FlatCancel /\ pc' # "tick")
  <2>1. Settling
    BY <1>5, MonitorSettles DEF MonitorReads
  <2> QED  BY <1>5, <2>1, LoopAndEntryArePlain, ActiveIsPlain, ExitEndsArePlain, PlainKeepsAlone,
              FlatEntryKeepsAlone DEF Reconcile
<1>6. CASE RequestPositionExit /\ ~ExitPost /\ ~ExitSave /\ ~(ExitCancel /\ pc' # "tick")
  <2>1. Settling
    BY <1>6, MonitorSettles DEF MonitorReads, RequestPositionExit
  <2>2. ExitCancel => pc' = "tick"
    BY <1>6
  <2> QED  BY <1>6, <2>1, <2>2, ExitEndsArePlain, PlainKeepsAlone, ExitPreviousKeepsAlone,
              ExitVisibleKeepsAlone, ExitReadingKeepsAlone, ExitRefreshKeepsAlone, ExitIntentKeepsAlone
           DEF RequestPositionExit
<1>7. CASE ExitPost \/ ExitSave
  BY <1>7, ExitPostKeepsAlone, ExitSaveKeepsAlone
<1>8. CASE Enter
  <2>1. CASE EntryIntent \/ EntryAttach
    BY <2>1, MonitorSettles, ExitEndsArePlain, PlainKeepsAlone DEF MonitorReads
  <2> QED  BY <1>8, <2>1, EntryPostKeepsAlone, EnterKeepsAlone DEF Enter
<1> QED  BY <1>1, <1>2, <1>3, <1>4, <1>5, <1>6, <1>7, <1>8 DEF Next, Monitor, Reconcile, RequestPositionExit

(* The venue starts with nothing.                                          *)
LEMMA InitAlone == Init => AloneInv
<1> SUFFICES ASSUME Init PROVE AloneInv
  OBVIOUS
<1>1. ord = [o \in OrderIds |-> NoOrder] /\ wire = {} /\ pc = "down" /\ NoOrder.st = "none"
  BY DEF Init, BrokerInit, NoOrder
<1>2. OpenOrders = {}
  BY <1>1 DEF OpenOrders, IsLive
<1> QED  BY <1>1, <1>2 DEF AloneInv, ExitWorksAlone, Pending, LiveExitIsSaved, CleanBetween, Clean,
            ClearedForExit, PreviousKnown, EndedPlaces, NoExitToCancel

(* The lone exit, and what it rests on, hold all along.                    *)
LEMMA AloneInvCorrect == Spec => []AloneInv
BY InitAlone, NextKeepsAlone, TypeInvCorrect, PlaceInvCorrect, PTL DEF Spec

(* A market exit works alone at the venue and is never doubled, for every  *)
(* quantity, number of failures and refusals, and with an endpoint that    *)
(* lags, lookups that miss an order and POSTs that arrive late.            *)
THEOREM ExitWorksAloneCorrect == Spec => []ExitWorksAlone
BY AloneInvCorrect, PTL DEF AloneInv
-----------------------------------------------------------------------------
(* No order comes to a pending cancel but by a DELETE.                     *)
LEMMA OnlyDeletesCancel ==
    ASSUME TypeInv,
           \/ BrokerNext \/ ExitPost \/ EntryPost
           \/ UNCHANGED ord
    PROVE  \A o \in OrderIds : ord'[o].st = "pending_cancel" => ord[o].st = "pending_cancel"
<1>0. ord \in [OrderIds -> Order]
  BY DEF TypeInv, TypeOK, BrokerTypeOK
<1>1. ASSUME NEW id, NEW q, NEW legs \in BOOLEAN, ord' = Accepted(id, q, legs)
      PROVE  \A o \in OrderIds : ord'[o].st = "pending_cancel" => ord[o].st = "pending_cancel"
  BY <1>1 DEF Accepted, Working, Held
<1>2. CASE ExitPost \/ EntryPost
  <2>1. \E id, q : Posted(id, q)
    BY <1>2, SubmitPosts DEF ExitPost, EntryPost
  <2> QED  BY <1>1, <2>1 DEF Posted
<1>3. ASSUME NEW x \in OrderIds, Fill(x)
      PROVE  \A o \in OrderIds : ord'[o].st = "pending_cancel" => ord[o].st = "pending_cancel"
  <2>1. PICK k \in 1..Room(x) : ord' = AfterFill(x, k)
    BY <1>3 DEF Fill
  <2> QED  BY <1>0, <2>1 DEF AfterFill, Order
<1>4. ASSUME NEW x \in OrderIds, ConfirmCancel(x) \/ VenueEnds(x)
      PROVE  \A o \in OrderIds : ord'[o].st = "pending_cancel" => ord[o].st = "pending_cancel"
  BY <1>0, <1>4 DEF ConfirmCancel, VenueEnds, Ended, Order
<1>5. ASSUME NEW e \in EntryIds, ActivateLegs(e)
      PROVE  \A o \in OrderIds : ord'[o].st = "pending_cancel" => ord[o].st = "pending_cancel"
  BY <1>0, <1>5 DEF ActivateLegs, Order
<1>6. ASSUME NEW r \in wire, DeliverLate(r)
      PROVE  \A o \in OrderIds : ord'[o].st = "pending_cancel" => ord[o].st = "pending_cancel"
  BY <1>1, <1>6 DEF DeliverLate
<1>7. CASE PublishPosition
  BY <1>7 DEF PublishPosition
<1> QED  BY <1>2, <1>3, <1>4, <1>5, <1>6, <1>7 DEF BrokerNext

(* No step asks for the cancel of a working exit.                          *)
LEMMA NextCancelsNoExit ==
    ASSUME TypeInv, PlaceInv, AloneInv, [Next]_vars
    PROVE  \A o \in ExitIds : ord[o].st \in {"new", "partially_filled"}
                           => ord'[o].st # "pending_cancel"
<1> SUFFICES ASSUME NEW o \in ExitIds, ord[o].st \in {"new", "partially_filled"}
             PROVE  ord'[o].st # "pending_cancel"
  OBVIOUS
<1>0. o \in OrderIds /\ ord \in [OrderIds -> Order]
  BY DEF OrderIds, TypeInv, TypeOK, BrokerTypeOK
<1>1. ASSUME NEW x, x # o, ord' = CancelRequested(x)
      PROVE  ord'[o].st # "pending_cancel"
  BY <1>0, <1>1 DEF CancelRequested
<1>2. CASE CancelEntry
  <2>1. EntryOf(mem) \in EntryIds
    BY <1>2, MemIds DEF CancelEntry, PlaceInv, PhaseAt, PhaseFits, EntryPlaces, TypeInv, TypeOK
  <2>2. ord' = ord \/ ord' = CancelRequested(EntryOf(mem))
    BY <1>2 DEF CancelEntry
  <2> QED  BY <1>1, <2>1, <2>2, IdsDiffer
<1>3. CASE FlatCancel \/ ExitCancel
  <2>1. PICK x \in todo : CancelOne(x)
    BY <1>3 DEF FlatCancel, ExitCancel
  <2>2. x # o
    BY <1>3, <2>1 DEF FlatCancel, ExitCancel, AloneInv, NoExitToCancel
  <2> QED  BY <1>1, <2>1, <2>2 DEF CancelOne
<1>4. CASE \/ Venue \/ ExitPost \/ EntryPost \/ UNCHANGED ord
  BY <1>0, <1>4, OnlyDeletesCancel DEF Venue
<1>5. CASE \/ Start \/ Tick \/ MinuteIdle \/ MinuteExit \/ Crash \/ CallFails \/ AdvanceClock
           \/ EntryLookup \/ EntryGonePosition \/ EntryGoneOrders \/ EntryReread
           \/ ActiveStop \/ ActiveTarget \/ ActiveHolding
           \/ FlatEntry \/ FlatOrders \/ CloseRemember
  BY <1>4, <1>5 DEF Start, Tick, MinuteIdle, MinuteExit, Crash, CallFails, AdvanceClock,
     EntryLookup, EntryGonePosition, EntryGoneOrders, EntryReread, ActiveStop, ActiveTarget,
     ActiveHolding, FlatEntry, FlatOrders, CloseRemember, brokerVars
<1>6. CASE \/ ExitPrevious \/ ExitVisible \/ ExitEntry \/ ExitBefore \/ ExitRemaining
           \/ ExitRefresh \/ ExitFlat \/ ExitIntent \/ ExitSave \/ ExitAttach
           \/ EntryIntent \/ EntrySave \/ EntryRefused \/ abort_unsubmitted_entry \/ EntryAttach
  BY <1>4, <1>6 DEF ExitPrevious, ExitVisible, ExitEntry, ExitBefore, ExitRemaining, ExitRefresh,
     ExitFlat, ExitIntent, ExitSave, ExitAttach, EntryIntent, EntrySave, EntryRefused,
     abort_unsubmitted_entry, EntryAttach, brokerVars
<1>7. CASE UNCHANGED vars
  BY <1>4, <1>7 DEF vars, brokerVars
<1> QED  BY <1>2, <1>3, <1>4, <1>5, <1>6, <1>7 DEF Next, Monitor, Reconcile, RequestPositionExit, Enter

(* A working exit is never canceled by the monitor, whatever its lookup    *)
(* missed and however late its POST was answered: what it asks the venue   *)
(* to cancel are the entry under way and the orders it read as open after  *)
(* it had found the previous exit not working.                             *)
THEOREM LiveExitNotCanceledCorrect == Spec => LiveExitNotCanceled
<1>1. TypeInv /\ PlaceInv /\ AloneInv /\ [Next]_vars
        => [\A o \in ExitIds : ord[o].st \in {"new", "partially_filled"}
                           => ord'[o].st # "pending_cancel"]_vars
  BY NextCancelsNoExit
<1> QED  BY <1>1, TypeInvCorrect, PlaceInvCorrect, AloneInvCorrect, PTL DEF Spec, LiveExitNotCanceled

-----------------------------------------------------------------------------
(* The rest is about a venue whose position endpoint does not lag, whose   *)
(* lookups miss no order and where no POST arrives late: with any of the   *)
(* three the quantity of an exit cannot be told from what is read.         *)
Prompt == ~PositionLag /\ ~LatePosts /\ ~LookupGaps

(* The bracket of an entry at the venue.                                   *)
Bracket(e) ==
    LET s == ord[StopOf(e)]
        t == ord[TargetOf(e)]
    IN  /\ s.st # "none" \/ t.st # "none" => Exists(e)
        /\ Exists(e) => ord[e].qty = Qty
        /\ s.st # "none" => s.qty = Qty
        /\ t.st # "none" => t.qty = Qty
        /\ ord[e].st = "filled" => ord[e].filled = Qty
        /\ s.filled + t.filled > 0 => ord[e].st = "filled"
        /\ s.filled + t.filled <= Qty
        /\ ord[e].st \in Terminal /\ ord[e].filled = 0 => ~IsLive(s) /\ ~IsLive(t)

(* Nothing travels, the endpoint tells the truth, the brackets add up.     *)
BookInv ==
    /\ wire = {} /\ seen = held
    /\ \A o \in OrderIds : ord[o].st = "none" => ord[o].filled = 0
    /\ \A e \in EntryIds : Bracket(e)

-----------------------------------------------------------------------------
(* What a step may do to the venue.  An order that has ended never changes.*)
Frozen == \A o \in OrderIds : ~IsLive(ord[o]) => ord'[o] = ord[o]

(* Nothing is filled and nothing is sent; an entry that ends unfilled      *)
(* takes its legs with it.                                                 *)
Still ==
    /\ Settling /\ Frozen /\ UNCHANGED <<wire, held, seen>>
    /\ \A o \in OrderIds : /\ ord'[o].filled = ord[o].filled /\ ord'[o].qty = ord[o].qty
                           /\ ord'[o].st = "filled" => ord[o].st = "filled"
    /\ \A e \in EntryIds : ord'[e].st \in Terminal /\ ord[e].filled = 0 =>
          \/ ord[e].st \in Terminal
          \/ ~IsLive(ord'[StopOf(e)]) /\ ~IsLive(ord'[TargetOf(e)])

(* k shares of the working order o are filled, and of no other.            *)
Filling(o, k) ==
    /\ Settling /\ Frozen /\ UNCHANGED wire
    /\ IsLive(ord[o]) /\ k \in 1..Room(o)
    /\ o \in LegIds => ord[EntryOfLeg(o)].st = "filled"
    /\ ord'[o].filled = ord[o].filled + k
    /\ \A x \in OrderIds : /\ x # o => ord'[x].filled = ord[x].filled
                           /\ x # o /\ x \notin LegIds => ord'[x] = ord[x]
                           /\ ord'[x].qty = ord[x].qty
                           /\ ord'[x].st = "filled" =>
                                ord[x].st = "filled" \/ (x = o /\ ord'[o].filled = ord[o].qty)
    /\ held' = IF o \in EntryIds THEN held + k ELSE held - k
    /\ seen' = held'

(* A new order id for q shares, with its legs when it is an entry.         *)
Sent(id, q) ==
    /\ ~Exists(id) /\ ord'[id] = Working(q) /\ UNCHANGED <<wire, held, seen>>
    /\ \A o \in OrderIds :
          \/ ord'[o] = ord[o]
          \/ o = id
          \/ ~Exists(o) /\ id \in EntryIds /\ o \in {StopOf(id), TargetOf(id)} /\ ord'[o] = Held(q)

(* A step that leaves the venue alone is still.                            *)
LEMMA SameVenueIsStill ==
    ASSUME UNCHANGED <<ord, wire, held, seen>>
    PROVE  Still
BY SameVenueSettles DEF Still, Frozen

(* So is a DELETE.                                                         *)
LEMMA CancelIsStill ==
    ASSUME TypeInv, NEW o, ord' = CancelRequested(o), UNCHANGED <<wire, held, seen>>
    PROVE  Still
<1>1. Settling
  BY CancelSettles
<1>2. ord \in [OrderIds -> Order]
  BY DEF TypeInv, TypeOK, BrokerTypeOK
<1>3. \A x \in OrderIds : /\ ~IsLive(ord[x]) => ord'[x] = ord[x]
                          /\ ord'[x].filled = ord[x].filled /\ ord'[x].qty = ord[x].qty
                          /\ ord'[x].st \in Terminal => ord[x].st = ord'[x].st
  BY <1>2 DEF CancelRequested, IsLive, Order, Terminal
<1>4. EntryIds \subseteq OrderIds
  BY DEF OrderIds
<1> QED  BY <1>1, <1>3, <1>4 DEF Still, Frozen, Terminal

(* An order that ends is still, but for its legs.                          *)
LEMMA EndedIsStill ==
    ASSUME TypeInv, NEW o \in OrderIds, IsLive(ord[o]), ord' \in Ended(o), Settling,
           UNCHANGED <<wire, held, seen>>
    PROVE  Still
<1>1. ord \in [OrderIds -> Order] /\ EntryIds \subseteq OrderIds
  BY DEF TypeInv, TypeOK, BrokerTypeOK, OrderIds
<1> DEFINE both == {StopOf(o), TargetOf(o)}
           EndsWith(legs) == \A x \in OrderIds :
                ord'[x] = IF x = o \/ (x \in legs /\ IsLive(ord[x]))
                          THEN [ord[x] EXCEPT !.st = "canceled"] ELSE ord[x]
<1>2. PICK legs \in {{}, both} : /\ EndsWith(legs)
                                 /\ o \notin EntryIds => legs = {}
                                 /\ o \in EntryIds /\ ord[o].filled = 0 => legs = both
  <2>1. CASE o \in EntryIds /\ ord[o].filled > 0
    <3>1. EndsWith({}) \/ EndsWith(both)
      BY <2>1 DEF Ended
    <3> QED  BY <1>1, <2>1, <3>1
  <2>2. CASE o \in EntryIds /\ ~(ord[o].filled > 0)
    <3>1. EndsWith(both)
      BY <2>2 DEF Ended
    <3> QED  BY <2>2, <3>1
  <2>3. CASE o \notin EntryIds
    <3>1. EndsWith({})
      BY <2>3 DEF Ended
    <3> QED  BY <2>3, <3>1
  <2> QED  BY <2>1, <2>2, <2>3
<1>3. \A x \in OrderIds : /\ ~IsLive(ord[x]) => ord'[x] = ord[x]
                          /\ ord'[x].filled = ord[x].filled /\ ord'[x].qty = ord[x].qty
                          /\ ord'[x].st = ord[x].st \/ ord'[x].st = "canceled"
                          /\ x # o /\ ord'[x] # ord[x] => x \in legs
  BY <1>1, <1>2 DEF Order
<1>4. ASSUME NEW e \in EntryIds, ord'[e].st \in Terminal, ord[e].filled = 0, ord[e].st \notin Terminal
      PROVE  ~IsLive(ord'[StopOf(e)]) /\ ~IsLive(ord'[TargetOf(e)])
  <2>1. e = o
    <3>1. ASSUME e # o PROVE FALSE
      <4>1. ord'[e] # ord[e] /\ e \in legs
        BY <1>1, <1>3, <1>4, <3>1
      <4>2. legs \subseteq LegIds
        BY <1>2, <4>1, IdTypes
      <4> QED  BY <4>1, <4>2, IdsDiffer
    <3> QED  BY <3>1
  <2>2. legs = {StopOf(o), TargetOf(o)} /\ StopOf(o) \in OrderIds /\ TargetOf(o) \in OrderIds
    BY <1>2, <1>4, <2>1, IdTypes DEF OrderIds
  <2> QED  BY <1>1, <1>2, <2>1, <2>2 DEF IsLive, Terminal, Order
<1> QED  BY <1>1, <1>3, <1>4 DEF Still, Frozen

(* A fill of the venue.                                                    *)
LEMMA FillFills ==
    ASSUME TypeInv, Prompt, NEW o \in OrderIds, Fill(o)
    PROVE  \E k \in Nat : Filling(o, k)
<1>1. PICK k \in 1..Room(o) : ord' = AfterFill(o, k) /\ Settle(o, k)
  BY DEF Fill
<1>2. Settling
  BY VenueSettling
<1>3. ord \in [OrderIds -> Order] /\ LegIds \subseteq OrderIds
  BY DEF TypeInv, TypeOK, BrokerTypeOK, OrderIds
<1>4. IsLive(ord[o]) /\ wire' = wire /\ (o \in LegIds => ord[EntryOfLeg(o)].st = "filled")
  BY DEF Fill, IsLive, Terminal
<1>5. held' = (IF o \in EntryIds THEN held + k ELSE held - k) /\ seen' = held'
  BY <1>1 DEF Settle, Prompt
<1>6. \A x \in OrderIds :
         \/ x = o /\ ord'[x].filled = ord[o].filled + k /\ ord'[x].qty = ord[x].qty
            /\ (ord'[x].st = "filled" => ord[o].filled + k = ord[o].qty)
         \/ x # o /\ ord'[x] = ord[x]
         \/ x # o /\ x \in LegIds /\ IsLive(ord[x])
            /\ ord'[x] = [ord[x] EXCEPT !.st = "canceled"]
  BY <1>1, <1>3, IdTypes DEF AfterFill, Order
<1>7. k \in Nat
  BY <1>1
<1>8. \A x \in OrderIds : /\ ~IsLive(ord[x]) => ord'[x] = ord[x]
                          /\ x # o => ord'[x].filled = ord[x].filled
                          /\ x # o /\ x \notin LegIds => ord'[x] = ord[x]
                          /\ ord'[x].qty = ord[x].qty
                          /\ ord'[x].st = "filled" =>
                                ord[x].st = "filled" \/ (x = o /\ ord'[o].filled = ord[o].qty)
  <2> TAKE x \in OrderIds
  <2>1. CASE x = o
    BY <1>4, <1>6, <2>1
  <2>2. CASE x # o
    <3>1. ord[x] \in Order
      BY <1>3
    <3> QED  BY <1>6, <2>2, <3>1 DEF Order
  <2> QED  BY <2>1, <2>2
<1>9. ord'[o].filled = ord[o].filled + k
  BY <1>6
<1> QED  BY <1>1, <1>2, <1>4, <1>5, <1>7, <1>8, <1>9 DEF Filling, Frozen

(* The venue by itself.                                                    *)
LEMMA VenueStep ==
    ASSUME TypeInv, Prompt, BookInv, BrokerNext
    PROVE  Still \/ \E o \in OrderIds, k \in Nat : Filling(o, k)
<1>1. CASE \E o \in OrderIds : Fill(o)
  BY <1>1, FillFills
<1>2. ASSUME NEW o \in OrderIds, ConfirmCancel(o) \/ VenueEnds(o) PROVE Still
  <2>1. ord' \in Ended(o) /\ IsLive(ord[o]) /\ UNCHANGED <<wire, held, seen>>
    BY <1>2 DEF ConfirmCancel, VenueEnds, IsLive, Terminal
  <2> QED  BY <1>2, <2>1, VenueSettling, EndedIsStill
<1>3. ASSUME NEW e \in EntryIds, ActivateLegs(e) PROVE Still
  <2>1. Settling /\ UNCHANGED <<wire, held, seen>>
    BY <1>3, VenueSettling DEF ActivateLegs
  <2>2. \A x \in OrderIds : /\ ~IsLive(ord[x]) => ord'[x] = ord[x]
                            /\ ord'[x].filled = ord[x].filled /\ ord'[x].qty = ord[x].qty
                            /\ ord'[x].st \in Terminal => ord'[x].st = ord[x].st
    BY <1>3 DEF ActivateLegs, TypeInv, TypeOK, BrokerTypeOK, Order, IsLive, Terminal
  <2> QED  BY <2>1, <2>2 DEF Still, Frozen, Terminal, OrderIds
<1>4. ~\E r \in wire : DeliverLate(r)
  BY DEF BookInv
<1>5. ~PublishPosition
  BY DEF PublishPosition, BookInv
<1> QED  BY <1>1, <1>2, <1>3, <1>4, <1>5 DEF BrokerNext

(* What an accepted POST makes.                                            *)
LEMMA AcceptedIsSent ==
    ASSUME TypeInv, BookInv, NEW id \in EntryIds \cup ExitIds, ~Exists(id), NEW q,
           NEW legs \in BOOLEAN, ord' = Accepted(id, q, legs), UNCHANGED <<wire, held, seen>>
    PROVE  Sent(id, q)
<1>1. id \in OrderIds
  BY DEF OrderIds
<1>2. \A o \in OrderIds : ord'[o] = CASE o = id -> Working(q)
          [] legs /\ id \in EntryIds /\ o \in {StopOf(id), TargetOf(id)} -> Held(q)
          [] OTHER -> ord[o]
  BY DEF Accepted
<1>3. id \in EntryIds => id \notin {StopOf(id), TargetOf(id)}
  BY IdTypes, IdsDiffer
<1>4. ord'[id] = Working(q)
  BY <1>1, <1>2, <1>3
<1>5. id \in EntryIds => ~Exists(StopOf(id)) /\ ~Exists(TargetOf(id))
  BY DEF BookInv, Bracket, Exists
<1>6. \A o \in OrderIds : ord'[o] = ord[o] \/ o = id
         \/ (id \in EntryIds /\ o \in {StopOf(id), TargetOf(id)} /\ ord'[o] = Held(q))
  BY <1>2
<1> QED  BY <1>4, <1>5, <1>6 DEF Sent

(* _submit_idempotent.                                                     *)
LEMMA SubmitSends ==
    ASSUME TypeInv, Prompt, BookInv, NEW id \in EntryIds \cup ExitIds, NEW q, NEW next,
           SubmitIdempotent(id, q, next)
    PROVE  Sent(id, q) \/ UNCHANGED <<ord, wire, held, seen>>
<1>1. CASE UNCHANGED brokerVars
  BY <1>1 DEF brokerVars
<1>2. ASSUME ~Exists(id), UNCHANGED <<wire, held, seen>>,
             ord' = Accepted(id, q, TRUE) \/ ord' = Accepted(id, q, FALSE)
      PROVE  Sent(id, q)
  <2>1. CASE ord' = Accepted(id, q, TRUE)
    BY <1>2, <2>1, AcceptedIsSent
  <2>2. CASE ord' = Accepted(id, q, FALSE)
    BY <1>2, <2>2, AcceptedIsSent
  <2> QED  BY <1>2, <2>1, <2>2
<1>3. CASE ~Exists(id) /\ Accept(id, q) /\ UNCHANGED wire
  BY <1>2, <1>3 DEF Accept
<1>4. CASE ~Exists(id) /\ PostLost(id, q)
  <2>1. \/ UNCHANGED <<ord, wire, held, seen>>
        \/ ord' = Accepted(id, q, TRUE) /\ UNCHANGED <<wire, held, seen>>
    BY <1>4 DEF PostLost, Prompt
  <2> QED  BY <1>2, <1>4, <2>1
<1> QED  BY <1>1, <1>3, <1>4 DEF SubmitIdempotent

(* What the monitor reads and deletes leaves the fills alone.              *)
LEMMA MonitorIsStill ==
    ASSUME TypeInv, MonitorReads \/ Crash \/ CallFails \/ AdvanceClock
    PROVE  Still
<1>1. CASE CancelEntry
  <2>1. UNCHANGED <<wire, held, seen>> /\ (ord' = ord \/ ord' = CancelRequested(EntryOf(mem)))
    BY <1>1 DEF CancelEntry
  <2> QED  BY <2>1, CancelIsStill, SameVenueIsStill
<1>2. CASE FlatCancel \/ ExitCancel
  <2>1. PICK o \in todo : CancelOne(o)
    BY <1>2 DEF FlatCancel, ExitCancel
  <2> QED  BY <2>1, CancelIsStill DEF CancelOne
<1>3. CASE \/ Start \/ Tick \/ MinuteIdle \/ MinuteExit \/ Crash \/ CallFails \/ AdvanceClock
  BY <1>3, SameVenueIsStill DEF Start, Tick, MinuteIdle, MinuteExit, Crash, CallFails,
                                AdvanceClock, brokerVars
<1>4. CASE \/ EntryLookup \/ EntryGonePosition \/ EntryGoneOrders \/ EntryReread
           \/ ActiveStop \/ ActiveTarget \/ ActiveHolding
           \/ FlatEntry \/ FlatOrders \/ CloseRemember
  BY <1>4, SameVenueIsStill
     DEF EntryLookup, EntryGonePosition, EntryGoneOrders, EntryReread, ActiveStop, ActiveTarget,
         ActiveHolding, FlatEntry, FlatOrders, CloseRemember, brokerVars
<1>5. CASE \/ ExitPrevious \/ ExitVisible \/ ExitEntry \/ ExitBefore \/ ExitRemaining
           \/ ExitRefresh \/ ExitFlat \/ ExitIntent \/ ExitSave \/ ExitAttach
  BY <1>5, SameVenueIsStill
     DEF ExitPrevious, ExitVisible, ExitEntry, ExitBefore, ExitRemaining, ExitRefresh, ExitFlat,
         ExitIntent, ExitSave, ExitAttach, brokerVars
<1>6. CASE EntryIntent \/ EntrySave \/ EntryRefused \/ abort_unsubmitted_entry \/ EntryAttach
  BY <1>6, SameVenueIsStill
     DEF EntryIntent, EntrySave, EntryRefused, abort_unsubmitted_entry, EntryAttach, brokerVars
<1> QED  BY <1>1, <1>2, <1>3, <1>4, <1>5, <1>6 DEF MonitorReads, Reconcile

(* The ids of the orders of an entry, and what the venue holds of them.    *)
LEMMA BracketIds ==
    ASSUME TypeInv, NEW e \in EntryIds
    PROVE  /\ e \in OrderIds /\ StopOf(e) \in LegIds /\ TargetOf(e) \in LegIds
           /\ StopOf(e) \in OrderIds /\ TargetOf(e) \in OrderIds
           /\ EntryOfLeg(StopOf(e)) = e /\ EntryOfLeg(TargetOf(e)) = e
           /\ Sibling(StopOf(e)) = TargetOf(e) /\ Sibling(TargetOf(e)) = StopOf(e)
           /\ StopOf(e) # TargetOf(e) /\ e # StopOf(e) /\ e # TargetOf(e)
           /\ e \notin ExitIds /\ StopOf(e) \notin ExitIds /\ TargetOf(e) \notin ExitIds
           /\ e \notin LegIds /\ StopOf(e) \notin EntryIds /\ TargetOf(e) \notin EntryIds
<1>1. e \in OrderIds /\ StopOf(e) \in LegIds /\ TargetOf(e) \in LegIds
      /\ StopOf(e) \in OrderIds /\ TargetOf(e) \in OrderIds
  BY IdTypes DEF OrderIds
<1>2. e = <<e[1], "entry", e[3]>>
  BY DEF EntryIds
<1>3. /\ EntryOfLeg(StopOf(e)) = e /\ EntryOfLeg(TargetOf(e)) = e
      /\ Sibling(StopOf(e)) = TargetOf(e) /\ Sibling(TargetOf(e)) = StopOf(e)
      /\ StopOf(e) # TargetOf(e)
  BY <1>2 DEF StopOf, TargetOf, EntryOfLeg, Sibling
<1> QED  BY <1>1, <1>3, IdsDiffer

(* The numbers of an order.                                                *)
LEMMA OrderNumbers ==
    ASSUME TypeInv, NEW o \in OrderIds
    PROVE  ord[o].filled \in Nat /\ ord[o].qty \in Nat /\ ord[o].st \in Statuses
BY QtyFacts DEF TypeInv, TypeOK, BrokerTypeOK, Order

(* A still step keeps the brackets.                                        *)
LEMMA StillKeepsBooks ==
    ASSUME TypeInv, BookInv, Still
    PROVE  BookInv'
<1>1. ASSUME NEW e \in EntryIds PROVE Bracket(e)'
  <2>1. Bracket(e)
    BY DEF BookInv
  <2>2. \A o \in {e, StopOf(e), TargetOf(e)} :
           /\ ord'[o].filled = ord[o].filled /\ ord'[o].qty = ord[o].qty
           /\ ord'[o].st = "none" <=> ord[o].st = "none"
           /\ ord'[o].st = "filled" <=> ord[o].st = "filled"
           /\ ~IsLive(ord[o]) => ord'[o] = ord[o]
    BY BracketIds DEF Still, Settling, Frozen, IsLive, Terminal
  <2>3. ord'[e].st \in Terminal /\ ord[e].filled = 0 =>
          \/ ord[e].st \in Terminal
          \/ ~IsLive(ord'[StopOf(e)]) /\ ~IsLive(ord'[TargetOf(e)])
    BY DEF Still
  <2> QED  BY <2>1, <2>2, <2>3 DEF Bracket, Exists
<1>2. wire' = {} /\ seen' = held' /\ \A o \in OrderIds : ord'[o].st = "none" => ord'[o].filled = 0
  BY DEF BookInv, Still, Settling
<1> QED  BY <1>1, <1>2 DEF BookInv

(* A fill keeps the brackets: the legs share what the entry bought.        *)
LEMMA FillingKeepsBooks ==
    ASSUME TypeInv, BookInv, NEW o \in OrderIds, NEW k \in Nat, Filling(o, k)
    PROVE  BookInv'
<1>0. k > 0 /\ k <= ord[o].qty - ord[o].filled - (IF o \in LegIds THEN ord[Sibling(o)].filled ELSE 0)
  <2>1. k \in 1..Room(o)
    BY DEF Filling
  <2>2. o \in LegIds => ord[Sibling(o)].filled \in Nat
    BY IdTypes, OrderNumbers DEF OrderIds
  <2>3. Room(o) \in Int
    BY <2>2, OrderNumbers DEF Room
  <2> QED  BY <2>1, <2>3 DEF Room
<1>1. ASSUME NEW e \in EntryIds PROVE Bracket(e)'
  <2> DEFINE s == StopOf(e)
             t == TargetOf(e)
  <2>1. Bracket(e)
    BY DEF BookInv
  <2>2. e \in OrderIds /\ s \in OrderIds /\ t \in OrderIds /\ s # t /\ e # s /\ e # t
        /\ Sibling(s) = t /\ Sibling(t) = s /\ EntryOfLeg(s) = e /\ EntryOfLeg(t) = e
        /\ s \in LegIds /\ t \in LegIds /\ e \notin LegIds
    BY BracketIds
  <2>3. \A x \in {e, s, t} : ord[x].filled \in Nat /\ ord[x].qty \in Nat
    BY <2>2, OrderNumbers
  <2> HIDE DEF s, t
  <2>4. \A x \in {e, s, t} :
           /\ ord'[x].qty = ord[x].qty
           /\ ord'[x].filled = IF x = o THEN ord[x].filled + k ELSE ord[x].filled
           /\ ord'[x].st = "none" <=> ord[x].st = "none"
           /\ ord[x].st = "filled" => ord'[x].st = "filled"
           /\ ord'[x].st = "filled" => ord[x].st = "filled" \/ (x = o /\ ord'[x].filled = ord[x].qty)
           /\ ~IsLive(ord[x]) => ord'[x] = ord[x]
    BY <2>2 DEF Filling, Settling, Frozen, IsLive, Terminal
  <2>5. IsLive(ord[o]) /\ (o \in LegIds => ord[EntryOfLeg(o)].st = "filled")
    BY DEF Filling
  <2>6. /\ ord[s].st # "none" \/ ord[t].st # "none" => Exists(e)
        /\ Exists(e) => ord[e].qty = Qty
        /\ ord[s].st # "none" => ord[s].qty = Qty
        /\ ord[t].st # "none" => ord[t].qty = Qty
        /\ ord[e].st = "filled" => ord[e].filled = Qty
        /\ ord[s].filled + ord[t].filled > 0 => ord[e].st = "filled"
        /\ ord[s].filled + ord[t].filled <= Qty
        /\ ord[e].st \in Terminal /\ ord[e].filled = 0 => ~IsLive(ord[s]) /\ ~IsLive(ord[t])
    BY <2>1 DEF Bracket, s, t
  <2>7. o \in {s, t} => ord[e].st = "filled" /\ ord[o].st # "none"
    BY <2>2, <2>5 DEF IsLive
  <2>8. ord'[s].filled + ord'[t].filled <= Qty
    <3>1. CASE o = s
      <4>1. k <= ord[s].qty - ord[s].filled - ord[t].filled
        BY <1>0, <2>2, <3>1
      <4>2. ord[s].qty = Qty
        BY <2>6, <2>7, <3>1
      <4> QED  BY <2>2, <2>3, <2>4, <3>1, <4>1, <4>2, QtyFacts
    <3>2. CASE o = t
      <4>1. k <= ord[t].qty - ord[t].filled - ord[s].filled
        BY <1>0, <2>2, <3>2
      <4>2. ord[t].qty = Qty
        BY <2>6, <2>7, <3>2
      <4> QED  BY <2>2, <2>3, <2>4, <3>2, <4>1, <4>2, QtyFacts
    <3>3. CASE o \notin {s, t}
      BY <2>4, <2>6, <3>3
    <3> QED  BY <3>1, <3>2, <3>3
  <2>9. ord'[e].st = "filled" => ord'[e].filled = Qty
    <3>1. CASE o = e
      BY <2>4, <2>5, <2>6, <3>1 DEF IsLive, Exists, Terminal
    <3>2. CASE o # e
      BY <2>4, <2>6, <3>2
    <3> QED  BY <3>1, <3>2
  <2>10. ord'[s].filled + ord'[t].filled > 0 => ord'[e].st = "filled"
    <3>1. o \notin {s, t} => ord'[s].filled = ord[s].filled /\ ord'[t].filled = ord[t].filled
      BY <2>4
    <3> QED  BY <2>4, <2>6, <2>7, <3>1
  <2>11. ord'[e].st \in Terminal /\ ord'[e].filled = 0 => ~IsLive(ord'[s]) /\ ~IsLive(ord'[t])
    <3>1. SUFFICES ASSUME ord'[e].st \in Terminal, ord'[e].filled = 0
                   PROVE  ~IsLive(ord'[s]) /\ ~IsLive(ord'[t])
      OBVIOUS
    <3>2. o # e /\ ord[e].filled = 0
      BY <1>0, <2>3, <2>4, <3>1
    <3>3. ord'[e].st = ord[e].st
      BY <2>2, <3>2 DEF Filling
    <3> QED  BY <2>4, <2>6, <3>1, <3>2, <3>3
  <2> QED  BY <2>4, <2>6, <2>8, <2>9, <2>10, <2>11 DEF Bracket, Exists, s, t
<1>2. wire' = {} /\ seen' = held' /\ \A x \in OrderIds : ord'[x].st = "none" => ord'[x].filled = 0
  <2>1. ord[o].st # "none"
    BY DEF Filling, IsLive
  <2> QED  BY <2>1 DEF BookInv, Filling, Settling
<1> QED  BY <1>1, <1>2 DEF BookInv

(* An entry that is sent has its whole bracket in order; an exit touches   *)
(* no bracket.                                                             *)
LEMMA SentKeepsBooks ==
    ASSUME TypeInv, BookInv, NEW id \in EntryIds \cup ExitIds, NEW q, Sent(id, q),
           id \in EntryIds => q = Qty
    PROVE  BookInv'
<1>1. ASSUME NEW e \in EntryIds PROVE Bracket(e)'
  <2> DEFINE s == StopOf(e)
             t == TargetOf(e)
  <2>1. Bracket(e)
    BY DEF BookInv
  <2>2. e \in OrderIds /\ s \in OrderIds /\ t \in OrderIds /\ s # t /\ e # s /\ e # t
        /\ s \notin EntryIds /\ t \notin EntryIds /\ s \notin ExitIds /\ t \notin ExitIds
        /\ e \notin ExitIds /\ EntryOfLeg(s) = e /\ EntryOfLeg(t) = e
    BY BracketIds
  <2>3. \A x \in {s, t} : \/ ord'[x] = ord[x]
                          \/ id = e /\ ~Exists(x) /\ ord'[x] = Held(q)
    <3>1. \A f \in EntryIds : {s, t} \cap {StopOf(f), TargetOf(f)} # {} => f = e
      <4>1. \A f \in EntryIds : EntryOfLeg(StopOf(f)) = f /\ EntryOfLeg(TargetOf(f)) = f
        BY BracketIds
      <4> QED  BY <2>2, <4>1
    <3> QED  BY <2>2, <3>1 DEF Sent
  <2>4. ord'[e] = ord[e] \/ (id = e /\ ~Exists(e) /\ ord'[e] = Working(q))
    <3>1. \A f \in EntryIds : e \notin {StopOf(f), TargetOf(f)}
      BY BracketIds
    <3> QED  BY <2>2, <3>1 DEF Sent
  <2>5. \A x \in {s, t} : ord[x].st = "none" => ord[x].filled = 0
    BY <2>2 DEF BookInv
  <2>6. id = e => ord[s].st = "none" /\ ord[t].st = "none" /\ q = Qty /\ ord'[e] = Working(q)
    BY <2>1 DEF Bracket, Exists, Sent
  <2> HIDE DEF s, t
  <2>7. CASE id # e
    BY <2>1, <2>3, <2>4, <2>7 DEF Bracket, Exists, s, t
  <2>8. CASE id = e
    <3>1. \A x \in {s, t} : ord'[x].filled = 0 /\ (ord'[x].st = "none" \/ ord'[x].qty = Qty)
      BY <2>3, <2>5, <2>6, <2>8 DEF Held
    <3>2. ord'[e].st = "new" /\ ord'[e].qty = Qty /\ ord'[e].filled = 0
      BY <2>6, <2>8 DEF Working
    <3> QED  BY <3>1, <3>2, QtyFacts DEF Bracket, Exists, s, t, Terminal
  <2> QED  BY <2>7, <2>8
<1>2. wire' = {} /\ seen' = held' /\ \A x \in OrderIds : ord'[x].st = "none" => ord'[x].filled = 0
  BY DEF BookInv, Sent, Working, Held
<1> QED  BY <1>1, <1>2 DEF BookInv

(* An order that is sent was not filled, and nothing else is.              *)
LEMMA SentFills ==
    ASSUME TypeInv, BookInv, NEW id \in EntryIds \cup ExitIds, NEW q, Sent(id, q)
    PROVE  \A o \in OrderIds : /\ ord'[o].filled = ord[o].filled
                               /\ Exists(o) => ord'[o] = ord[o]
                               /\ Exists(o)' => Exists(o) \/ o = id \/ o \in LegIds
<1>1. \A o \in OrderIds : Exists(o) => ord'[o] = ord[o]
  BY DEF Sent
<1>2. \A o \in OrderIds : ~Exists(o) => ord[o].filled = 0 /\ (ord'[o] = ord[o] \/ ord'[o].filled = 0)
  BY DEF Sent, Working, Held, BookInv, Exists
<1>3. \A o \in OrderIds : Exists(o)' => Exists(o) \/ o = id \/ o \in LegIds
  BY IdTypes DEF Sent, Exists
<1> QED  BY <1>1, <1>2, <1>3

(* Every step is one of these.                                             *)
LEMMA StepOfVenue ==
    ASSUME TypeInv, PlaceInv, Prompt, BookInv, [Next]_vars
    PROVE  \/ Still
           \/ /\ Venue
              /\ \E o \in OrderIds, k \in Nat : Filling(o, k)
           \/ ExitPost /\ Sent(ExitId(mem, mem.exit), mem.ask)
           \/ EntryPost /\ Sent(EntryOf(mem), Qty)
<1>1. CASE UNCHANGED vars
  BY <1>1, SameVenueIsStill DEF vars, brokerVars
<1>2. CASE Venue
  BY <1>2, VenueStep DEF Venue
<1>3. CASE ExitPost
  <2>1. ExitId(mem, mem.exit) \in ExitIds
    BY <1>3, MemIds DEF ExitPost, PlaceInv, PhaseAt, PhaseFits, SendPlaces, TypeInv, TypeOK
  <2> QED  BY <1>3, <2>1, SubmitSends, SameVenueIsStill DEF ExitPost
<1>4. CASE EntryPost
  <2>1. EntryOf(mem) \in EntryIds
    BY <1>4, MemIds DEF EntryPost, PlaceInv, PhaseAt, PhaseFits, EntryPlaces, TypeInv, TypeOK
  <2> QED  BY <1>4, <2>1, SubmitSends, SameVenueIsStill DEF EntryPost
<1>5. CASE MonitorReads \/ Crash \/ CallFails \/ AdvanceClock
  BY <1>5, MonitorIsStill
<1> QED  BY <1>1, <1>2, <1>3, <1>4, <1>5
         DEF Next, Monitor, MonitorReads, RequestPositionExit, Enter

(* So every step keeps the books of the venue, ...                         *)
LEMMA NextKeepsBooks ==
    ASSUME TypeInv, PlaceInv, Prompt, BookInv, [Next]_vars
    PROVE  BookInv'
<1>1. CASE Still
  BY <1>1, StillKeepsBooks
<1>2. CASE \E o \in OrderIds, k \in Nat : Filling(o, k)
  BY <1>2, FillingKeepsBooks
<1>3. CASE ExitPost /\ Sent(ExitId(mem, mem.exit), mem.ask)
  <2>1. ExitId(mem, mem.exit) \in ExitIds
    BY <1>3, MemIds DEF ExitPost, PlaceInv, PhaseAt, PhaseFits, SendPlaces, TypeInv, TypeOK
  <2> QED  BY <1>3, <2>1, SentKeepsBooks, IdsDiffer
<1>4. CASE EntryPost /\ Sent(EntryOf(mem), Qty)
  <2>1. EntryOf(mem) \in EntryIds
    BY <1>4, MemIds DEF EntryPost, PlaceInv, PhaseAt, PhaseFits, EntryPlaces, TypeInv, TypeOK
  <2> QED  BY <1>4, <2>1, SentKeepsBooks
<1> QED  BY <1>1, <1>2, <1>3, <1>4, StepOfVenue

(* ... which start empty ...                                               *)
LEMMA InitBooks == Init => BookInv
<1> SUFFICES ASSUME Init PROVE BookInv
  OBVIOUS
<1>1. ord = [o \in OrderIds |-> NoOrder] /\ wire = {} /\ seen = 0 /\ held = 0
  BY DEF Init, BrokerInit
<1>2. \A o \in OrderIds : ord[o].st = "none" /\ ord[o].filled = 0
  BY <1>1 DEF NoOrder
<1>3. \A e \in EntryIds : e \in OrderIds /\ StopOf(e) \in OrderIds /\ TargetOf(e) \in OrderIds
  BY IdTypes DEF OrderIds
<1>4. \A e \in EntryIds : Bracket(e)
  BY <1>2, <1>3, QtyFacts DEF Bracket, Exists, Terminal
<1> QED  BY <1>1, <1>2, <1>4 DEF BookInv

(* ... and are in order all along.                                         *)
LEMMA BookInvCorrect == ASSUME Prompt PROVE Spec => []BookInv
<1>1. TypeInv /\ PlaceInv /\ BookInv /\ [Next]_vars => BookInv'
  BY NextKeepsBooks
<1> QED  BY <1>1, InitBooks, TypeInvCorrect, PlaceInvCorrect, PTL DEF Spec

-----------------------------------------------------------------------------
(* The orders of the position p, and what they leave of its entry.         *)
Family(p) == {EntryOf(p), StopOf(EntryOf(p)), TargetOf(EntryOf(p)), ExitId(p, p.exit)}

(* Its entry less everything sold for it.                                  *)
Net(p) == LET f(o) == ord[o].filled
              e    == EntryOf(p)
          IN  f(e) - f(StopOf(e)) - f(TargetOf(e))
              - f(ExitId(p, 0)) - f(ExitId(p, 1)) - f(ExitId(p, 2))

(* The bracket sold all of the entry, part of it by the stop, and is over. *)
StoppedOut(e) ==
    LET s == ord[StopOf(e)]
        t == ord[TargetOf(e)]
    IN  /\ Exists(e) /\ ~IsLive(ord[e]) /\ ~IsLive(s) /\ ~IsLive(t)
        /\ s.filled > 0 /\ s.filled + t.filled = ord[e].filled

NoOrders == \A o \in OrderIds : ~Exists(o)

(* No more is remembered than was filled, and nothing is forgotten of the  *)
(* orders of another attempt; at the end nothing at all.                   *)
ObsBounded(p) == \A o \in OrderIds : p.obs[o] <= ord[o].filled
                                     /\ (o \notin Family(p) => p.obs[o] = ord[o].filled)
ObsExact(p) == \A o \in OrderIds : p.obs[o] = ord[o].filled

(* The orders there are: those of the saved state and of a first attempt   *)
(* that was stopped out; an exit comes after its entry and legs ended.     *)
KnownOrders ==
    /\ \A e \in EntryIds : Exists(e) =>
          e = EntryOf(saved) \/ (saved.attempt = 2 /\ e[1] = 1 /\ StoppedOut(e))
    /\ \A o \in ExitIds : Exists(o) =>
          /\ saved.exit >= 0 /\ o[1] = saved.attempt /\ o[3] <= saved.exit
          /\ \A x \in EntryIds \cup LegIds : ~IsLive(ord[x])
    /\ saved.phase = "none" => saved.attempt = 0 /\ NoOrders
    /\ saved.phase = "stopped" => saved.attempt = 1 /\ StoppedOut(EntryOf(saved))

(* The shares held are what the position bought and did not sell, and a    *)
(* working exit is for all of them.                                        *)
Account ==
    /\ held >= 0
    /\ saved.phase # "none" => held = Net(saved)
    /\ \A o \in ExitIds \cap OpenOrders : ord[o].qty - ord[o].filled = held
    /\ saved.phase \in {"none", "complete", "stopped"} => held = 0 /\ OpenOrders = {}

(* What is remembered of the fills, in the process and in its row.         *)
Observed ==
    /\ mem.phase # "none" => ObsBounded(mem)
    /\ saved.phase # "none" => ObsBounded(saved)
    /\ saved.phase \in {"none", "complete", "stopped"} => ObsExact(saved)

(* An entry that was saved and not sent can be taken back: the account is  *)
(* flat, and prior says truly where the symbol stood.                      *)
EntryPlan ==
    /\ pc # "down" => attempts = saved.attempt
    /\ pc \in {"ePost", "eAbort"} =>
         /\ ObsExact(prior) /\ prior.attempt + 1 = saved.attempt /\ held = 0
         /\ \A e \in EntryIds : Exists(e) => e = EntryOf(prior)
         /\ NoOrders \/ StoppedOut(EntryOf(prior))
         /\ prior.phase = "none" => prior.attempt = 0 /\ NoOrders
         /\ prior.phase = "stopped" => prior.attempt = 1 /\ StoppedOut(EntryOf(prior))
    /\ pc \in {"gonePosition", "goneOrders"} => ~Exists(EntryOf(mem))

(* Readings made in the iteration are never ahead of the venue.            *)
Reading ==
    /\ pc \in {"target", "holding", "flatEntry", "flatCancel"} =>
          snapA.filled <= ord[StopOf(EntryOf(mem))].filled
    /\ pc \in {"holding", "flatEntry", "flatCancel"} =>
          snapB.filled <= ord[TargetOf(EntryOf(mem))].filled
    /\ pc = "flatCancel" => LET e == EntryOf(mem) IN
          /\ snapA.filled + snapB.filled = ord[e].filled /\ ord[e].filled > 0
          /\ ObsExact(mem)
    /\ pc \in EndedPlaces \cup {"xVisible"} =>
          /\ snapA.st # "none" => snapA.filled <= ord[PreviousId].filled
          /\ Unresolved => ~Exists(PreviousId)

(* When an exit is made ready nothing works any more and the quantity is   *)
(* the whole of what is held.                                              *)
Closing ==
    /\ pc = "xRefresh" /\ vis = {} => OpenOrders = {}
    /\ pc \in {"xQuantity", "xSave", "xPost"} => OpenOrders = {} /\ ObsExact(mem)
    /\ pc = "xSave" => req.qty = held /\ ~Exists(ExitId(mem, req.n)) /\ req.n >= mem.exit
    /\ pc = "xPost" => mem.ask = held /\ ~Exists(ExitId(mem, mem.exit))

HoldInv == KnownOrders /\ Account /\ Observed /\ EntryPlan /\ Reading /\ Closing

-----------------------------------------------------------------------------
(* The orders of a position are six different ids.                         *)
LEMMA FamilyIds ==
    ASSUME TypeInv, NEW p \in Position, p.phase # "none", Numbered(p)
    PROVE  LET e == EntryOf(p)
               S == {e, StopOf(e), TargetOf(e), ExitId(p, 0), ExitId(p, 1), ExitId(p, 2)}
           IN  /\ e \in EntryIds /\ S \subseteq OrderIds
               /\ {StopOf(e), TargetOf(e)} \subseteq LegIds
               /\ {ExitId(p, 0), ExitId(p, 1), ExitId(p, 2)} \subseteq ExitIds
               /\ e \notin S \ {e} /\ StopOf(e) # TargetOf(e)
               /\ ExitId(p, 0) # ExitId(p, 1) /\ ExitId(p, 0) # ExitId(p, 2)
               /\ ExitId(p, 1) # ExitId(p, 2)
               /\ {StopOf(e), TargetOf(e)} \cap {ExitId(p, 0), ExitId(p, 1), ExitId(p, 2)} = {}
               /\ Family(p) \cap OrderIds \subseteq S
               /\ \A o \in S : ord[o].filled \in Nat
<1>1. EntryOf(p) \in EntryIds /\ \A n \in {0, 1, 2} : ExitId(p, n) \in ExitIds /\ ExitId(p, n) \in OrderIds
  BY MemIds DEF TypeInv, TypeOK, Retries
<1>2. ExitId(p, 0) # ExitId(p, 1) /\ ExitId(p, 0) # ExitId(p, 2) /\ ExitId(p, 1) # ExitId(p, 2)
  BY DEF ExitId
<1>3. p.exit \in {-1, 0, 1, 2}
  BY DEF Position, Retries
<1>4. ExitId(p, -1) \notin OrderIds
  BY DEF ExitId, OrderIds, EntryIds, LegIds, ExitIds, Retries
<1> PICK e : e = EntryOf(p)
  OBVIOUS
<1> DEFINE S == {e, StopOf(e), TargetOf(e), ExitId(p, 0), ExitId(p, 1), ExitId(p, 2)}
<1>5. e \in EntryIds
  BY <1>1
<1>6. /\ e \in OrderIds /\ StopOf(e) \in OrderIds /\ TargetOf(e) \in OrderIds
      /\ StopOf(e) \in LegIds /\ TargetOf(e) \in LegIds
      /\ StopOf(e) # TargetOf(e) /\ e # StopOf(e) /\ e # TargetOf(e)
  BY <1>5, BracketIds
<1>7. S \subseteq OrderIds
  BY <1>1, <1>6
<1>8. \A o \in S : ord[o].filled \in Nat
  BY <1>7, OrderNumbers
<1>9. Family(p) \cap OrderIds \subseteq S
  BY <1>3, <1>4 DEF Family
<1>10. /\ {StopOf(e), TargetOf(e)} \cap {ExitId(p, 0), ExitId(p, 1), ExitId(p, 2)} = {}
       /\ e \notin S \ {e}
  BY <1>1, <1>5, <1>6, IdsDiffer
<1> QED  BY <1>1, <1>2, <1>5, <1>6, <1>7, <1>8, <1>9, <1>10

(* The net is a number.                                                    *)
LEMMA NetInt ==
    ASSUME TypeInv, NEW p \in Position, p.phase # "none", Numbered(p)
    PROVE  Net(p) \in Int
BY FamilyIds DEF Net

(* While no fill is seen the net stays what it is.                         *)
LEMMA NetSame ==
    ASSUME TypeInv, NEW p \in Position, NEW q, SameIds(p, q), p.phase # "none", Numbered(p),
           \A o \in OrderIds : ord'[o].filled = ord[o].filled
    PROVE  LET e == EntryOf(q)
           IN  ord'[e].filled - ord'[StopOf(e)].filled - ord'[TargetOf(e)].filled
               - ord'[ExitId(q, 0)].filled - ord'[ExitId(q, 1)].filled - ord'[ExitId(q, 2)].filled
               = Net(p)
<1> PICK e : e = EntryOf(p)
  OBVIOUS
<1>1. /\ e \in OrderIds /\ StopOf(e) \in OrderIds /\ TargetOf(e) \in OrderIds
      /\ ExitId(p, 0) \in OrderIds /\ ExitId(p, 1) \in OrderIds /\ ExitId(p, 2) \in OrderIds
  BY FamilyIds
<1>2. EntryOf(q) = e /\ \A n : ExitId(q, n) = ExitId(p, n)
  BY SameIdsSame
<1> QED  BY <1>1, <1>2 DEF Net

(* A bracket that has ended stays as it is.                                *)
LEMMA EndedBracketStays ==
    ASSUME TypeInv, BookInv, NEW e \in EntryIds, Exists(e),
           ~IsLive(ord[e]), ~IsLive(ord[StopOf(e)]), ~IsLive(ord[TargetOf(e)]),
           \/ Frozen
           \/ \E id \in EntryIds \cup ExitIds : \E q : Sent(id, q)
    PROVE  ord'[e] = ord[e] /\ ord'[StopOf(e)] = ord[StopOf(e)] /\ ord'[TargetOf(e)] = ord[TargetOf(e)]
<1>1. e \in OrderIds /\ StopOf(e) \in OrderIds /\ TargetOf(e) \in OrderIds
  BY BracketIds
<1>2. CASE Frozen
  BY <1>1, <1>2 DEF Frozen
<1>3. ASSUME NEW id \in EntryIds \cup ExitIds, NEW q, Sent(id, q)
      PROVE  ord'[e] = ord[e] /\ ord'[StopOf(e)] = ord[StopOf(e)] /\ ord'[TargetOf(e)] = ord[TargetOf(e)]
  <2>1. id # e /\ ord'[e] = ord[e]
    BY <1>1, <1>3 DEF Sent
  <2>2. \A x \in {StopOf(e), TargetOf(e)} : x # id
    BY BracketIds
  <2>3. \A f \in EntryIds : f # e => {StopOf(e), TargetOf(e)} \cap {StopOf(f), TargetOf(f)} = {}
    <3>1. \A f \in EntryIds : EntryOfLeg(StopOf(f)) = f /\ EntryOfLeg(TargetOf(f)) = f
      BY BracketIds
    <3> QED  BY <3>1
  <2> QED  BY <1>1, <1>3, <2>1, <2>2, <2>3 DEF Sent
<1> QED  BY <1>2, <1>3

(* A first attempt that was stopped out stays so.                          *)
LEMMA StoppedOutStays ==
    ASSUME TypeInv, BookInv, NEW e \in EntryIds, StoppedOut(e),
           Frozen \/ \E id \in EntryIds \cup ExitIds : \E q : Sent(id, q)
    PROVE  StoppedOut(e)'
<1>1. ord'[e] = ord[e] /\ ord'[StopOf(e)] = ord[StopOf(e)] /\ ord'[TargetOf(e)] = ord[TargetOf(e)]
  BY EndedBracketStays DEF StoppedOut
<1> QED  BY <1>1 DEF StoppedOut, Exists

-----------------------------------------------------------------------------
Invs == TypeInv /\ PlaceInv /\ AloneInv /\ BookInv

(* The saved state, in a phase, names orders; it is complete or stopped    *)
(* only with nothing open.                                                 *)
LEMMA SavedFacts ==
    ASSUME Invs
    PROVE  /\ saved \in Position /\ mem \in Position /\ Numbered(saved) /\ Numbered(mem)
           /\ saved.phase \in Phases /\ mem.phase \in Phases
           /\ saved.phase # "none" => EntryOf(saved) \in EntryIds
           /\ mem.phase # "none" => SameIds(saved, mem) /\ saved.phase # "none"
<1>1. /\ saved \in Position /\ mem \in Position /\ Numbered(saved) /\ Numbered(mem)
      /\ saved.phase \in Phases /\ mem.phase \in Phases
  BY DEF Invs, TypeInv, TypeOK, Position
<1>2. saved.phase # "none" => EntryOf(saved) \in EntryIds
  BY <1>1, MemIds DEF Invs, TypeInv, TypeOK
<1>3. mem.phase # "none" => SameIds(saved, mem) /\ saved.phase # "none"
  <2>1. mem.phase # "none" => mem.phase \in Watching \/ mem.phase = "complete"
    BY <1>1 DEF Invs, PlaceInv, PhaseAt, PhaseFits, Phases, Watching
  <2> QED  BY <2>1 DEF Invs, PlaceInv, SameState, SameIds, Watching
<1> QED  BY <1>1, <1>2, <1>3

(* What is open belongs to the state that is saved and being watched.      *)
LEMMA OpenInFamily ==
    ASSUME Invs, KnownOrders, Account, NEW o \in OpenOrders
    PROVE  saved.phase \in Watching /\ o \in Family(saved)
<1>1. o \in OrderIds /\ IsLive(ord[o]) /\ Exists(o)
  BY DEF OpenOrders, IsLive, Exists
<1>2. saved.phase \in Watching
  BY SavedFacts DEF Account, Phases, Watching
<1>3. ASSUME NEW e \in EntryIds, Exists(e),
             IsLive(ord[e]) \/ IsLive(ord[StopOf(e)]) \/ IsLive(ord[TargetOf(e)])
      PROVE  e = EntryOf(saved)
  BY <1>3 DEF KnownOrders, StoppedOut
<1>4. CASE o \in EntryIds
  BY <1>1, <1>2, <1>3, <1>4 DEF Family
<1>5. CASE o \in LegIds
  <2>1. PICK e \in EntryIds : o = StopOf(e) \/ o = TargetOf(e)
    <3>1. EntryOfLeg(o) \in EntryIds /\ (o = StopOf(EntryOfLeg(o)) \/ o = TargetOf(EntryOfLeg(o)))
      BY <1>5, IdTypes DEF LegIds, EntryOfLeg, StopOf, TargetOf
    <3> QED  BY <3>1
  <2>2. Exists(e)
    BY <1>1, <2>1 DEF Invs, BookInv, Bracket, Exists
  <2>3. e = EntryOf(saved)
    BY <1>1, <1>3, <2>1, <2>2
  <2> QED  BY <1>2, <2>1, <2>3 DEF Family
<1>6. CASE o \in ExitIds
  BY <1>2, <1>6 DEF Invs, AloneInv, LiveExitIsSaved, Family
<1> QED  BY <1>1, <1>4, <1>5, <1>6 DEF OrderIds

(* The orders known stay known while no order is sent.                     *)
LEMMA KnownStays ==
    ASSUME Invs, KnownOrders, Settling, Frozen, SameIds(saved, saved'),
           saved'.phase = "none" => saved.phase = "none",
           saved'.phase = "stopped" =>
              saved.phase = "stopped" \/ (saved.attempt = 1 /\ saved.phase # "none" /\ StoppedOut(EntryOf(saved)))
    PROVE  KnownOrders'
<1>1. \A o \in OrderIds : Exists(o)' <=> Exists(o)
  BY SettlingShrinks
<1>2. \A o \in OrderIds : IsLive(ord'[o]) => IsLive(ord[o])
  BY <1>1 DEF Settling, IsLive, Exists
<1>3. EntryIds \subseteq OrderIds /\ LegIds \subseteq OrderIds /\ ExitIds \subseteq OrderIds
  BY DEF OrderIds
<1>4. \A e \in EntryIds : StoppedOut(e) => StoppedOut(e)'
  BY StoppedOutStays DEF Invs
<1>5. EntryOf(saved') = EntryOf(saved) /\ saved'.attempt = saved.attempt /\ saved'.exit = saved.exit
  BY SameIdsSame DEF SameIds
<1>6. \A e \in EntryIds : Exists(e)' =>
          e = EntryOf(saved') \/ (saved'.attempt = 2 /\ e[1] = 1 /\ StoppedOut(e)')
  BY <1>1, <1>3, <1>4, <1>5 DEF KnownOrders
<1>7. \A o \in ExitIds : Exists(o)' =>
          /\ saved'.exit >= 0 /\ o[1] = saved'.attempt /\ o[3] <= saved'.exit
          /\ \A x \in EntryIds \cup LegIds : ~IsLive(ord'[x])
  BY <1>1, <1>2, <1>3, <1>5 DEF KnownOrders
<1>8. saved'.phase = "none" => saved'.attempt = 0 /\ \A o \in OrderIds : ~Exists(o)'
  BY <1>1, <1>5 DEF KnownOrders, NoOrders
<1>9. saved'.phase = "stopped" => saved'.attempt = 1 /\ StoppedOut(EntryOf(saved))'
  <2>1. saved'.phase = "stopped" => saved'.attempt = 1 /\ EntryOf(saved) \in EntryIds /\ StoppedOut(EntryOf(saved))
    BY <1>5, SavedFacts DEF KnownOrders
  <2> PICK e : e = EntryOf(saved)
    OBVIOUS
  <2>2. EntryOf(saved)' = e
    BY <1>5
  <2>3. e \in EntryIds /\ StoppedOut(e) => StoppedOut(e)'
    BY <1>4
  <2> QED  BY <1>5, <2>1, <2>2, <2>3 DEF StoppedOut, Exists
<1> QED  BY <1>6, <1>7, <1>8, <1>9 DEF KnownOrders, NoOrders

(* So does the account.                                                    *)
LEMMA AccountStays ==
    ASSUME Invs, Account, Still, SameIds(saved, saved'),
           saved'.phase # "none" => saved.phase # "none",
           saved'.phase \in {"none", "complete", "stopped"} =>
              saved.phase \in {"none", "complete", "stopped"} \/ (held = 0 /\ OpenOrders = {})
    PROVE  Account'
<1>1. held' = held /\ OpenOrders' \subseteq OpenOrders
  BY SettlingShrinks DEF Still
<1>2. \A o \in OrderIds : ord'[o].filled = ord[o].filled /\ ord'[o].qty = ord[o].qty
  BY DEF Still
<1>3. ExitIds \subseteq OrderIds
  BY DEF OrderIds
<1>4. saved'.phase # "none" => held' = Net(saved)'
  <2> SUFFICES ASSUME saved'.phase # "none" PROVE held' = Net(saved)'
    OBVIOUS
  <2>1. held = Net(saved)
    BY DEF Account
  <2> QED  BY <1>1, <1>2, <2>1, SavedFacts, NetSame DEF Net, Invs
<1>5. \A o \in ExitIds \cap OpenOrders' : ord'[o].qty - ord'[o].filled = held'
  BY <1>1, <1>2, <1>3 DEF Account
<1>6. saved'.phase \in {"none", "complete", "stopped"} => held' = 0 /\ OpenOrders' = {}
  BY <1>1 DEF Account
<1> QED  BY <1>1, <1>4, <1>5, <1>6 DEF Account

-----------------------------------------------------------------------------
(* What was observed of a position carries over to one of the same ids.    *)
LEMMA SameObs ==
    ASSUME NEW p, NEW q, SameIds(p, q), q.obs = p.obs
    PROVE  (ObsBounded(p) => ObsBounded(q)) /\ (ObsExact(p) => ObsExact(q))
BY SameIdsSame DEF SameIds, ObsBounded, ObsExact, Family

(* _remember_fill over S observes what there is, and all of it when the    *)
(* orders left out were never filled.                                      *)
LEMMA RememberObs ==
    ASSUME TypeInv, NEW p \in Position, NEW S, ObsBounded(p)
    PROVE  /\ ObsBounded(Remember(p, S))
           /\ (\A o \in Family(p) \cap OrderIds : o \in S \/ ord[o].filled = 0) => ObsExact(Remember(p, S))
<1> PICK q : q = Remember(p, S)
  OBVIOUS
<1>1. SameIds(p, q)
  BY RememberLife DEF SameLife
<1>2. \A o \in OrderIds : q.obs[o] = IF o \in S /\ ord[o].filled > p.obs[o] THEN ord[o].filled ELSE p.obs[o]
  BY DEF Remember, Position
<1>3. \A o \in OrderIds : ord[o].filled \in Nat /\ p.obs[o] \in Nat
  BY OrderNumbers, QtyFacts DEF Position
<1>4. Family(q) = Family(p)
  BY <1>1, SameIdsSame DEF SameIds, Family
<1>5. ObsBounded(q)
  BY <1>2, <1>3, <1>4 DEF ObsBounded
<1>6. (\A o \in Family(p) \cap OrderIds : o \in S \/ ord[o].filled = 0) => ObsExact(q)
  BY <1>2, <1>3 DEF ObsBounded, ObsExact
<1> QED  BY <1>5, <1>6

HoldPlaces == {"gonePosition", "goneOrders", "ePost", "eAbort", "target", "holding", "flatEntry",
               "flatCancel", "xVisible", "xSave", "xPost"} \cup EndedPlaces

(* A step that sends nothing, and what it may save: what there was, the    *)
(* position under way with what was observed of it, or its end.            *)
HeldStep ==
    /\ \/ saved' = saved
       \/ /\ SameIds(saved, saved') /\ saved.phase # "none"
          /\ saved'.phase \in Watching /\ ObsBounded(saved')
       \/ /\ SameIds(saved, saved') /\ saved.phase # "none"
          /\ saved'.phase \in {"complete", "stopped"}
          /\ held = 0 /\ OpenOrders = {} /\ ObsExact(saved')
          /\ saved'.phase = "stopped" => saved.attempt = 1 /\ StoppedOut(EntryOf(saved))
    /\ mem'.phase # "none" => ObsBounded(mem')
    /\ pc' # "down" => attempts' = saved'.attempt

(* Whatever is observed exactly is observed within bounds.                 *)
LEMMA ExactIsBounded ==
    ASSUME TypeInv, NEW p, ObsExact(p)
    PROVE  ObsBounded(p)
BY OrderNumbers DEF ObsExact, ObsBounded

(* Such a step keeps the invariant, if what the next place relies on is    *)
(* true there.                                                             *)
LEMMA HeldStepHolds ==
    ASSUME Invs, HoldInv, Still, HeldStep,
           pc' \in HoldPlaces => EntryPlan' /\ Reading' /\ Closing'
    PROVE  HoldInv'
<1>0. KnownOrders /\ Account /\ Observed /\ EntryPlan /\ Reading /\ Closing
  BY DEF HoldInv
<1>1. /\ SameIds(saved, saved')
      /\ saved'.phase = "none" <=> saved.phase = "none"
      /\ saved'.phase = "stopped" =>
            saved.phase = "stopped" \/ (saved.attempt = 1 /\ saved.phase # "none" /\ StoppedOut(EntryOf(saved)))
      /\ saved'.phase \in {"none", "complete", "stopped"} =>
            saved.phase \in {"none", "complete", "stopped"} \/ (held = 0 /\ OpenOrders = {})
  BY DEF HeldStep, SameIds, Watching
<1>2. KnownOrders'
  BY <1>0, <1>1, KnownStays DEF Still
<1>3. Account'
  BY <1>0, <1>1, AccountStays
<1>4. Observed'
  <2>1. \A o \in OrderIds : ord'[o].filled = ord[o].filled
    BY DEF Still
  <2>2. mem'.phase # "none" => ObsBounded(mem)'
    BY <2>1 DEF HeldStep, ObsBounded, Family, EntryOf, ExitId
  <2>3. saved'.phase # "none" => ObsBounded(saved')
    BY <1>0, ExactIsBounded DEF HeldStep, Observed, Invs
  <2>4. saved'.phase # "none" => ObsBounded(saved)'
    BY <2>1, <2>3 DEF ObsBounded, Family, EntryOf, ExitId
  <2>5. saved'.phase \in {"none", "complete", "stopped"} => ObsExact(saved')
    BY <1>0 DEF HeldStep, Observed, Watching
  <2>6. saved'.phase \in {"none", "complete", "stopped"} => ObsExact(saved)'
    BY <2>1, <2>5 DEF ObsExact
  <2> QED  BY <2>2, <2>4, <2>6 DEF Observed
<1>5. pc' \notin HoldPlaces => EntryPlan' /\ Reading' /\ Closing'
  BY DEF HoldPlaces, EndedPlaces, EntryPlan, Reading, Closing, HeldStep
<1> QED  BY <1>2, <1>3, <1>4, <1>5 DEF HoldInv

(* A write of the position under way.                                      *)
LEMMA WriteIsHeld ==
    ASSUME Invs, HoldInv, mem.phase # "none", NEW q \in Position, SameIds(mem, q), Writes(q),
           q.phase \in Watching \cup {"complete", "stopped"}, ObsBounded(q),
           q.phase \in {"complete", "stopped"} => held = 0 /\ OpenOrders = {} /\ ObsExact(q),
           q.phase = "stopped" => mem.attempt = 1 /\ StoppedOut(EntryOf(mem)),
           pc # "down", UNCHANGED attempts
    PROVE  HeldStep
<1>1. SameIds(saved, mem) /\ saved.phase # "none"
  BY SavedFacts
<1>2. SameIds(saved, q) /\ EntryOf(mem) = EntryOf(saved) /\ mem.attempt = saved.attempt
  BY <1>1, SameIdsSame DEF SameIds
<1>3. attempts' = saved'.attempt
  BY <1>2 DEF HoldInv, EntryPlan, Writes, SameIds
<1>4. mem'.phase # "none" => ObsBounded(mem')
  BY NoPositionLife DEF Writes
<1> QED  BY <1>1, <1>2, <1>3, <1>4 DEF Writes, HeldStep

(* A step that saves nothing.                                              *)
LEMMA NothingIsHeld ==
    ASSUME Invs, HoldInv, UNCHANGED <<saved, attempts>>, pc # "down" \/ attempts' = saved'.attempt \/ pc' = "down",
           mem' = mem \/ mem' = NoPosition
    PROVE  HeldStep
<1>1. mem'.phase # "none" => ObsBounded(mem')
  BY NoPositionLife DEF HoldInv, Observed
<1>2. pc # "down" => attempts = saved.attempt
  BY DEF HoldInv, EntryPlan
<1> QED  BY <1>1, <1>2 DEF HeldStep

-----------------------------------------------------------------------------
(* Start, crash and the loop keep the holdings.                            *)
LEMMA LoopHolds ==
    ASSUME Invs, HoldInv, Start \/ Crash \/ Tick \/ MinuteIdle \/ MinuteExit \/ CallFails
    PROVE  HoldInv'
<1>0. Still
  BY MonitorIsStill DEF MonitorReads, Invs
<1>1. Observed /\ (pc # "down" => attempts = saved.attempt)
  BY DEF HoldInv, EntryPlan
<1>2. CASE Start
  <2>1. /\ saved' = saved /\ attempts' = saved.attempt /\ pc' = "tick"
        /\ mem' = saved \/ mem' = NoPosition
    BY <1>2 DEF Start, Goto, storeVars
  <2>2. HeldStep
    BY <1>1, <2>1, NoPositionLife DEF HeldStep, Observed
  <2> QED  BY <1>0, <2>1, <2>2, HeldStepHolds DEF HoldPlaces, EndedPlaces
<1>3. CASE Crash
  <2>1. saved' = saved /\ mem' = NoPosition /\ pc' = "down"
    BY <1>3 DEF Crash, storeVars
  <2>2. HeldStep
    BY <2>1, NoPositionLife DEF HeldStep
  <2> QED  BY <1>0, <2>1, <2>2, HeldStepHolds DEF HoldPlaces, EndedPlaces
<1>4. CASE Tick
  <2>1. /\ UNCHANGED <<saved, attempts>> /\ pc = "tick"
        /\ \/ mem' = mem \/ mem' = NoPosition \/ mem' = [mem EXCEPT !.phase = "exit_pending"]
        /\ pc' \in {"entry", "stop", "close", "minute"}
    BY <1>4 DEF Tick, storeVars, Lifecycle
  <2>2. mem'.phase # "none" => ObsBounded(mem')
    <3>1. CASE mem' = [mem EXCEPT !.phase = "exit_pending"] /\ mem.phase # "none"
      <4>1. SameIds(mem, mem') /\ mem'.obs = mem.obs
        BY <3>1, SavedFacts, PhaseLife DEF Position
      <4> QED  BY <1>1, <3>1, <4>1, SameObs DEF Observed
    <3>2. CASE mem.phase = "none"
      <4>1. mem'.phase = "none"
        BY <1>4, <3>2, NoPositionLife DEF Tick
      <4> QED  BY <4>1
    <3> QED  BY <1>1, <2>1, <3>1, <3>2, NoPositionLife DEF Observed
  <2>3. HeldStep
    BY <1>1, <2>1, <2>2 DEF HeldStep
  <2> QED  BY <1>0, <2>1, <2>3, HeldStepHolds DEF HoldPlaces, EndedPlaces
<1>5. CASE MinuteIdle \/ MinuteExit \/ CallFails
  <2>1. /\ UNCHANGED <<saved, mem, attempts>> /\ pc # "down" /\ pc' \in {"tick", "xPrevious"}
    BY <1>5 DEF MinuteIdle, MinuteExit, CallFails, Goto, Raise, storeVars, BrokerCalls
  <2>2. HeldStep
    BY <2>1, NothingIsHeld
  <2> QED  BY <1>0, <2>1, <2>2, HeldStepHolds DEF HoldPlaces, EndedPlaces
<1> QED  BY <1>2, <1>3, <1>4, <1>5

-----------------------------------------------------------------------------
(* No exit is known while an entry is pending or the bracket stands.       *)
LEMMA NoExitYet ==
    ASSUME Invs, KnownOrders, mem.phase \in {"entry_pending", "active"}
    PROVE  /\ mem.exit = -1 /\ saved.exit = -1
           /\ \A o \in ExitIds : ~Exists(o) /\ ord[o].filled = 0
<1>1. mem.exit = -1 /\ saved.exit = mem.exit
  BY SavedFacts DEF Invs, PlaceInv, PhaseTells, ExitPhase, SameIds, Position, Retries
<1>2. \A o \in ExitIds : ~Exists(o)
  BY <1>1 DEF KnownOrders
<1> QED  BY <1>1, <1>2 DEF Invs, BookInv, Exists, OrderIds

(* Then what is held is what the bracket has left of the entry.            *)
LEMMA HeldByBracket ==
    ASSUME Invs, KnownOrders, Account, mem.phase \in {"entry_pending", "active"}
    PROVE  LET e == EntryOf(mem)
           IN  held = ord[e].filled - ord[StopOf(e)].filled - ord[TargetOf(e)].filled
<1>1. EntryOf(mem) = EntryOf(saved) /\ saved.phase # "none" /\ saved \in Position /\ Numbered(saved)
  BY SavedFacts, SameIdsSame DEF SameIds
<1>2. held = Net(saved)
  BY <1>1 DEF Account
<1>3. /\ ord[ExitId(saved, 0)].filled = 0 /\ ord[ExitId(saved, 1)].filled = 0
      /\ ord[ExitId(saved, 2)].filled = 0
      /\ \A o \in {EntryOf(saved), StopOf(EntryOf(saved)), TargetOf(EntryOf(saved))} : ord[o].filled \in Nat
  BY <1>1, NoExitYet, FamilyIds DEF Invs
<1> QED  BY <1>1, <1>2, <1>3 DEF Net

(* _remember_fill over the tree of the entry then observes everything.     *)
LEMMA TreeObs ==
    ASSUME Invs, KnownOrders, ObsBounded(mem), mem.phase \in {"entry_pending", "active"}
    PROVE  ObsExact(Remember(mem, OrderTree(EntryOf(mem))))
<1> PICK e : e = EntryOf(mem)
  OBVIOUS
<1>1. mem \in Position /\ Numbered(mem) /\ e \in EntryIds /\ mem.exit = -1
  BY SavedFacts, NoExitYet, FamilyIds DEF Invs
<1>2. ExitId(mem, -1) \notin OrderIds
  BY DEF ExitId, OrderIds, EntryIds, LegIds, ExitIds, Retries
<1>3. \A o \in Family(mem) \cap OrderIds : o \in OrderTree(e) \/ ord[o].filled = 0
  BY <1>1, <1>2 DEF Family, OrderTree, Exists, Invs, BookInv
<1> QED  BY <1>1, <1>3, RememberObs DEF Invs

(* An entry that ended unfilled leaves nothing.                            *)
LEMMA UnfilledIsFlat ==
    ASSUME Invs, KnownOrders, Account, mem.phase = "entry_pending",
           LET x == ord[EntryOf(mem)] IN x.filled = 0 /\ (x.st \in Terminal \/ OpenOrders = {})
    PROVE  held = 0 /\ OpenOrders = {}
<1> PICK e : e = EntryOf(mem)
  OBVIOUS
<1>1. e \in EntryIds /\ Bracket(e) /\ EntryOf(saved) = e
      /\ e \in OrderIds /\ StopOf(e) \in OrderIds /\ TargetOf(e) \in OrderIds
  BY SavedFacts, SameIdsSame, BracketIds DEF SameIds, Invs, BookInv
<1>2. ord[StopOf(e)].filled = 0 /\ ord[TargetOf(e)].filled = 0
  <2>1. ord[StopOf(e)].filled \in Nat /\ ord[TargetOf(e)].filled \in Nat
    BY <1>1, OrderNumbers DEF Invs
  <2>2. ord[e].st # "filled"
    BY <1>1, QtyAssumption DEF Bracket
  <2> QED  BY <1>1, <2>1, <2>2 DEF Bracket
<1>3. held = 0
  BY <1>2, HeldByBracket
<1>4. CASE ord[e].st \in Terminal
  <2>1. ~IsLive(ord[e]) /\ ~IsLive(ord[StopOf(e)]) /\ ~IsLive(ord[TargetOf(e)])
    BY <1>1, <1>4 DEF Bracket, IsLive
  <2>2. \A o \in ExitIds : ~IsLive(ord[o])
    BY NoExitYet DEF IsLive, Exists
  <2>3. ASSUME NEW o \in OpenOrders PROVE FALSE
    <3>1. o \in Family(saved) /\ o \in OrderIds /\ IsLive(ord[o])
      BY OpenInFamily DEF OpenOrders
    <3>2. o \in {e, StopOf(e), TargetOf(e)} \/ o \in ExitIds
      BY <1>1, <3>1, SavedFacts, FamilyIds DEF Invs
    <3> QED  BY <2>1, <2>2, <3>1, <3>2
  <2> QED  BY <1>3, <2>3
<1> QED  BY <1>3, <1>4

(* The decision on the last reading of the entry.                          *)
LEMMA DecideHolds ==
    ASSUME Invs, HoldInv, Still, mem.phase = "entry_pending", pc # "down",
           NEW w, Decide(Remember(mem, OrderTree(EntryOf(mem))), ord[EntryOf(mem)], w)
    PROVE  HoldInv'
<1> PICK p : p = Remember(mem, OrderTree(EntryOf(mem)))
  OBVIOUS
<1> PICK x : x = ord[EntryOf(mem)]
  OBVIOUS
<1> DEFINE done == [p EXCEPT !.phase = "complete"]
           open == [p EXCEPT !.phase = "active", !.legs = TRUE, !.shares = x.filled]
<1>0. mem \in Position /\ EntryOf(mem) \in OrderIds /\ ObsBounded(mem) /\ KnownOrders /\ Account
  BY SavedFacts, SameIdsSame DEF HoldInv, Observed, SameIds, OrderIds
<1>1. p \in Position /\ SameLife(mem, p) /\ ObsBounded(p) /\ ObsExact(p)
  BY <1>0, RememberLife, RememberType, RememberObs, TreeObs DEF SameTrade, Invs, TypeInv, TypeOK
<1>2. SameIds(mem, p) /\ p.phase = "entry_pending"
  BY <1>1 DEF SameLife
<1>3. done \in Position /\ SameIds(mem, done) /\ done.phase = "complete" /\ done.obs = p.obs
  BY <1>1, <1>2 DEF Position, Phases, SameIds
<1>4. x.filled \in 0..Qty
  BY <1>0 DEF Invs, TypeInv, TypeOK, BrokerTypeOK, Order
<1>5. open \in Position /\ SameIds(mem, open) /\ open.phase = "active" /\ open.obs = p.obs
  BY <1>1, <1>2, <1>4 DEF Position, Phases, SameIds
<1>6. ObsExact(done) /\ ObsBounded(done) /\ ObsBounded(open)
  <2>1. SameIds(p, done) /\ SameIds(p, open)
    BY <1>2, <1>3, <1>5 DEF SameIds
  <2> QED  BY <1>1, <1>3, <1>5, <2>1, SameObs
<1> HIDE DEF done, open
<1>7. CASE Save(p) /\ CloseNow /\ UNCHANGED <<attempts, outcome>>
  <2>1. Writes(p) /\ pc' = "close"
    BY <1>7 DEF Save, CloseNow, Goto, Writes
  <2>2. HeldStep
    BY <1>1, <1>2, <1>7, <2>1, WriteIsHeld DEF Watching
  <2> QED  BY <2>1, <2>2, HeldStepHolds DEF HoldPlaces, EndedPlaces
<1>8. CASE saved' = p /\ Finish(p) /\ UNCHANGED attempts
  <2>1. Writes(p) /\ pc' = "minute"
    BY <1>1, <1>8, FinishWrites
  <2>2. HeldStep
    BY <1>1, <1>2, <1>8, <2>1, WriteIsHeld DEF Watching
  <2> QED  BY <2>1, <2>2, HeldStepHolds DEF HoldPlaces, EndedPlaces
<1>9. CASE x.st \in Terminal /\ ~LeftShares(x) /\ saved' = done /\ Finish(done) /\ UNCHANGED attempts
  <2>1. Writes(done) /\ pc' = "minute"
    BY <1>3, <1>9, FinishWrites
  <2>2. held = 0 /\ OpenOrders = {}
    BY <1>0, <1>4, <1>9, UnfilledIsFlat DEF LeftShares
  <2>3. HeldStep
    BY <1>3, <1>6, <1>9, <2>1, <2>2, WriteIsHeld
  <2> QED  BY <2>1, <2>3, HeldStepHolds DEF HoldPlaces, EndedPlaces
<1>10. CASE Save(open) /\ Goto("stop") /\ ClearLocals /\ UNCHANGED <<attempts, outcome>>
  <2>1. Writes(open) /\ pc' = "stop"
    BY <1>10 DEF Save, Goto, Writes
  <2>2. HeldStep
    BY <1>5, <1>6, <1>10, <2>1, WriteIsHeld DEF Watching
  <2> QED  BY <2>1, <2>2, HeldStepHolds DEF HoldPlaces, EndedPlaces
<1> QED  BY <1>7, <1>8, <1>9, <1>10 DEF Decide, done, open

(* The entry_pending phase.                                                *)
LEMMA EntryHolds ==
    ASSUME Invs, HoldInv, Prompt,
           EntryLookup \/ EntryGonePosition \/ EntryGoneOrders \/ CancelEntry \/ EntryReread
    PROVE  HoldInv'
<1>0. /\ mem \in Position /\ mem.phase = "entry_pending" /\ pc # "down" /\ Still
      /\ ObsBounded(mem) /\ KnownOrders /\ Account /\ EntryOf(mem) \in OrderIds
  <2>1. mem.phase = "entry_pending" /\ pc # "down"
    BY DEF Invs, PlaceInv, PhaseAt, PhaseFits, EntryPlaces,
           EntryLookup, EntryGonePosition, EntryGoneOrders, CancelEntry, EntryReread
  <2>2. Still
    BY MonitorIsStill DEF MonitorReads, Reconcile, Invs
  <2> QED  BY <2>1, <2>2, SavedFacts, SameIdsSame DEF HoldInv, Observed, SameIds, OrderIds
<1>1. CASE EntryLookup
  <2>1. CASE ~Exists(EntryOf(mem)) /\ Goto("gonePosition") /\ UNCHANGED <<storeVars, mem, attempts, outcome>>
    <3>1. pc' = "gonePosition" /\ UNCHANGED <<saved, mem, attempts, ord>>
      BY <1>1, <2>1 DEF Goto, storeVars, EntryLookup
    <3>2. HeldStep
      BY <1>0, <3>1, NothingIsHeld
    <3>3. EntryPlan' /\ Reading' /\ Closing'
      BY <2>1, <3>1, <3>2 DEF HeldStep, EntryPlan, Reading, Closing, EndedPlaces, Exists, EntryOf
    <3> QED  BY <1>0, <3>2, <3>3, HeldStepHolds
  <2>2. CASE Save(Remember(mem, OrderTree(EntryOf(mem)))) /\ Goto("cancelEntry") /\ UNCHANGED <<attempts, outcome>>
    <3> PICK p : p = Remember(mem, OrderTree(EntryOf(mem)))
      OBVIOUS
    <3>1. p \in Position /\ SameLife(mem, p) /\ ObsBounded(p)
      BY <1>0, RememberLife, RememberType, RememberObs DEF SameTrade, Invs, TypeInv, TypeOK
    <3>2. Writes(p) /\ pc' = "cancelEntry"
      BY <2>2 DEF Save, Goto, Writes
    <3>3. HeldStep
      BY <1>0, <2>2, <3>1, <3>2, WriteIsHeld DEF SameLife, Watching
    <3> QED  BY <1>0, <3>2, <3>3, HeldStepHolds DEF HoldPlaces, EndedPlaces
  <2>3. CASE Decide(Remember(mem, OrderTree(EntryOf(mem))), ord[EntryOf(mem)], EntryPart(ord[EntryOf(mem)]))
    BY <1>0, <2>3, DecideHolds
  <2> QED  BY <1>1, <2>1, <2>2, <2>3 DEF EntryLookup, Prompt
<1>2. CASE EntryGonePosition \/ CancelEntry
  <2>1. UNCHANGED <<saved, mem, attempts>> /\ pc' \in {"tick", "goneOrders", "reread"}
    BY <1>2 DEF EntryGonePosition, CancelEntry, Goto, Raise, storeVars
  <2>2. HeldStep
    BY <1>0, <2>1, NothingIsHeld
  <2>3. CASE pc' = "goneOrders"
    <3>1. pc = "gonePosition" /\ UNCHANGED ord
      BY <1>2, <2>3 DEF EntryGonePosition, CancelEntry, Goto, brokerVars
    <3>2. EntryPlan' /\ Reading' /\ Closing'
      BY <2>1, <2>2, <2>3, <3>1 DEF HoldInv, HeldStep, EntryPlan, Reading, Closing, EndedPlaces, Exists, EntryOf
    <3> QED  BY <1>0, <2>2, <3>2, HeldStepHolds
  <2> QED  BY <1>0, <2>1, <2>2, <2>3, HeldStepHolds DEF HoldPlaces, EndedPlaces
<1>3. CASE EntryGoneOrders
  <2>1. CASE OpenOrders # {}
    <3>1. UNCHANGED <<saved, mem, attempts>> /\ pc' = "tick"
      BY <1>3, <2>1 DEF EntryGoneOrders, Raise
    <3>2. HeldStep
      BY <1>0, <3>1, NothingIsHeld
    <3> QED  BY <1>0, <3>1, <3>2, HeldStepHolds DEF HoldPlaces, EndedPlaces
  <2>2. CASE OpenOrders = {}
    <3> PICK q : q = [mem EXCEPT !.phase = "complete"]
      OBVIOUS
    <3>1. q \in Position /\ SameIds(mem, q) /\ q.obs = mem.obs /\ q.phase = "complete"
      BY <1>0 DEF Position, Phases, SameIds
    <3>2. saved' = q /\ Finish(q) /\ UNCHANGED attempts
      BY <1>3, <2>2 DEF EntryGoneOrders
    <3>3. Writes(q) /\ pc' = "minute"
      BY <3>1, <3>2, FinishWrites
    <3>4. ord[EntryOf(mem)].filled = 0
      BY <1>0, <1>3 DEF EntryGoneOrders, HoldInv, EntryPlan, Exists, Invs, BookInv
    <3>5. held = 0
      BY <1>0, <2>2, <3>4, UnfilledIsFlat
    <3>6. ObsExact(mem)
      <4>1. \A o \in Family(mem) \cap OrderIds : ord[o].filled = 0
        <5>1. EntryOf(mem) \in EntryIds /\ Bracket(EntryOf(mem)) /\ ~Exists(EntryOf(mem))
          BY <1>0, <1>3, SavedFacts, FamilyIds DEF EntryGoneOrders, HoldInv, EntryPlan, Invs, BookInv
        <5>2. ord[StopOf(EntryOf(mem))].filled = 0 /\ ord[TargetOf(EntryOf(mem))].filled = 0
          BY <5>1, BracketIds DEF Bracket, Exists, Invs, BookInv
        <5>3. \A o \in ExitIds : ord[o].filled = 0
          BY <1>0, NoExitYet
        <5> QED  BY <1>0, <3>4, <5>2, <5>3, SavedFacts, FamilyIds DEF Invs
      <4>2. \A o \in OrderIds : mem.obs[o] \in Nat
        BY <1>0, QtyFacts DEF Position
      <4> QED  BY <1>0, <4>1, <4>2, OrderNumbers DEF ObsBounded, ObsExact, Invs
    <3>7. ObsExact(q) /\ ObsBounded(q)
      BY <1>0, <3>1, <3>6, SameObs
    <3>8. HeldStep
      BY <1>0, <2>2, <3>1, <3>2, <3>3, <3>5, <3>7, WriteIsHeld
    <3> QED  BY <1>0, <3>3, <3>8, HeldStepHolds DEF HoldPlaces, EndedPlaces
  <2> QED  BY <2>1, <2>2
<1>4. CASE EntryReread
  BY <1>0, <1>4, DecideHolds DEF EntryReread
<1> QED  BY <1>1, <1>2, <1>3, <1>4

-----------------------------------------------------------------------------
(* The room of an order.                                                   *)
LEMMA RoomFacts ==
    ASSUME TypeInv, NEW o \in OrderIds, NEW k \in Nat, Filling(o, k)
    PROVE  /\ k > 0
           /\ o \in LegIds => k <= ord[o].qty - ord[o].filled - ord[Sibling(o)].filled
           /\ o \notin LegIds => k <= ord[o].qty - ord[o].filled
<1>1. o \in LegIds => ord[Sibling(o)].filled \in Nat
  BY IdTypes, OrderNumbers DEF OrderIds
<1>2. Room(o) \in Int
  BY <1>1, OrderNumbers DEF Room
<1>3. k \in 1..Room(o)
  BY DEF Filling
<1>4. k > 0 /\ k <= Room(o)
  BY <1>2, <1>3
<1>5. CASE o \in LegIds
  <2>1. ord[o].qty \in Nat /\ ord[o].filled \in Nat /\ ord[Sibling(o)].filled \in Nat
    BY <1>1, <1>5, OrderNumbers
  <2> QED  BY <1>4, <1>5, <2>1 DEF Room
<1>6. CASE o \notin LegIds
  <2>1. ord[o].qty \in Nat /\ ord[o].filled \in Nat
    BY OrderNumbers
  <2> QED  BY <1>4, <1>6, <2>1 DEF Room
<1> QED  BY <1>5, <1>6

(* A fill moves what is held and what the orders of the position leave by  *)
(* the same shares.                                                        *)
LEMMA FillingAccount ==
    ASSUME Invs, KnownOrders, Account, NEW o \in OrderIds, NEW k \in Nat, Filling(o, k),
           UNCHANGED saved
    PROVE  Account'
<1> PICK e : e = EntryOf(saved)
  OBVIOUS
<1> PICK s : s = StopOf(e)
  OBVIOUS
<1> PICK t : t = TargetOf(e)
  OBVIOUS
<1> PICK x0 : x0 = ExitId(saved, 0)
  OBVIOUS
<1> PICK x1 : x1 = ExitId(saved, 1)
  OBVIOUS
<1> PICK x2 : x2 = ExitId(saved, 2)
  OBVIOUS
<1>1. o \in OpenOrders /\ IsLive(ord[o])
  BY DEF Filling, OpenOrders
<1>2. saved.phase \in Watching /\ o \in Family(saved)
  BY <1>1, OpenInFamily
<1>3. /\ e \in EntryIds /\ {e, s, t, x0, x1, x2} \subseteq OrderIds /\ o \in {e, s, t, x0, x1, x2}
      /\ {s, t} \subseteq LegIds /\ {x0, x1, x2} \subseteq ExitIds
      /\ e \notin {s, t, x0, x1, x2} /\ s \notin {t, x0, x1, x2} /\ t \notin {x0, x1, x2}
      /\ x0 # x1 /\ x0 # x2 /\ x1 # x2
      /\ \A x \in {e, s, t, x0, x1, x2} : ord[x].filled \in Nat
  <2>1. saved \in Position /\ saved.phase # "none" /\ Numbered(saved) /\ TypeInv
    BY <1>2, SavedFacts DEF Invs, Watching
  <2>2. /\ e \in EntryIds /\ {e, s, t, x0, x1, x2} \subseteq OrderIds
        /\ {s, t} \subseteq LegIds /\ {x0, x1, x2} \subseteq ExitIds
    BY <2>1, FamilyIds
  <2>3. /\ x0 # x1 /\ x0 # x2 /\ x1 # x2 /\ s # t
        /\ \A x \in {e, s, t, x0, x1, x2} : ord[x].filled \in Nat
    BY <2>1, FamilyIds
  <2>4. o \in {e, s, t, x0, x1, x2}
    BY <1>2, <2>1, FamilyIds
  <2> QED  BY <2>2, <2>3, <2>4, IdsDiffer
<1>4. held = ord[e].filled - ord[s].filled - ord[t].filled - ord[x0].filled - ord[x1].filled - ord[x2].filled
  BY <1>2 DEF Account, Net, Watching
<1>5. \A x \in {e, s, t, x0, x1, x2} :
        ord'[x].filled = IF x = o THEN ord[x].filled + k ELSE ord[x].filled
  BY <1>3 DEF Filling
<1>6. held' = (IF o = e THEN held + k ELSE held - k) /\ held \in Nat /\ k > 0
  <2>1. o \in EntryIds <=> o = e
    BY <1>3, IdsDiffer
  <2>2. held \in Int /\ held >= 0
    BY DEF Account, Invs, TypeInv, TypeOK, BrokerTypeOK
  <2> QED  BY <2>1, <2>2, RoomFacts DEF Filling, Invs
<1>7. held' = ord'[e].filled - ord'[s].filled - ord'[t].filled
              - ord'[x0].filled - ord'[x1].filled - ord'[x2].filled
  <2>1. CASE o = e
    BY <1>3, <1>4, <1>5, <1>6, <2>1
  <2>2. CASE o = s
    BY <1>3, <1>4, <1>5, <1>6, <2>2
  <2>3. CASE o = t
    BY <1>3, <1>4, <1>5, <1>6, <2>3
  <2>4. CASE o = x0
    BY <1>3, <1>4, <1>5, <1>6, <2>4
  <2>5. CASE o = x1
    BY <1>3, <1>4, <1>5, <1>6, <2>5
  <2>6. CASE o = x2
    BY <1>3, <1>4, <1>5, <1>6, <2>6
  <2> QED  BY <1>3, <2>1, <2>2, <2>3, <2>4, <2>5, <2>6
<1>8. held' = Net(saved)'
  BY <1>7 DEF Net
<1>9. held' >= 0
  <2>1. CASE o = e
    BY <1>6, <2>1
  <2>2. CASE o \in {s, t}
    <3>1. k <= ord[o].qty - ord[o].filled - ord[Sibling(o)].filled /\ ord[e].st = "filled"
      BY <1>3, <2>2, RoomFacts, BracketIds DEF Filling, Invs
    <3>2. Bracket(e) /\ ord[o].st # "none"
      BY <1>1, <1>3 DEF Invs, BookInv, IsLive
    <3>3. ord[o].qty = Qty /\ ord[e].filled = Qty
      BY <2>2, <3>1, <3>2 DEF Bracket
    <3>4. k <= Qty - ord[s].filled - ord[t].filled
      <4>1. CASE o = s
        BY <1>3, <3>1, <3>3, <4>1, BracketIds DEF Invs
      <4>2. CASE o = t
        <5>1. k <= Qty - ord[t].filled - ord[s].filled
          BY <1>3, <3>1, <3>3, <4>2, BracketIds DEF Invs
        <5> QED  BY <1>3, <5>1, QtyFacts
      <4> QED  BY <2>2, <4>1, <4>2
    <3>5. \A x \in ExitIds : ~Exists(x)
      BY <1>1, <1>3, <2>2 DEF KnownOrders
    <3>6. ord[x0].filled = 0 /\ ord[x1].filled = 0 /\ ord[x2].filled = 0
      BY <1>3, <3>5 DEF Invs, BookInv, Exists
    <3>7. k <= held
      BY <1>3, <1>4, <3>3, <3>4, <3>6, QtyFacts
    <3> QED  BY <1>3, <1>6, <2>2, <3>7
  <2>3. CASE o \in {x0, x1, x2}
    <3>1. ord[o].qty - ord[o].filled = held
      BY <1>1, <1>3, <2>3 DEF Account
    <3>2. k <= held
      BY <1>3, <2>3, <3>1, RoomFacts, IdsDiffer DEF Invs
    <3> QED  BY <1>3, <1>6, <2>3, <3>2
  <2> QED  BY <1>3, <2>1, <2>2, <2>3
<1>10. \A x \in ExitIds \cap OpenOrders' : ord'[x].qty - ord'[x].filled = held'
  <2> SUFFICES ASSUME NEW x \in ExitIds \cap OpenOrders'
               PROVE  ord'[x].qty - ord'[x].filled = held'
    OBVIOUS
  <2>1. x \in OpenOrders /\ x \in OrderIds
    BY SettlingShrinks DEF Filling, OrderIds
  <2>2. x = o
    BY <1>1, <2>1 DEF Invs, AloneInv, ExitWorksAlone
  <2>3. ord[o].qty - ord[o].filled = held /\ o # e
    BY <1>3, <2>1, <2>2, IdsDiffer DEF Account
  <2>4. ord'[o].qty = ord[o].qty /\ ord'[o].filled = ord[o].filled + k
    BY DEF Filling
  <2> QED  BY <1>6, <2>2, <2>3, <2>4, OrderNumbers DEF Invs
<1> QED  BY <1>2, <1>8, <1>9, <1>10 DEF Account, Watching

(* Fills only grow.                                                        *)
LEMMA FillsGrow ==
    ASSUME TypeInv, Still \/ \E o \in OrderIds, k \in Nat : Filling(o, k)
    PROVE  /\ Settling /\ Frozen
           /\ \A x \in OrderIds : ord'[x].filled >= ord[x].filled
<1>1. CASE Still
  BY <1>1, OrderNumbers DEF Still
<1>2. ASSUME NEW o \in OrderIds, NEW k \in Nat, Filling(o, k)
      PROVE  Settling /\ Frozen /\ \A x \in OrderIds : ord'[x].filled >= ord[x].filled
  BY <1>2, OrderNumbers DEF Filling
<1> QED  BY <1>1, <1>2

(* A fill of an order of p leaves what was observed of p within bounds.    *)
LEMMA FillingObs ==
    ASSUME TypeInv, NEW p \in Position, ObsBounded(p), NEW o \in OrderIds, NEW k \in Nat, Filling(o, k),
           o \in Family(p)
    PROVE  \A x \in OrderIds : /\ p.obs[x] <= ord'[x].filled
                               /\ x \notin Family(p) => p.obs[x] = ord'[x].filled
<1>1. \A x \in OrderIds : p.obs[x] \in Nat /\ ord[x].filled \in Nat
  BY OrderNumbers, QtyFacts DEF Position
<1> QED  BY <1>1 DEF Filling, ObsBounded

(* When the legs have sold the entry, no fill can come.                    *)
LEMMA SoldOutIsFinal ==
    ASSUME Invs, HoldInv, pc = "flatCancel", NEW o \in OrderIds, NEW k \in Nat, Filling(o, k)
    PROVE  FALSE
<1> PICK e : e = EntryOf(mem)
  OBVIOUS
<1> PICK s : s = StopOf(e)
  OBVIOUS
<1> PICK t : t = TargetOf(e)
  OBVIOUS
<1>1. mem.phase = "active" /\ EntryOf(saved) = e /\ e \in EntryIds /\ Bracket(e)
  <2>1. mem.phase = "active"
    BY DEF Invs, PlaceInv, PhaseAt, PhaseFits, ActivePlaces
  <2> QED  BY <2>1, SavedFacts, SameIdsSame DEF SameIds, Invs, BookInv
<1>2. e \in OrderIds /\ s \in OrderIds /\ t \in OrderIds /\ s \in LegIds /\ t \in LegIds
      /\ Sibling(s) = t /\ Sibling(t) = s
  BY <1>1, BracketIds DEF Invs
<1>3. ord[e].filled \in Nat /\ ord[s].filled \in Nat /\ ord[t].filled \in Nat
  BY <1>2, OrderNumbers DEF Invs
<1>4. ord[s].filled + ord[t].filled > 0
  <2>1. snapA.filled + snapB.filled > 0 /\ snapA.filled <= ord[s].filled /\ snapB.filled <= ord[t].filled
    BY <1>3 DEF HoldInv, Reading
  <2>2. snapA.filled \in Nat /\ snapB.filled \in Nat
    BY QtyFacts DEF Invs, TypeInv, TypeOK, Order
  <2> QED  BY <1>3, <2>1, <2>2
<1>5. ord[e].st = "filled" /\ ord[e].filled = Qty /\ ord[s].filled + ord[t].filled <= Qty
  BY <1>1, <1>4 DEF Bracket
<1>6. ord[s].filled + ord[t].filled = Qty
  <2>1. snapA.filled + snapB.filled = Qty /\ snapA.filled <= ord[s].filled /\ snapB.filled <= ord[t].filled
    BY <1>5 DEF HoldInv, Reading
  <2>2. snapA.filled \in Nat /\ snapB.filled \in Nat
    BY QtyFacts DEF Invs, TypeInv, TypeOK, Order
  <2> QED  BY <1>3, <1>5, <2>1, <2>2, QtyFacts
<1>7. o \in Family(saved) /\ IsLive(ord[o]) /\ saved \in Position /\ saved.phase # "none" /\ Numbered(saved)
  <2>1. o \in OpenOrders /\ IsLive(ord[o])
    BY DEF Filling, OpenOrders
  <2> QED  BY <2>1, OpenInFamily, SavedFacts DEF HoldInv, Watching
<1>8. o \in {s, t}
  <2>1. \A x \in ExitIds : ~Exists(x)
    BY <1>1, NoExitYet DEF HoldInv
  <2>2. o # e /\ o \notin ExitIds
    BY <1>5, <1>7, <2>1 DEF IsLive, Terminal, Exists
  <2>3. o \in {e, s, t} \/ o \in ExitIds
    BY <1>1, <1>7, FamilyIds DEF Invs
  <2> QED  BY <2>2, <2>3
<1>9. ord[o].qty = Qty
  BY <1>1, <1>7, <1>8 DEF Bracket, IsLive
<1>10. k > 0 /\ k <= Qty - ord[o].filled - ord[Sibling(o)].filled
  BY <1>2, <1>8, <1>9, RoomFacts DEF Invs
<1> QED  BY <1>2, <1>3, <1>6, <1>8, <1>10, QtyFacts

(* Where nothing is open, no fill can come.                                *)
LEMMA NothingFills ==
    ASSUME Invs, HoldInv, NEW o \in OrderIds, NEW k \in Nat, Filling(o, k)
    PROVE  /\ pc \notin {"ePost", "eAbort", "flatCancel", "xQuantity", "xSave", "xPost"}
           /\ ~(pc = "xRefresh" /\ vis = {})
<1>1. o \in OpenOrders
  BY DEF Filling, OpenOrders
<1>2. pc \notin {"ePost", "eAbort"}
  BY <1>1 DEF Invs, AloneInv, CleanBetween, Clean
<1>3. pc \notin {"xQuantity", "xSave", "xPost"} /\ ~(pc = "xRefresh" /\ vis = {})
  BY <1>1 DEF HoldInv, Closing
<1> QED  BY <1>2, <1>3, SoldOutIsFinal

(* The state an entry would go back to stays what it is.                   *)
LEMMA PriorStays ==
    ASSUME Invs, Settling, Frozen, NEW p \in Position, Numbered(p), p.phase \in {"none", "stopped"},
           p.phase = "none" => p.attempt = 0 /\ NoOrders,
           p.phase = "stopped" => p.attempt = 1 /\ StoppedOut(EntryOf(p)),
           \A e \in EntryIds : Exists(e) => e = EntryOf(p)
    PROVE  /\ p.phase = "none" => p.attempt = 0 /\ \A o \in OrderIds : ~Exists(o)'
           /\ p.phase = "stopped" => p.attempt = 1 /\ StoppedOut(EntryOf(p))'
           /\ \A e \in EntryIds : Exists(e)' => e = EntryOf(p)
<1>1. \A o \in OrderIds : Exists(o)' <=> Exists(o)
  BY SettlingShrinks
<1>2. p.phase = "stopped" => StoppedOut(EntryOf(p))'
  <2> PICK e : e = EntryOf(p)
    OBVIOUS
  <2>1. p.phase = "stopped" => e \in EntryIds
    BY MemIds DEF Invs, TypeInv, TypeOK
  <2> QED  BY <2>1, StoppedOutStays DEF Invs
<1> QED  BY <1>1, <1>2 DEF NoOrders, OrderIds

(* The monitor waits while the venue moves.                                *)
LEMMA WaitHolds ==
    ASSUME Invs, HoldInv, Still \/ \E o \in OrderIds, k \in Nat : Filling(o, k),
           UNCHANGED <<saved, mem, pc, attempts, prior, snapA, snapB, vis, req>>
    PROVE  HoldInv'
<1>0. KnownOrders /\ Account /\ Observed /\ EntryPlan /\ Reading /\ Closing
  BY DEF HoldInv
<1>1. /\ Settling /\ Frozen /\ OpenOrders' \subseteq OpenOrders
      /\ \A o \in OrderIds : Exists(o)' <=> Exists(o)
      /\ \A x \in OrderIds : ord'[x].filled >= ord[x].filled
  BY FillsGrow, SettlingShrinks DEF Invs
<1>2. /\ PreviousId' = PreviousId /\ Unresolved' = Unresolved
      /\ \A p \in Position : EntryOf(p)' = EntryOf(p)
  BY DEF PreviousId, Unresolved, ExitId, EntryOf
<1>3. ~Still => /\ pc \notin {"ePost", "eAbort", "flatCancel", "xQuantity", "xSave", "xPost"}
                /\ ~(pc = "xRefresh" /\ vis = {})
  BY NothingFills
<1>4. Still => /\ held' = held /\ \A x \in OrderIds : ord'[x].filled = ord[x].filled
  BY DEF Still
<1>5. KnownOrders' /\ Account' /\ Observed'
  <2>1. CASE Still
    <3>1. HeldStep
      BY <1>0 DEF HeldStep, Observed, EntryPlan
    <3>2. KnownOrders' /\ Account'
      BY <1>0, <1>1, <2>1, KnownStays, AccountStays DEF SameIds
    <3>3. Observed'
      BY <1>0, <1>4, <2>1 DEF Observed, ObsBounded, ObsExact, Family, EntryOf, ExitId
    <3> QED  BY <3>2, <3>3
  <2>2. ASSUME NEW o \in OrderIds, NEW k \in Nat, Filling(o, k)
        PROVE  KnownOrders' /\ Account' /\ Observed'
    <3>1. KnownOrders' /\ Account'
      BY <1>0, <1>1, <2>2, KnownStays, FillingAccount DEF SameIds
    <3>2. saved.phase \in Watching /\ o \in Family(saved)
      <4>1. o \in OpenOrders
        BY <2>2 DEF Filling, OpenOrders
      <4> QED  BY <1>0, <4>1, OpenInFamily
    <3>3. mem.phase # "none" => Family(mem) = Family(saved)
      BY SavedFacts, SameIdsSame DEF SameIds, Family
    <3>4. Observed'
      <4>1. \A x \in OrderIds : /\ saved.obs[x] <= ord'[x].filled
                                /\ x \notin Family(saved) => saved.obs[x] = ord'[x].filled
        BY <1>0, <2>2, <3>2, SavedFacts, FillingObs DEF Observed, Watching, Invs
      <4>2. mem.phase # "none" =>
             \A x \in OrderIds : /\ mem.obs[x] <= ord'[x].filled
                                 /\ x \notin Family(mem) => mem.obs[x] = ord'[x].filled
        BY <1>0, <2>2, <3>2, <3>3, SavedFacts, FillingObs DEF Observed, Invs
      <4> QED  BY <3>2, <4>1, <4>2 DEF Observed, ObsBounded, Family, EntryOf, ExitId, Watching
    <3> QED  BY <3>1, <3>4
  <2> QED  BY <2>1, <2>2
<1>6. EntryPlan'
  <2>1. pc \in {"gonePosition", "goneOrders"} => ~Exists(EntryOf(mem))'
    <3>1. pc \in {"gonePosition", "goneOrders"} => EntryOf(mem) \in OrderIds
      BY SavedFacts, MemIds DEF Invs, PlaceInv, PhaseAt, PhaseFits, EntryPlaces, TypeInv, TypeOK
    <3> QED  BY <1>0, <1>1, <3>1 DEF EntryPlan, Exists, EntryOf
  <2>2. ASSUME pc \in {"ePost", "eAbort"}
        PROVE  /\ ObsExact(prior)' /\ prior.attempt + 1 = saved.attempt /\ held' = 0
               /\ \A e \in EntryIds : Exists(e)' => e = EntryOf(prior)
               /\ prior.phase = "none" => prior.attempt = 0 /\ \A o \in OrderIds : ~Exists(o)'
               /\ prior.phase = "stopped" => prior.attempt = 1 /\ StoppedOut(EntryOf(prior))'
               /\ prior.phase \in {"none", "stopped"}
    <3>1. /\ ObsExact(prior) /\ prior.attempt + 1 = saved.attempt /\ held = 0
          /\ \A e \in EntryIds : Exists(e) => e = EntryOf(prior)
          /\ prior.phase = "none" => prior.attempt = 0 /\ NoOrders
          /\ prior.phase = "stopped" => prior.attempt = 1 /\ StoppedOut(EntryOf(prior))
      BY <1>0, <2>2 DEF EntryPlan
    <3>2. prior \in Position /\ Numbered(prior) /\ prior.phase \in {"none", "stopped"}
      BY <2>2 DEF Invs, PlaceInv, PutAway, TypeInv, TypeOK
    <3>3. Still
      BY <1>3, <2>2
    <3>4. ObsExact(prior)' /\ held' = 0
      BY <1>4, <3>1, <3>3 DEF ObsExact
    <3> PICK p : p = prior
      OBVIOUS
    <3>5. /\ p.phase = "none" => p.attempt = 0 /\ \A o \in OrderIds : ~Exists(o)'
          /\ p.phase = "stopped" => p.attempt = 1 /\ StoppedOut(EntryOf(p))'
          /\ \A e \in EntryIds : Exists(e)' => e = EntryOf(p)
      BY <1>1, <3>1, <3>2, PriorStays
    <3>6. StoppedOut(EntryOf(p))' => StoppedOut(EntryOf(prior))'
      BY DEF StoppedOut, EntryOf, Exists
    <3> QED  BY <3>1, <3>2, <3>4, <3>5, <3>6
  <2>3. EntryOf(prior)' = EntryOf(prior) /\ EntryOf(mem)' = EntryOf(mem)
    BY DEF EntryOf
  <2>4. pc' # "down" => attempts' = saved'.attempt
    BY <1>0 DEF EntryPlan
  <2> QED  BY <2>1, <2>2, <2>3, <2>4 DEF EntryPlan, NoOrders, Exists
<1>7. Reading'
  <2>1. pc \in ActivePlaces => /\ EntryOf(mem) \in OrderIds /\ StopOf(EntryOf(mem)) \in OrderIds
                               /\ TargetOf(EntryOf(mem)) \in OrderIds
    BY SavedFacts, MemIds DEF Invs, PlaceInv, PhaseAt, PhaseFits, ActivePlaces, TypeInv, TypeOK
  <2>2. snapA.filled \in Nat /\ snapB.filled \in Nat
    BY QtyFacts DEF Invs, TypeInv, TypeOK, Order
  <2>3. EntryOf(mem)' = EntryOf(mem)
    BY DEF EntryOf
  <2>4. /\ pc \in {"target", "holding", "flatEntry", "flatCancel"} =>
              snapA.filled <= ord'[StopOf(EntryOf(mem))].filled
        /\ pc \in {"holding", "flatEntry", "flatCancel"} =>
              snapB.filled <= ord'[TargetOf(EntryOf(mem))].filled
    <3>1. \A x \in OrderIds : ord[x].filled \in Nat /\ ord'[x].filled \in Int
      <4>1. \A x \in OrderIds : ord[x].filled \in Nat
        BY OrderNumbers DEF Invs
      <4> QED  BY <4>1 DEF Still, Filling
    <3> QED  BY <1>0, <1>1, <2>1, <2>2, <3>1 DEF Reading, ActivePlaces
  <2>5. pc = "flatCancel" =>
          /\ snapA.filled + snapB.filled = ord'[EntryOf(mem)].filled /\ ord'[EntryOf(mem)].filled > 0
          /\ ObsExact(mem)'
    <3>1. pc = "flatCancel" => Still
      BY <1>3
    <3> QED  BY <1>0, <1>4, <2>1, <3>1 DEF Reading, ObsExact, ActivePlaces
  <2>6. pc \in EndedPlaces \cup {"xVisible"} =>
          /\ snapA.st # "none" => snapA.filled <= ord'[PreviousId].filled
          /\ Unresolved => ~Exists(PreviousId)'
    <3>1. pc \in EndedPlaces \cup {"xVisible"} => PreviousId \in OrderIds
      BY PreviousIsExit DEF Invs, PlaceInv, PhaseAt, PhaseFits, EndedPlaces, ReadPlaces, SendPlaces, Watching
    <3>2. \A x \in OrderIds : ord[x].filled \in Nat /\ ord'[x].filled \in Int
      <4>1. \A x \in OrderIds : ord[x].filled \in Nat
        BY OrderNumbers DEF Invs
      <4> QED  BY <4>1 DEF Still, Filling
    <3>3. pc \in EndedPlaces \cup {"xVisible"} => (Exists(PreviousId)' <=> Exists(PreviousId))
      BY <1>1, <1>2, <3>1 DEF Exists
    <3> QED  BY <1>0, <1>1, <2>2, <3>1, <3>2, <3>3 DEF Reading
  <2> QED  BY <1>2, <2>3, <2>4, <2>5, <2>6 DEF Reading, Exists
<1>8. Closing'
  <2>1. pc \in {"xSave", "xPost"} =>
          /\ pc = "xSave" => ExitId(mem, req.n) \in OrderIds
          /\ pc = "xPost" => ExitId(mem, mem.exit) \in OrderIds
    BY SavedFacts, MemIds DEF Invs, PlaceInv, PhaseAt, PhaseFits, SendPlaces, TypeInv, TypeOK
  <2>2. /\ pc = "xSave" => ~Exists(ExitId(mem, req.n))'
        /\ pc = "xPost" => ~Exists(ExitId(mem, mem.exit))'
    BY <1>0, <1>1, <2>1 DEF Closing, Exists, ExitId
  <2>3. pc \in {"xQuantity", "xSave", "xPost"} => held' = held /\ ObsExact(mem)'
    BY <1>0, <1>3, <1>4 DEF Closing, ObsExact
  <2> QED  BY <1>0, <1>1, <2>2, <2>3 DEF Closing, ExitId, Exists
<1> QED  BY <1>5, <1>6, <1>7, <1>8 DEF HoldInv

-----------------------------------------------------------------------------
(* Reading the bracket of an active position.                              *)
LEMMA BracketReadHolds ==
    ASSUME Invs, HoldInv, ActiveStop \/ ActiveTarget \/ (ActiveHolding /\ pc' = "flatEntry")
    PROVE  HoldInv'
<1> PICK e : e = EntryOf(mem)
  OBVIOUS
<1>0. /\ mem \in Position /\ mem.phase = "active" /\ pc # "down" /\ Still /\ UNCHANGED ord
      /\ ObsBounded(mem) /\ e \in EntryIds
      /\ StopOf(e) \in OrderIds /\ TargetOf(e) \in OrderIds
  <2>1. mem.phase = "active" /\ pc # "down" /\ UNCHANGED ord
    BY DEF Invs, PlaceInv, PhaseAt, PhaseFits, ActivePlaces, ActiveStop, ActiveTarget, ActiveHolding, brokerVars
  <2>2. Still
    BY MonitorIsStill DEF MonitorReads, Reconcile, Invs
  <2> QED  BY <2>1, <2>2, SavedFacts, MemIds DEF HoldInv, Observed, Invs, TypeInv, TypeOK
<1>1. CASE ActiveStop
  <2>1. UNCHANGED <<saved, mem, attempts>> /\ pc' = "target" /\ snapA' = ord[StopOf(e)]
    BY <1>1 DEF ActiveStop, Goto, Locals, storeVars
  <2>2. HeldStep
    BY <1>0, <2>1, NothingIsHeld
  <2>3. ord[StopOf(e)].filled \in Nat
    BY <1>0, OrderNumbers DEF Invs
  <2>4. EntryPlan' /\ Reading' /\ Closing'
    BY <1>0, <2>1, <2>2, <2>3 DEF HeldStep, EntryPlan, Reading, Closing, EndedPlaces, EntryOf
  <2> QED  BY <1>0, <2>2, <2>4, HeldStepHolds
<1>2. CASE ActiveTarget
  <2> PICK p : p = Remember(mem, LegsOf(mem))
    OBVIOUS
  <2>1. p \in Position /\ SameLife(mem, p) /\ ObsBounded(p)
    BY <1>0, RememberLife, RememberType, RememberObs DEF SameTrade, Invs, TypeInv, TypeOK
  <2>2. /\ saved' = p /\ mem' = p /\ pc = "target" /\ pc' = "holding" /\ UNCHANGED <<attempts, outcome, snapA>>
        /\ snapB' = ord[TargetOf(e)]
    BY <1>2 DEF ActiveTarget, Save, Goto
  <2>3. HeldStep
    BY <1>0, <2>1, <2>2, WriteIsHeld DEF SameLife, Watching, Writes
  <2>4. EntryOf(p) = e
    BY <2>1, SameIdsSame DEF SameLife
  <2>5. ord[TargetOf(e)].filled \in Nat /\ snapA.filled <= ord[StopOf(e)].filled
    BY <1>0, <2>2, OrderNumbers DEF Invs, HoldInv, Reading
  <2>6. EntryOf(mem)' = e
    BY <2>2, <2>4
  <2>7. EntryPlan' /\ Reading' /\ Closing'
    BY <1>0, <2>2, <2>3, <2>5, <2>6 DEF HeldStep, EntryPlan, Reading, Closing, EndedPlaces
  <2> QED  BY <1>0, <2>3, <2>7, HeldStepHolds
<1>3. CASE ActiveHolding /\ pc' = "flatEntry"
  <2>1. UNCHANGED <<saved, mem, attempts, snapA, snapB>> /\ pc = "holding" /\ pc' = "flatEntry"
    BY <1>3 DEF ActiveHolding, Goto, Raise, Finish, CloseNow, localVars
  <2>2. HeldStep
    BY <1>0, <2>1, NothingIsHeld
  <2>3. EntryPlan' /\ Reading' /\ Closing'
    BY <1>0, <2>1, <2>2 DEF HeldStep, EntryPlan, HoldInv, Reading, Closing, EndedPlaces, EntryOf
  <2> QED  BY <1>0, <2>2, <2>3, HeldStepHolds
<1> QED  BY <1>1, <1>2, <1>3

(* What is made of them, and the end of a position its bracket has sold.   *)
LEMMA ActiveHolds ==
    ASSUME Invs, HoldInv, (ActiveHolding /\ pc' # "flatEntry") \/ FlatEntry \/ FlatOrders
    PROVE  HoldInv'
<1> PICK e : e = EntryOf(mem)
  OBVIOUS
<1>0. /\ mem \in Position /\ mem.phase = "active" /\ pc # "down" /\ Still /\ UNCHANGED <<ord, seen>>
      /\ ObsBounded(mem) /\ e \in EntryIds /\ e \in OrderIds
      /\ StopOf(e) \in OrderIds /\ TargetOf(e) \in OrderIds
      /\ KnownOrders /\ Account /\ Reading
  <2>1. mem.phase = "active" /\ pc # "down" /\ UNCHANGED <<ord, seen>>
    BY DEF Invs, PlaceInv, PhaseAt, PhaseFits, ActivePlaces, ActiveHolding, FlatEntry, FlatOrders, brokerVars
  <2>2. Still
    BY MonitorIsStill DEF MonitorReads, Reconcile, Invs
  <2> QED  BY <2>1, <2>2, SavedFacts, MemIds DEF HoldInv, Observed, Invs, TypeInv, TypeOK
<1>1. CASE ActiveHolding /\ pc' # "flatEntry"
  <2> PICK p : p = [mem EXCEPT !.shares = seen]
    OBVIOUS
  <2>1. SameIds(mem, p) /\ p.obs = mem.obs /\ p.phase = "active"
    BY <1>0 DEF Position, SameIds
  <2>2. CASE Raise("owned") /\ UNCHANGED <<saved, mem, outcome>>
    <3>1. UNCHANGED <<saved, mem, attempts>> /\ pc' = "tick"
      BY <1>1, <2>2 DEF ActiveHolding, Raise
    <3>2. HeldStep
      BY <1>0, <3>1, NothingIsHeld
    <3> QED  BY <1>0, <3>1, <3>2, HeldStepHolds DEF HoldPlaces, EndedPlaces
  <2>3. CASE seen \in 1..mem.shares /\ saved' = p /\ (Finish(p) \/ (mem' = p /\ CloseNow /\ UNCHANGED outcome))
    <3>1. p \in Position
      BY <1>0, <2>3, QtyFacts DEF Position
    <3>2. Writes(p) /\ pc' \in {"minute", "close"}
      BY <2>3, <3>1, FinishWrites DEF Writes, CloseNow, Goto
    <3>3. ObsBounded(p)
      BY <1>0, <2>1, SameObs
    <3>4. HeldStep
      BY <1>0, <1>1, <2>1, <3>1, <3>2, <3>3, WriteIsHeld DEF Watching, ActiveHolding
    <3> QED  BY <1>0, <3>2, <3>4, HeldStepHolds DEF HoldPlaces, EndedPlaces
  <2> QED  BY <1>1, <2>2, <2>3 DEF ActiveHolding, Goto, Save
<1>2. CASE FlatEntry
  <2> PICK p : p = Remember(mem, OrderTree(e))
    OBVIOUS
  <2>1. p \in Position /\ SameLife(mem, p) /\ ObsBounded(p) /\ ObsExact(p)
    BY <1>0, RememberLife, RememberType, RememberObs, TreeObs DEF SameTrade, Invs, TypeInv, TypeOK
  <2>2. saved' = p /\ mem' = p /\ pc = "flatEntry" /\ UNCHANGED <<attempts, outcome>>
    BY <1>2 DEF FlatEntry, Save
  <2>3. HeldStep
    BY <1>0, <2>1, <2>2, WriteIsHeld DEF SameLife, Watching, Writes
  <2>4. CASE pc' = "tick"
    BY <1>0, <2>3, <2>4, HeldStepHolds DEF HoldPlaces, EndedPlaces
  <2>5. CASE pc' # "tick"
    <3>1. /\ pc' = "flatCancel" /\ UNCHANGED <<snapA, snapB>>
          /\ ord[e].filled # 0 /\ snapA.filled + snapB.filled = ord[e].filled
      BY <1>2, <2>5 DEF FlatEntry, Goto, Raise
    <3>2. EntryOf(mem)' = e
      BY <2>1, <2>2, SameIdsSame DEF SameLife
    <3>3. ord[e].filled > 0
      BY <1>0, <3>1, OrderNumbers DEF Invs
    <3>4. ObsExact(mem)'
      BY <1>0, <2>1, <2>2 DEF ObsExact
    <3>5. snapA.filled <= ord[StopOf(e)].filled /\ snapB.filled <= ord[TargetOf(e)].filled
      BY <1>0, <2>2 DEF Reading
    <3>6. EntryPlan' /\ Closing'
      BY <2>3, <3>1 DEF HeldStep, EntryPlan, Closing
    <3>7. Reading'
      BY <1>0, <3>1, <3>2, <3>3, <3>4, <3>5 DEF Reading, EndedPlaces
    <3> QED  BY <1>0, <2>3, <3>6, <3>7, HeldStepHolds
  <2> QED  BY <2>4, <2>5
<1>3. CASE FlatOrders
  <2>1. pc = "flatCancel" /\ UNCHANGED attempts
    BY <1>3 DEF FlatOrders
  <2>2. CASE OpenOrders # {}
    <3>1. saved' = mem /\ Finish(mem)
      BY <1>3, <2>2 DEF FlatOrders
    <3>2. Writes(mem) /\ pc' = "minute"
      BY <1>0, <3>1, FinishWrites
    <3>3. HeldStep
      BY <1>0, <2>1, <3>2, WriteIsHeld DEF Watching, SameIds
    <3> QED  BY <1>0, <3>2, <3>3, HeldStepHolds DEF HoldPlaces, EndedPlaces
  <2>3. CASE OpenOrders = {}
    <3> PICK q : q = [mem EXCEPT !.phase = FlatPhase]
      OBVIOUS
    <3>1. q \in Position /\ SameIds(mem, q) /\ q.obs = mem.obs /\ q.phase = FlatPhase
          /\ FlatPhase \in {"complete", "stopped"}
      BY <1>0 DEF Position, Phases, SameIds, FlatPhase
    <3>2. saved' = q /\ Finish(q)
      BY <1>3, <2>3 DEF FlatOrders
    <3>3. Writes(q) /\ pc' = "minute"
      BY <3>1, <3>2, FinishWrites
    <3>4. /\ snapA.filled <= ord[StopOf(e)].filled /\ snapB.filled <= ord[TargetOf(e)].filled
          /\ snapA.filled + snapB.filled = ord[e].filled /\ ord[e].filled > 0
          /\ ObsExact(mem)
      BY <1>0, <2>1 DEF Reading
    <3>5. /\ ord[e].filled \in Nat /\ ord[StopOf(e)].filled \in Nat /\ ord[TargetOf(e)].filled \in Nat
          /\ snapA.filled \in Nat /\ snapB.filled \in Nat
      BY <1>0, OrderNumbers, QtyFacts DEF Invs, TypeInv, TypeOK, Order
    <3>6. ord[StopOf(e)].filled + ord[TargetOf(e)].filled = ord[e].filled
      <4>1. Bracket(e)
        BY <1>0 DEF Invs, BookInv
      <4>2. ord[e].filled = Qty /\ ord[StopOf(e)].filled + ord[TargetOf(e)].filled <= Qty
        BY <3>4, <3>5, <4>1 DEF Bracket
      <4> QED  BY <3>4, <3>5, <4>2, QtyFacts
    <3>7. held = 0
      <4>1. held = ord[e].filled - ord[StopOf(e)].filled - ord[TargetOf(e)].filled
        BY <1>0, HeldByBracket
      <4> QED  BY <3>5, <3>6, <4>1
    <3>8. FlatPhase = "stopped" => mem.attempt = 1 /\ StoppedOut(e)
      <4>1. FlatPhase = "stopped" => mem.attempt = 1 /\ ord[StopOf(e)].filled > 0
        BY <3>4, <3>5 DEF FlatPhase
      <4>2. ~IsLive(ord[e]) /\ ~IsLive(ord[StopOf(e)]) /\ ~IsLive(ord[TargetOf(e)])
        BY <1>0, <2>3 DEF OpenOrders
      <4>3. Exists(e)
        BY <1>0, <3>4 DEF Invs, BookInv, Exists
      <4> QED  BY <3>6, <4>1, <4>2, <4>3 DEF StoppedOut
    <3>9. ObsExact(q) /\ ObsBounded(q)
      BY <1>0, <3>1, <3>4, SameObs
    <3>10. HeldStep
      BY <1>0, <2>1, <2>3, <3>1, <3>3, <3>7, <3>8, <3>9, WriteIsHeld
    <3> QED  BY <1>0, <3>3, <3>10, HeldStepHolds DEF HoldPlaces, EndedPlaces
  <2> QED  BY <2>2, <2>3
<1> QED  BY <1>1, <1>2, <1>3

-----------------------------------------------------------------------------
(* The venue, the clock and a cancel leave the monitor where it is.        *)
LEMMA OutsideHolds ==
    ASSUME Invs, HoldInv, Prompt, Venue \/ AdvanceClock \/ UNCHANGED vars
    PROVE  HoldInv'
<1>1. UNCHANGED <<saved, mem, pc, attempts, prior, snapA, snapB, vis, req>>
  BY DEF Venue, AdvanceClock, vars, storeVars, monitorVars, localVars
<1>2. Still \/ \E o \in OrderIds, k \in Nat : Filling(o, k)
  <2>1. CASE Venue \/ AdvanceClock
    <3>1. [Next]_vars
      BY <2>1 DEF Next
    <3>2. ~ExitPost /\ ~EntryPost
      BY <1>1 DEF ExitPost, EntryPost, SubmitIdempotent, PostLost, Goto, Raise
    <3> QED  BY <3>1, <3>2, StepOfVenue DEF Invs
  <2>2. CASE UNCHANGED vars
    BY <2>2, SameVenueIsStill DEF vars, brokerVars
  <2> QED  BY <2>1, <2>2
<1> QED  BY <1>1, <1>2, WaitHolds

(* One more cancel is requested, or the request fails.                     *)
LEMMA CancelHolds ==
    ASSUME Invs, HoldInv, FlatCancel \/ ExitCancel
    PROVE  HoldInv'
<1>1. PICK o \in todo : CancelOne(o)
  BY DEF FlatCancel, ExitCancel
<1>2. Still
  BY MonitorIsStill DEF MonitorReads, Reconcile, Invs
<1>3. UNCHANGED <<saved, mem, attempts>> /\ pc # "down"
  BY <1>1 DEF CancelOne, storeVars, FlatCancel, ExitCancel
<1>4. CASE UNCHANGED <<pc, prior, snapA, snapB, vis, req>>
  BY <1>2, <1>3, <1>4, WaitHolds
<1>5. CASE pc' = "tick"
  <2>1. HeldStep
    BY <1>3, NothingIsHeld
  <2> QED  BY <1>2, <1>5, <2>1, HeldStepHolds DEF HoldPlaces, EndedPlaces
<1> QED  BY <1>1, <1>4, <1>5 DEF CancelOne, Raise

-----------------------------------------------------------------------------
(* Where an exit is being prepared, three parts are enough.                *)
LEMMA ExitStepHolds ==
    ASSUME Invs, HoldInv, Still, HeldStep, pc' \in {"xVisible", "xSave", "xPost"} \cup EndedPlaces,
           Reading', Closing'
    PROVE  HoldInv'
<1>1. EntryPlan'
  BY DEF HeldStep, EntryPlan, EndedPlaces
<1> QED  BY <1>1, HeldStepHolds

(* A return of request_position_exit observes at most what there is.       *)
LEMMA SaveReturnObs ==
    ASSUME TypeInv, TypeInv', NEW p \in Position, ObsBounded(p), NEW x, NEW o, SaveReturn(p, x, o),
           x.st # "none" => o \in OrderIds /\ o \in Family(p) /\ x.filled \in Nat /\ x.filled <= ord[o].filled
    PROVE  \E q \in Position : /\ SameLife(p, q) /\ Writes(q) /\ pc' \in {"tick", "minute"}
                               /\ ObsBounded(q) /\ (ObsExact(p) => ObsExact(q))
<1>1. PICK q : /\ q = IF via = "minute" \/ x.st = "none" \/ x.filled <= p.obs[o] THEN p
                      ELSE [p EXCEPT !.obs[o] = x.filled]
               /\ saved' = q
               /\ IF via = "minute"
                  THEN Goto("tick") /\ ClearLocals /\ mem' = q /\ UNCHANGED <<row, outcome>>
                  ELSE Finish(q) /\ Attach(IF x.st = "none" THEN {} ELSE {o})
  BY DEF SaveReturn
<1>2. q \in Position
  BY <1>1 DEF TypeInv, TypeOK
<1>3. SameLife(p, q)
  BY <1>1 DEF SameLife, SameIds, Position
<1>4. Writes(q) /\ pc' \in {"tick", "minute"}
  BY <1>1, <1>2, FinishWrites DEF Writes, Goto
<1>5. ObsBounded(q) /\ (ObsExact(p) => ObsExact(q))
  <2>1. CASE q = p
    BY <2>1
  <2>2. CASE x.st # "none" /\ ~(x.filled <= p.obs[o]) /\ q = [p EXCEPT !.obs[o] = x.filled]
    <3>1. \A z \in OrderIds : q.obs[z] = IF z = o THEN x.filled ELSE p.obs[z]
      BY <2>2 DEF Position
    <3>2. Family(q) = Family(p)
      BY <1>3, SameIdsSame DEF SameLife, SameIds, Family
    <3>3. p.obs[o] # ord[o].filled
      BY <2>2
    <3> QED  BY <2>2, <3>1, <3>2, <3>3 DEF ObsBounded, ObsExact
  <2> QED  BY <1>1, <2>1, <2>2
<1> QED  BY <1>2, <1>3, <1>4, <1>5

(* request_position_exit reads the previous exit and the open orders.      *)
LEMMA ExitReadHolds ==
    ASSUME Invs, HoldInv, Prompt, ExitPrevious \/ ExitEntry \/ ExitBefore \/ ExitRemaining
    PROVE  HoldInv'
<1>0. /\ mem.phase # "none" /\ pc # "down" /\ Still /\ UNCHANGED <<saved, mem, attempts, ord>>
      /\ HeldStep /\ Reading
  <2>1. mem.phase # "none" /\ pc # "down"
    BY DEF Invs, PlaceInv, PhaseAt, PhaseFits, ReadPlaces, Watching, ExitPrevious, ExitEntry, ExitBefore, ExitRemaining
  <2>2. Still
    BY MonitorIsStill DEF MonitorReads, Invs
  <2>3. UNCHANGED <<saved, mem, attempts, ord>>
    BY DEF ExitPrevious, ExitEntry, ExitBefore, ExitRemaining, storeVars, brokerVars
  <2> QED  BY <2>1, <2>2, <2>3, NothingIsHeld DEF HoldInv
<1>1. PreviousId' = PreviousId /\ PreviousId \in OrderIds /\ (Exists(PreviousId)' <=> Exists(PreviousId))
  BY <1>0, PreviousIsExit DEF PreviousId, ExitId, Invs, Exists
<1>2. CASE pc' = "tick"
  BY <1>0, <1>2, HeldStepHolds DEF HoldPlaces, EndedPlaces
<1>3. CASE ExitPrevious
  <2>1. snapA' = (IF mem.exit >= 0 THEN ord[PreviousId] ELSE NoOrder) /\ pc' = "xVisible"
    BY <1>3 DEF ExitPrevious, Prompt, Goto
  <2>2. ord[PreviousId].filled \in Nat
    BY <1>1, OrderNumbers DEF Invs
  <2>3. snapA'.st # "none" => snapA'.filled <= ord'[PreviousId].filled
    BY <1>0, <2>1, <2>2 DEF NoOrder
  <2>4. Unresolved' => ~Exists(PreviousId)'
    BY <1>0, <1>1, <2>1 DEF Unresolved, Exists
  <2>5. Reading' /\ Closing'
    BY <1>1, <2>1, <2>3, <2>4 DEF Reading, Closing, EndedPlaces
  <2> QED  BY <1>0, <2>1, <2>5, ExitStepHolds
<1>4. CASE (ExitEntry \/ ExitBefore \/ ExitRemaining) /\ pc' # "tick"
  <2>1. /\ pc \in EndedPlaces /\ pc' \in {"xBefore", "xCancel", "xRefresh"} /\ snapA' = snapA
        /\ pc' = "xRefresh" => vis' = OpenOrders
    BY <1>4 DEF ExitEntry, ExitBefore, ExitRemaining, Goto, Raise, localVars, EndedPlaces
  <2>2. Unresolved' <=> Unresolved
    BY <1>0, <2>1 DEF Unresolved
  <2>3. Reading'
    BY <1>0, <1>1, <2>1, <2>2 DEF Reading, EndedPlaces
  <2>4. OpenOrders' = OpenOrders
    BY <1>0 DEF OpenOrders
  <2>5. Closing'
    BY <2>1, <2>4 DEF Closing
  <2> QED  BY <1>0, <2>1, <2>3, <2>5, ExitStepHolds DEF EndedPlaces
<1> QED  BY <1>2, <1>3, <1>4

(* It goes on, or gives the working exit back to close().                  *)
LEMMA ExitVisibleHolds ==
    ASSUME Invs, TypeInv', HoldInv, ExitVisible
    PROVE  HoldInv'
<1>0. /\ mem \in Position /\ mem.phase \in Watching /\ pc = "xVisible" /\ Still
      /\ UNCHANGED <<ord, attempts>> /\ ObsBounded(mem) /\ Reading
  <2>1. mem.phase \in Watching /\ pc = "xVisible" /\ UNCHANGED <<ord, attempts>>
    BY DEF Invs, PlaceInv, PhaseAt, PhaseFits, ReadPlaces, ExitVisible, brokerVars
  <2>2. Still
    BY MonitorIsStill DEF MonitorReads, Invs
  <2> QED  BY <2>1, <2>2, SavedFacts DEF HoldInv, Observed, Watching
<1>1. PreviousId \in OrderIds /\ (mem.exit >= 0 => PreviousId = ExitId(mem, mem.exit))
      /\ ord[PreviousId].filled \in Nat /\ snapA.filled \in Nat
  <2>1. PreviousId \in OrderIds /\ (mem.exit >= 0 => PreviousId = ExitId(mem, mem.exit))
    BY <1>0, PreviousIsExit DEF Invs, Watching
  <2> QED  BY <2>1, OrderNumbers, QtyFacts DEF Invs, TypeInv, TypeOK, Order
<1>2. /\ PreviousExit.st # "none" => PreviousExit.filled \in Nat /\ PreviousExit.filled <= ord[PreviousId].filled
                                     /\ mem.exit >= 0
      /\ mem.exit >= 0 /\ PreviousExit.st = "none" => ~Exists(PreviousId)
  <2>1. CASE Unresolved /\ PreviousExit = ord[PreviousId]
    BY <1>1, <2>1 DEF Unresolved, Exists
  <2>2. CASE PreviousExit = snapA
    BY <1>0, <1>1, <2>2 DEF Reading, Unresolved, Invs, AloneInv, PreviousKnown
  <2> QED  BY <2>1, <2>2 DEF PreviousExit
<1>3. CASE UNCHANGED <<storeVars, mem, outcome>> /\ pc' = "tick"
  <2>1. HeldStep
    BY <1>0, <1>3, NothingIsHeld DEF storeVars
  <2> QED  BY <1>0, <1>3, <2>1, HeldStepHolds DEF HoldPlaces, EndedPlaces
<1>4. CASE snapA' = PreviousExit /\ UNCHANGED <<storeVars, mem, outcome>> /\ pc' = "xEntry"
  <2>1. HeldStep
    BY <1>0, <1>4, NothingIsHeld DEF storeVars
  <2>2. PreviousId' = PreviousId
    BY <1>4 DEF PreviousId, ExitId
  <2>3. Unresolved' => ~Exists(PreviousId)'
    BY <1>0, <1>2, <1>4, <2>2 DEF Unresolved, Exists
  <2>4. Reading' /\ Closing'
    BY <1>0, <1>2, <1>4, <2>2, <2>3 DEF Reading, Closing, EndedPlaces
  <2> QED  BY <1>0, <1>4, <2>1, <2>4, ExitStepHolds DEF EndedPlaces
<1>5. CASE SaveReturn(mem, PreviousExit, PreviousId) /\ IsLive(PreviousExit)
  <2>1. PreviousExit.st # "none" => PreviousId \in Family(mem)
    BY <1>1, <1>2 DEF Family
  <2>2. PICK q \in Position : /\ SameLife(mem, q) /\ Writes(q) /\ pc' \in {"tick", "minute"}
                              /\ ObsBounded(q)
    BY <1>0, <1>1, <1>2, <1>5, <2>1, SaveReturnObs DEF Invs
  <2>3. HeldStep
    BY <1>0, <2>2, WriteIsHeld DEF SameLife, Watching
  <2> QED  BY <1>0, <2>2, <2>3, HeldStepHolds DEF HoldPlaces, EndedPlaces
<1> QED  BY <1>3, <1>4, <1>5 DEF ExitVisible, Goto

(* _remember_fill over all that is owned observes everything.              *)
LEMMA OwnedObs ==
    ASSUME Invs, mem.phase # "none", ObsBounded(mem)
    PROVE  ObsExact(Remember(mem, Owned(mem)))
<1> PICK e : e = EntryOf(mem)
  OBVIOUS
<1>1. mem \in Position /\ e \in EntryIds
  BY SavedFacts, MemIds DEF Invs, TypeInv, TypeOK
<1>2. ExitId(mem, -1) \notin OrderIds /\ mem.exit \in {-1, 0, 1, 2}
  BY <1>1 DEF ExitId, OrderIds, EntryIds, LegIds, ExitIds, Retries, Position
<1>3. mem.exit >= 0 => ExitId(mem, mem.exit) \in Owned(mem)
  BY DEF Owned, ClientIds
<1>4. e \in Owned(mem) /\ \A l \in {StopOf(e), TargetOf(e)} : Exists(l) => l \in Owned(mem)
  BY DEF Owned, OrderTree
<1>5. \A o \in OrderIds : ~Exists(o) => ord[o].filled = 0
  BY DEF Invs, BookInv, Exists
<1>6. \A o \in Family(mem) \cap OrderIds : o \in Owned(mem) \/ ord[o].filled = 0
  BY <1>2, <1>3, <1>4, <1>5 DEF Family
<1> QED  BY <1>1, <1>6, RememberObs DEF Invs

(* close() remembers, and so does the reading after the cancels.           *)
LEMMA ExitRememberHolds ==
    ASSUME Invs, TypeInv', HoldInv, CloseRemember \/ ExitRefresh
    PROVE  HoldInv'
<1>0. /\ mem \in Position /\ mem.phase \in Watching /\ pc # "down" /\ Still
      /\ UNCHANGED <<ord, attempts>> /\ ObsBounded(mem)
  <2>1. mem.phase \in Watching /\ pc # "down" /\ UNCHANGED <<ord, attempts>>
    BY DEF Invs, PlaceInv, PhaseAt, PhaseFits, ReadPlaces, CloseRemember, ExitRefresh, brokerVars
  <2>2. Still
    BY MonitorIsStill DEF MonitorReads, Reconcile, Invs
  <2> QED  BY <2>1, <2>2, SavedFacts DEF HoldInv, Observed, Watching
<1>1. CASE CloseRemember
  <2> PICK p : p = Remember(mem, ClientIds(mem) \cup OrderTree(EntryOf(mem)))
    OBVIOUS
  <2>1. p \in Position /\ SameLife(mem, p) /\ ObsBounded(p)
    BY <1>0, RememberLife, RememberType, RememberObs DEF SameTrade, Invs, TypeInv, TypeOK
  <2>2. Writes(p) /\ pc' = "xPrevious"
    BY <1>1 DEF CloseRemember, Save, Goto, Writes
  <2>3. HeldStep
    BY <1>0, <2>1, <2>2, WriteIsHeld DEF SameLife, Watching
  <2> QED  BY <1>0, <2>2, <2>3, HeldStepHolds DEF HoldPlaces, EndedPlaces
<1>2. CASE ExitRefresh
  <2> PICK p : p = Remember(mem, Owned(mem))
    OBVIOUS
  <2>1. p \in Position /\ SameLife(mem, p) /\ ObsBounded(p) /\ ObsExact(p)
    BY <1>0, RememberLife, RememberType, RememberObs, OwnedObs DEF SameTrade, Invs, TypeInv, TypeOK, Watching
  <2> PICK r : r = [p EXCEPT !.phase = "exit_pending"]
    OBVIOUS
  <2>2. r = Refreshed
    BY DEF Refreshed
  <2>3. r \in Position /\ SameIds(p, r) /\ SameIds(mem, r) /\ r.phase = "exit_pending" /\ r.obs = p.obs
    BY <2>1 DEF Position, Phases, SameLife, SameIds
  <2>4. ObsBounded(r) /\ ObsExact(r)
    BY <2>1, <2>3, SameObs
  <2>5. CASE SaveReturn(r, NoOrder, EntryOf(mem))
    <3>1. PICK q \in Position : /\ SameLife(r, q) /\ Writes(q) /\ pc' \in {"tick", "minute"}
                                /\ ObsBounded(q)
      BY <2>3, <2>4, <2>5, SaveReturnObs DEF Invs, NoOrder
    <3>2. SameIds(mem, q) /\ q.phase = "exit_pending"
      BY <2>3, <3>1 DEF SameLife, SameIds
    <3>3. HeldStep
      BY <1>0, <3>1, <3>2, WriteIsHeld DEF Watching
    <3> QED  BY <1>0, <3>1, <3>3, HeldStepHolds DEF HoldPlaces, EndedPlaces
  <2>6. CASE vis = {} /\ mem' = r /\ pc' = "xQuantity" /\ UNCHANGED <<saved, snapA>>
    <3>1. HeldStep
      BY <1>0, <2>4, <2>6, SavedFacts DEF HeldStep, HoldInv, EntryPlan
    <3>2. pc = "xRefresh" /\ OpenOrders' = OpenOrders
      BY <1>0, <1>2 DEF ExitRefresh, OpenOrders
    <3>3. ObsExact(mem)'
      BY <1>0, <2>4, <2>6 DEF ObsExact
    <3>4. Closing'
      BY <2>6, <3>2, <3>3 DEF HoldInv, Closing
    <3>5. PreviousId' = PreviousId /\ Unresolved' = Unresolved
      BY <2>3, <2>6 DEF PreviousId, Unresolved, ExitId, SameIds
    <3>6. Reading'
      BY <1>0, <2>6, <3>2, <3>5 DEF HoldInv, Reading, EndedPlaces, Exists
    <3> QED  BY <1>0, <2>6, <3>1, <3>4, <3>6, ExitStepHolds DEF EndedPlaces
  <2> QED  BY <1>2, <2>2, <2>5, <2>6 DEF ExitRefresh, Goto, storeVars
<1> QED  BY <1>1, <1>2

(* A position that is sold is put away; nothing works and all was seen.    *)
LEMMA ExitFlatHolds ==
    ASSUME Invs, TypeInv', HoldInv, ExitFlat
    PROVE  HoldInv'
<1>0. /\ mem \in Position /\ mem.phase = "exit_pending" /\ pc = "xQuantity" /\ Still
      /\ UNCHANGED <<ord, attempts>> /\ held = 0 /\ OpenOrders = {} /\ ObsExact(mem)
  <2>1. mem.phase = "exit_pending" /\ pc = "xQuantity" /\ UNCHANGED <<ord, attempts>> /\ held = 0
    BY DEF Invs, PlaceInv, PhaseAt, PhaseFits, SendPlaces, ExitFlat, brokerVars, BookInv
  <2>2. Still
    BY MonitorIsStill DEF MonitorReads, Invs
  <2> QED  BY <2>1, <2>2, SavedFacts DEF HoldInv, Closing
<1>1. CASE pc' = "tick" /\ UNCHANGED <<saved, mem>>
  <2>1. HeldStep
    BY <1>0, <1>1, NothingIsHeld
  <2> QED  BY <1>0, <1>1, <2>1, HeldStepHolds DEF HoldPlaces, EndedPlaces
<1>2. CASE SaveReturn([mem EXCEPT !.phase = "complete"], snapA, PreviousId)
  <2> PICK p : p = [mem EXCEPT !.phase = "complete"]
    OBVIOUS
  <2>1. p \in Position /\ SameIds(mem, p) /\ p.phase = "complete" /\ p.obs = mem.obs
    BY <1>0 DEF Position, Phases, SameIds
  <2>2. ObsExact(p) /\ ObsBounded(p)
    BY <1>0, <2>1, SameObs, ExactIsBounded DEF Invs
  <2>3. snapA.st # "none" => /\ PreviousId \in OrderIds /\ PreviousId \in Family(p)
                             /\ snapA.filled \in Nat /\ snapA.filled <= ord[PreviousId].filled
    <3>1. snapA.st # "none" => mem.exit >= 0 /\ snapA.filled <= ord[PreviousId].filled
      BY <1>0 DEF HoldInv, Reading, EndedPlaces, Invs, AloneInv, PreviousKnown
    <3>2. PreviousId \in OrderIds /\ (mem.exit >= 0 => PreviousId = ExitId(mem, mem.exit))
      BY <1>0, PreviousIsExit DEF Invs
    <3>3. mem.exit >= 0 => PreviousId \in Family(p)
      <4>1. ExitId(p, p.exit) = ExitId(mem, mem.exit)
        BY <2>1 DEF ExitId, SameIds
      <4> QED  BY <3>2, <4>1 DEF Family
    <3> QED  BY <3>1, <3>2, <3>3, QtyFacts DEF Invs, TypeInv, TypeOK, Order
  <2>4. PICK q \in Position : /\ SameLife(p, q) /\ Writes(q) /\ pc' \in {"tick", "minute"}
                              /\ ObsBounded(q) /\ ObsExact(q)
    BY <1>2, <2>1, <2>2, <2>3, SaveReturnObs DEF Invs
  <2>5. SameIds(mem, q) /\ q.phase = "complete"
    BY <2>1, <2>4 DEF SameLife, SameIds
  <2>6. HeldStep
    BY <1>0, <2>4, <2>5, WriteIsHeld
  <2> QED  BY <1>0, <2>4, <2>6, HeldStepHolds DEF HoldPlaces, EndedPlaces
<1> QED  BY <1>1, <1>2 DEF ExitFlat, Raise, storeVars

(* The next exit is for what is held, under an id the venue never saw.     *)
LEMMA ExitIntentHolds ==
    ASSUME Invs, HoldInv, ExitIntent
    PROVE  HoldInv'
<1>0. /\ mem \in Position /\ mem.phase = "exit_pending" /\ pc = "xQuantity" /\ Still
      /\ UNCHANGED <<ord, attempts, saved, mem, held>> /\ OpenOrders = {} /\ ObsExact(mem) /\ HeldStep
  <2>1. mem.phase = "exit_pending" /\ pc = "xQuantity" /\ UNCHANGED <<ord, attempts, saved, mem, held>>
    BY DEF Invs, PlaceInv, PhaseAt, PhaseFits, SendPlaces, ExitIntent, brokerVars
  <2>2. Still
    BY MonitorIsStill DEF MonitorReads, Invs
  <2> QED  BY <2>1, <2>2, SavedFacts, NothingIsHeld DEF HoldInv, Closing
<1>1. CASE pc' = "tick"
  BY <1>0, <1>1, HeldStepHolds DEF HoldPlaces, EndedPlaces
<1>2. CASE NextExit <= 2 /\ req' = [n |-> NextExit, qty |-> seen] /\ pc' = "xSave"
  <2>1. saved.exit = mem.exit /\ saved.attempt = mem.attempt /\ mem.exit \in {-1, 0, 1, 2}
    BY <1>0, SavedFacts DEF SameIds, Position, Retries
  <2>2. NextExit \in Retries /\ NextExit >= mem.exit
    BY <1>2, <2>1 DEF NextExit, Retries
  <2>3. ExitId(mem, NextExit) \in ExitIds
    BY <1>0, <2>2, MemIds, SavedFacts DEF Invs, TypeInv, TypeOK
  <2>4. ~Exists(ExitId(mem, NextExit))
    <3>1. CASE mem.exit >= 0 /\ snapA.st = "none"
      <4>1. ~Exists(PreviousId) /\ NextExit = mem.exit
        BY <1>0, <2>1, <3>1 DEF HoldInv, Reading, EndedPlaces, Unresolved, NextExit
      <4> QED  BY <1>0, <3>1, <4>1, PreviousIsExit DEF Invs
    <3>2. CASE ~(mem.exit >= 0 /\ snapA.st = "none")
      <4>1. NextExit > saved.exit
        BY <2>1, <3>2 DEF NextExit
      <4>2. ExitId(mem, NextExit)[3] = NextExit
        BY DEF ExitId
      <4> QED  BY <2>1, <2>2, <2>3, <4>1, <4>2 DEF HoldInv, KnownOrders, Retries
    <3> QED  BY <3>1, <3>2
  <2>5. seen = held
    BY DEF Invs, BookInv
  <2>6. OpenOrders' = OpenOrders /\ ExitId(mem, req.n)' = ExitId(mem, NextExit)
    BY <1>0, <1>2 DEF OpenOrders, ExitId
  <2>7. ObsExact(mem)' /\ ~Exists(ExitId(mem, req.n))'
    BY <1>0, <2>4, <2>6 DEF ObsExact, Exists
  <2>8. Closing'
    BY <1>0, <1>2, <2>2, <2>5, <2>6, <2>7 DEF Closing
  <2>9. Reading'
    BY <1>2 DEF Reading, EndedPlaces
  <2> QED  BY <1>0, <1>2, <2>8, <2>9, ExitStepHolds
<1> QED  BY <1>1, <1>2 DEF ExitIntent, Raise, Goto

(* It is saved before it is sent.                                          *)
LEMMA ExitSaveHolds ==
    ASSUME Invs, HoldInv, ExitSave
    PROVE  HoldInv'
<1>0. /\ mem \in Position /\ mem.phase = "exit_pending" /\ pc = "xSave" /\ req.n \in Retries
      /\ SameIds(saved, mem) /\ saved.phase # "none"
      /\ KnownOrders /\ Account /\ EntryPlan
      /\ OpenOrders = {} /\ ObsExact(mem) /\ req.qty = held
      /\ ~Exists(ExitId(mem, req.n)) /\ req.n >= mem.exit
  <2>1. mem.phase = "exit_pending" /\ pc = "xSave" /\ req.n \in Retries
    BY DEF Invs, PlaceInv, PhaseAt, PhaseFits, SendPlaces, ExitSave, TypeInv
  <2> QED  BY <2>1, SavedFacts DEF HoldInv, Closing
<1> PICK q : q = [mem EXCEPT !.exit = req.n, !.ask = req.qty]
  OBVIOUS
<1>1. saved' = q /\ mem' = q /\ pc' = "xPost" /\ UNCHANGED <<ord, held, attempts>>
  BY DEF ExitSave, Save, Goto, brokerVars
<1>2. /\ q.attempt = mem.attempt /\ q.entry = mem.entry /\ q.exit = req.n /\ q.ask = req.qty
      /\ q.phase = "exit_pending" /\ q.obs = mem.obs
  BY <1>0 DEF Position
<1>3. EntryOf(q) = EntryOf(saved) /\ \A n : ExitId(q, n) = ExitId(saved, n) /\ ExitId(mem, n) = ExitId(q, n)
  BY <1>0, <1>2 DEF EntryOf, ExitId, SameIds
<1>4. KnownOrders'
  <2>1. \A e \in EntryIds : Exists(e)' =>
          e = EntryOf(q) \/ (q.attempt = 2 /\ e[1] = 1 /\ StoppedOut(e)')
    BY <1>0, <1>1, <1>2, <1>3 DEF KnownOrders, SameIds, StoppedOut, Exists
  <2>2. \A o \in ExitIds : Exists(o)' =>
          /\ q.exit >= 0 /\ o[1] = q.attempt /\ o[3] <= q.exit
          /\ \A x \in EntryIds \cup LegIds : ~IsLive(ord'[x])
    <3> SUFFICES ASSUME NEW o \in ExitIds, Exists(o)'
                 PROVE  /\ q.exit >= 0 /\ o[1] = q.attempt /\ o[3] <= q.exit
                        /\ \A x \in EntryIds \cup LegIds : ~IsLive(ord'[x])
      OBVIOUS
    <3>1. /\ saved.exit >= 0 /\ o[1] = saved.attempt /\ o[3] <= saved.exit
          /\ \A x \in EntryIds \cup LegIds : ~IsLive(ord[x])
      BY <1>0, <1>1 DEF KnownOrders, Exists
    <3>2. o[3] \in Retries /\ saved.exit = mem.exit /\ mem.exit \in {-1, 0, 1, 2}
      BY <1>0 DEF ExitIds, SameIds, Position, Retries
    <3> QED  BY <1>0, <1>1, <1>2, <3>1, <3>2 DEF SameIds, Retries
  <2> QED  BY <1>1, <1>2, <2>1, <2>2 DEF KnownOrders
<1>5. Account'
  <2>1. held' = Net(saved)'
    BY <1>0, <1>1, <1>3 DEF Account, Net
  <2>2. OpenOrders' = {}
    BY <1>0, <1>1 DEF OpenOrders
  <2> QED  BY <1>0, <1>1, <1>2, <2>1, <2>2 DEF Account
<1>6. Observed'
  <2>1. ObsExact(q)'
    BY <1>0, <1>1, <1>2 DEF ObsExact
  <2>2. \A o \in OrderIds : ord'[o].filled \in Int
    BY <1>1, OrderNumbers DEF Invs
  <2> QED  BY <1>1, <1>2, <2>1, <2>2 DEF Observed, ObsBounded, ObsExact
<1>7. EntryPlan' /\ Reading'
  BY <1>0, <1>1, <1>2 DEF EntryPlan, Reading, EndedPlaces, SameIds
<1>8. Closing'
  <2>1. OpenOrders' = {}
    BY <1>0, <1>1 DEF OpenOrders
  <2>2. ~Exists(ExitId(mem, mem.exit))'
    BY <1>0, <1>1, <1>2, <1>3 DEF Exists, ExitId
  <2>3. ObsExact(mem)'
    BY <1>0, <1>1, <1>2 DEF ObsExact
  <2> QED  BY <1>0, <1>1, <1>2, <2>1, <2>2, <2>3 DEF Closing
<1> QED  BY <1>4, <1>5, <1>6, <1>7, <1>8 DEF HoldInv

-----------------------------------------------------------------------------
(* What an order that is sent leaves as it is.                             *)
LEMMA SentHolds ==
    ASSUME Invs, HoldInv, NEW id \in EntryIds \cup ExitIds, NEW q, Sent(id, q),
           UNCHANGED <<saved, mem, attempts>>, pc # "down", pc' \notin HoldPlaces,
           saved.phase \in Watching,
           \A e \in EntryIds : e = id => e = EntryOf(saved),
           \A o \in ExitIds : o = id => /\ saved.exit >= 0 /\ o[1] = saved.attempt /\ o[3] <= saved.exit
                                        /\ OpenOrders = {} /\ q = held,
           id \in EntryIds => \A o \in ExitIds : ~Exists(o)
    PROVE  HoldInv'
<1>0. KnownOrders /\ Account /\ Observed /\ EntryPlan
  BY DEF HoldInv
<1>1. \A o \in OrderIds : /\ ord'[o].filled = ord[o].filled
                          /\ Exists(o) => ord'[o] = ord[o]
                          /\ Exists(o)' => Exists(o) \/ o = id \/ o \in LegIds
  BY SentFills DEF Invs
<1>2. EntryIds \subseteq OrderIds /\ LegIds \subseteq OrderIds /\ ExitIds \subseteq OrderIds
  BY DEF OrderIds
<1>3. EntryOf(saved)' = EntryOf(saved) /\ held' = held
  BY DEF EntryOf, Sent
<1>4. KnownOrders'
  <2>1. \A e \in EntryIds : Exists(e)' =>
          e = EntryOf(saved) \/ (saved.attempt = 2 /\ e[1] = 1 /\ StoppedOut(e)')
    <3> SUFFICES ASSUME NEW e \in EntryIds, Exists(e)', e # EntryOf(saved)
                 PROVE  saved.attempt = 2 /\ e[1] = 1 /\ StoppedOut(e)'
      OBVIOUS
    <3>1. Exists(e)
      BY <1>1, <1>2, IdsDiffer
    <3>2. saved.attempt = 2 /\ e[1] = 1 /\ StoppedOut(e)
      BY <1>0, <3>1 DEF KnownOrders
    <3> QED  BY <3>2, StoppedOutStays DEF Invs
  <2>2. \A o \in ExitIds : Exists(o)' =>
          /\ saved.exit >= 0 /\ o[1] = saved.attempt /\ o[3] <= saved.exit
          /\ \A x \in EntryIds \cup LegIds : ~IsLive(ord'[x])
    <3> SUFFICES ASSUME NEW o \in ExitIds, Exists(o)'
                 PROVE  /\ saved.exit >= 0 /\ o[1] = saved.attempt /\ o[3] <= saved.exit
                        /\ \A x \in EntryIds \cup LegIds : ~IsLive(ord'[x])
      OBVIOUS
    <3>1. Exists(o) \/ o = id
      BY <1>1, <1>2, IdsDiffer
    <3>2. id \in ExitIds
      BY <3>1
    <3>3. /\ saved.exit >= 0 /\ o[1] = saved.attempt /\ o[3] <= saved.exit
          /\ \A x \in EntryIds \cup LegIds : ~IsLive(ord[x])
      BY <1>0, <1>2, <3>1 DEF KnownOrders, OpenOrders
    <3>4. \A x \in EntryIds \cup LegIds : ord'[x] = ord[x]
      BY <1>2, <3>2, IdsDiffer DEF Sent
    <3> QED  BY <3>3, <3>4
  <2> QED  BY <1>3, <2>1, <2>2 DEF KnownOrders, Watching
<1>5. Account'
  <2>1. held' = Net(saved)'
    BY <1>0, <1>1, <1>3, SavedFacts, NetSame DEF Account, Net, Invs, SameIds, Watching
  <2>2. \A o \in ExitIds \cap OpenOrders' : ord'[o].qty - ord'[o].filled = held'
    <3> SUFFICES ASSUME NEW o \in ExitIds \cap OpenOrders' PROVE ord'[o].qty - ord'[o].filled = held
      BY <1>3
    <3>1. o \in OrderIds /\ IsLive(ord'[o]) /\ Exists(o)'
      BY DEF OpenOrders, IsLive, Exists
    <3>2. Exists(o) \/ o = id
      BY <1>1, <3>1, IdsDiffer
    <3>3. CASE Exists(o)
      BY <1>0, <1>1, <3>1, <3>3 DEF Account, OpenOrders
    <3>4. CASE o = id
      <4>1. q = held /\ ord'[o].qty = q /\ ord'[o].filled = 0
        BY <3>4 DEF Sent, Working
      <4>2. held \in Int
        BY DEF Invs, TypeInv, TypeOK, BrokerTypeOK
      <4> QED  BY <4>1, <4>2
    <3> QED  BY <3>2, <3>3, <3>4
  <2> QED  BY <1>0, <1>3, <2>1, <2>2 DEF Account, Watching
<1>6. Observed'
  BY <1>0, <1>1 DEF Observed, ObsBounded, ObsExact, Family, EntryOf, ExitId, Watching
<1>7. EntryPlan' /\ Reading' /\ Closing'
  BY <1>0 DEF HoldPlaces, EndedPlaces, EntryPlan, Reading, Closing
<1> QED  BY <1>4, <1>5, <1>6, <1>7 DEF HoldInv

(* The POST of an exit, and the observation of what it was answered.       *)
LEMMA ExitPostHolds ==
    ASSUME Invs, HoldInv, Prompt, ExitPost \/ ExitAttach
    PROVE  HoldInv'
<1>0. /\ mem \in Position /\ mem.phase = "exit_pending" /\ mem.exit \in Retries /\ saved.phase = "exit_pending"
      /\ SameIds(saved, mem) /\ pc \in {"xPost", "xAttach"} /\ ObsBounded(mem)
  <2>1. mem.phase = "exit_pending" /\ pc \in {"xPost", "xAttach"} /\ mem.exit \in Retries /\ saved.phase = "exit_pending"
    BY DEF Invs, PlaceInv, PutAway, PhaseAt, PhaseFits, SendPlaces, ExitPost, ExitAttach, TypeInv
  <2> QED  BY <2>1, SavedFacts DEF HoldInv, Observed
<1>1. CASE ExitPost
  <2>1. UNCHANGED <<saved, mem, attempts>> /\ pc = "xPost" /\ pc' \in {"xAttach", "tick"}
    BY <1>1 DEF ExitPost, SubmitIdempotent, PostLost, Goto, Raise, storeVars
  <2>2. CASE Still
    <3>1. HeldStep
      BY <2>1, NothingIsHeld
    <3> QED  BY <2>1, <2>2, <3>1, HeldStepHolds DEF HoldPlaces, EndedPlaces
  <2>3. CASE Sent(ExitId(mem, mem.exit), mem.ask)
    <3> PICK id : id = ExitId(mem, mem.exit)
      OBVIOUS
    <3>1. id \in ExitIds /\ id \notin EntryIds
      BY <1>0, MemIds, IdsDiffer DEF Invs, TypeInv, TypeOK
    <3>2. saved.exit >= 0 /\ id[1] = saved.attempt /\ id[3] <= saved.exit
      BY <1>0 DEF ExitId, SameIds, Retries
    <3>3. OpenOrders = {} /\ mem.ask = held
      BY <2>1 DEF HoldInv, Closing
    <3>4. pc' \notin HoldPlaces /\ saved.phase \in Watching /\ pc # "down"
      BY <1>0, <2>1 DEF HoldPlaces, EndedPlaces, Watching
    <3> QED  BY <2>1, <2>3, <3>1, <3>2, <3>3, <3>4, SentHolds
  <2>4. ~Venue /\ ~EntryPost
    BY <2>1 DEF Venue, EntryPost, monitorVars
  <2>5. [Next]_vars
    BY <1>1 DEF Next, Monitor, RequestPositionExit
  <2> QED  BY <2>2, <2>3, <2>4, <2>5, StepOfVenue DEF Invs
<1>2. CASE ExitAttach
  <2>1. Still
    BY <1>2, MonitorIsStill DEF MonitorReads, Invs
  <2>2. pc # "down" /\ UNCHANGED attempts
    BY <1>2 DEF ExitAttach
  <2>3. CASE saved' = mem /\ mem' = mem /\ UNCHANGED outcome /\ pc' = "tick"
    <3>1. HeldStep
      BY <1>0, <2>2, <2>3, WriteIsHeld DEF Writes, SameIds, Watching
    <3> QED  BY <2>1, <2>3, <3>1, HeldStepHolds DEF HoldPlaces, EndedPlaces
  <2>4. CASE LET p == Remember(mem, {ExitId(mem, mem.exit)}) IN saved' = p /\ Finish(p)
    <3> PICK p : p = Remember(mem, {ExitId(mem, mem.exit)})
      OBVIOUS
    <3>1. p \in Position /\ SameLife(mem, p) /\ ObsBounded(p)
      BY <1>0, RememberLife, RememberType, RememberObs DEF SameTrade, Invs, TypeInv, TypeOK
    <3>2. Writes(p) /\ pc' = "minute"
      BY <2>4, <3>1, FinishWrites
    <3>3. HeldStep
      BY <1>0, <2>2, <3>1, <3>2, WriteIsHeld DEF SameLife, Watching
    <3> QED  BY <2>1, <3>2, <3>3, HeldStepHolds DEF HoldPlaces, EndedPlaces
  <2> QED  BY <1>2, <2>3, <2>4 DEF ExitAttach, Goto
<1> QED  BY <1>1, <1>2

-----------------------------------------------------------------------------
(* An entry that the venue never saw has no orders, and nor has anything   *)
(* of its attempt.                                                         *)
LEMMA NewEntryIsFlat ==
    ASSUME Invs, NEW p \in Position, p.phase # "none", Numbered(p), ~Exists(EntryOf(p)),
           \A o \in ExitIds : ~Exists(o)
    PROVE  Net(p) = 0
<1> PICK e : e = EntryOf(p)
  OBVIOUS
<1>1. /\ e \in EntryIds /\ StopOf(e) \in OrderIds /\ TargetOf(e) \in OrderIds /\ e \in OrderIds
      /\ \A n \in {0, 1, 2} : ExitId(p, n) \in ExitIds /\ ExitId(p, n) \in OrderIds
  BY MemIds DEF Invs, TypeInv, TypeOK, Retries
<1>2. ~Exists(StopOf(e)) /\ ~Exists(TargetOf(e))
  BY <1>1 DEF Invs, BookInv, Bracket, Exists
<1>3. \A o \in OrderIds : ~Exists(o) => ord[o].filled = 0
  BY DEF Invs, BookInv, Exists
<1>4. /\ ord[e].filled = 0 /\ ord[StopOf(e)].filled = 0 /\ ord[TargetOf(e)].filled = 0
      /\ ord[ExitId(p, 0)].filled = 0 /\ ord[ExitId(p, 1)].filled = 0 /\ ord[ExitId(p, 2)].filled = 0
  BY <1>1, <1>2, <1>3
<1> QED  BY <1>4 DEF Net

(* A new entry is saved over a symbol that is flat and done with.          *)
LEMMA EntrySaveHolds ==
    ASSUME Invs, HoldInv, TypeInv', EntrySave
    PROVE  HoldInv'
<1>0. /\ KnownOrders /\ Account /\ Observed /\ EntryPlan /\ pc = "eSave"
      /\ saved \in Position /\ Numbered(saved)
      /\ saved.phase \in {"none", "stopped"} /\ prior = saved /\ attempts = saved.attempt
      /\ held = 0 /\ OpenOrders = {} /\ ObsExact(saved)
  <2>1. pc = "eSave" /\ mem.phase = "none"
    BY DEF EntrySave, Invs, PlaceInv, PhaseAt, PhaseFits
  <2>2. saved.phase \in {"none", "stopped"} /\ prior = saved
    BY <2>1 DEF Invs, PlaceInv, PutAway
  <2> QED  BY <2>1, <2>2, SavedFacts DEF HoldInv, EntryPlan, Account, Observed
<1>1. \A o \in ExitIds : ~Exists(o)
  <2>1. saved.exit = -1
    BY <1>0 DEF Invs, PlaceInv, PhaseTells, ExitPhase, Position, Retries
  <2> QED  BY <1>0, <2>1 DEF KnownOrders
<1>2. /\ saved.phase = "none" => saved.attempt = 0 /\ NoOrders
      /\ saved.phase = "stopped" => saved.attempt = 1 /\ StoppedOut(EntryOf(saved))
  BY <1>0 DEF KnownOrders
<1>3. \A e \in EntryIds : Exists(e) => e = EntryOf(saved) /\ saved.phase = "stopped" /\ saved.attempt = 1
  BY <1>0, <1>2 DEF KnownOrders, NoOrders, OrderIds
<1> PICK q : q = [NoPosition EXCEPT !.phase = "entry_pending", !.attempt = attempts + 1,
                                    !.entry = req.n, !.obs = prior.obs]
  OBVIOUS
<1>4. saved' = q /\ mem' = q /\ pc' = "ePost" /\ attempts' = attempts + 1 /\ UNCHANGED <<ord, held, prior>>
  BY DEF EntrySave, Save, Goto, brokerVars, localVars
<1>5. /\ q.phase = "entry_pending" /\ q.attempt = saved.attempt + 1 /\ q.exit = -1 /\ q.obs = saved.obs
      /\ q \in Position /\ Numbered(q)
  BY <1>0, <1>4 DEF NoPosition, TypeInv, TypeOK
<1>6. ~Exists(EntryOf(q))
  <2>1. EntryOf(q) \in EntryIds
    BY <1>5, MemIds DEF Invs, TypeInv, TypeOK
  <2>2. EntryOf(q)[1] = saved.attempt + 1 /\ EntryOf(saved)[1] = saved.attempt
    BY <1>5 DEF EntryOf
  <2> QED  BY <1>3, <2>1, <2>2
<1>7. KnownOrders'
  <2>1. \A e \in EntryIds : Exists(e)' => q.attempt = 2 /\ e[1] = 1 /\ StoppedOut(e)'
    <3> SUFFICES ASSUME NEW e \in EntryIds, Exists(e)'
                 PROVE  q.attempt = 2 /\ e[1] = 1 /\ StoppedOut(e)'
      OBVIOUS
    <3>1. e = EntryOf(saved) /\ saved.phase = "stopped" /\ saved.attempt = 1
      BY <1>3, <1>4 DEF Exists
    <3>2. StoppedOut(e) /\ e[1] = 1
      BY <1>2, <3>1 DEF EntryOf
    <3> QED  BY <1>4, <1>5, <3>1, <3>2 DEF StoppedOut, Exists
  <2>2. \A o \in ExitIds : ~Exists(o)'
    BY <1>1, <1>4 DEF Exists
  <2> QED  BY <1>4, <1>5, <2>1, <2>2 DEF KnownOrders
<1>8. Account'
  <2>1. Net(q) = 0
    BY <1>1, <1>5, <1>6, NewEntryIsFlat
  <2>2. Net(saved)' = 0
    BY <1>4, <2>1 DEF Net, EntryOf, ExitId
  <2>3. OpenOrders' = {}
    BY <1>0, <1>4 DEF OpenOrders
  <2> QED  BY <1>0, <1>4, <2>2, <2>3 DEF Account
<1>9. Observed'
  <2>1. ObsExact(q)'
    BY <1>0, <1>4, <1>5 DEF ObsExact
  <2>2. \A o \in OrderIds : ord'[o].filled \in Int
    BY <1>4, OrderNumbers DEF Invs
  <2> QED  BY <1>4, <1>5, <2>1, <2>2 DEF Observed, ObsBounded, ObsExact
<1>10. EntryPlan'
  <2>1. ObsExact(prior)' /\ held' = 0 /\ (NoOrders' \/ StoppedOut(EntryOf(prior))')
    BY <1>0, <1>2, <1>4 DEF ObsExact, NoOrders, StoppedOut, Exists, EntryOf
  <2>2. /\ \A e \in EntryIds : Exists(e)' => e = EntryOf(prior)'
        /\ prior'.phase = "none" => prior'.attempt = 0 /\ NoOrders'
        /\ prior'.phase = "stopped" => prior'.attempt = 1 /\ StoppedOut(EntryOf(prior))'
    BY <1>0, <1>2, <1>3, <1>4 DEF NoOrders, StoppedOut, Exists, EntryOf
  <2> QED  BY <1>0, <1>4, <1>5, <2>1, <2>2 DEF EntryPlan
<1>11. Reading' /\ Closing'
  BY <1>4 DEF Reading, Closing, EndedPlaces
<1> QED  BY <1>7, <1>8, <1>9, <1>10, <1>11 DEF HoldInv

(* Its POST goes out, or the state before it comes back.                   *)
LEMMA EntrySendHolds ==
    ASSUME Invs, HoldInv, Prompt, EntryPost
    PROVE  HoldInv'
<1>0. /\ mem \in Position /\ Numbered(mem) /\ mem.phase = "entry_pending" /\ saved.phase = "entry_pending"
      /\ EntryOf(saved) = EntryOf(mem) /\ KnownOrders
  <2>1. mem.phase = "entry_pending" /\ saved.phase = "entry_pending"
    BY DEF EntryPost, Invs, PlaceInv, PhaseAt, PhaseFits, EntryPlaces, SameState
  <2> QED  BY <2>1, SavedFacts, SameIdsSame DEF HoldInv, SameIds
<1>1. UNCHANGED <<saved, mem, attempts>> /\ pc = "ePost" /\ pc' \in {"eAttach", "tick"}
  BY DEF EntryPost, SubmitIdempotent, PostLost, Goto, Raise, storeVars
<1>2. CASE Still
  <2>1. HeldStep
    BY <1>1, NothingIsHeld
  <2> QED  BY <1>1, <1>2, <2>1, HeldStepHolds DEF HoldPlaces, EndedPlaces
<1>3. CASE Sent(EntryOf(mem), Qty)
  <2>1. EntryOf(mem) \in EntryIds /\ EntryOf(mem) \notin ExitIds
    BY <1>0, MemIds, IdsDiffer DEF Invs, TypeInv, TypeOK
  <2>2. \A o \in ExitIds : ~Exists(o)
    BY <1>0, NoExitYet
  <2>3. pc' \notin HoldPlaces /\ saved.phase \in Watching /\ pc # "down"
    BY <1>0, <1>1 DEF HoldPlaces, EndedPlaces, Watching
  <2> QED  BY <1>0, <1>1, <1>3, <2>1, <2>2, <2>3, SentHolds
<1>4. ~Venue /\ ~ExitPost
  BY <1>1 DEF Venue, ExitPost, monitorVars
<1>5. [Next]_vars
  BY DEF Next, Monitor, Enter
<1> QED  BY <1>2, <1>3, <1>4, <1>5, StepOfVenue DEF Invs

(* A refused entry is taken back: the symbol is again what it was.         *)
LEMMA AbortHolds ==
    ASSUME Invs, HoldInv, abort_unsubmitted_entry
    PROVE  HoldInv'
<1>0. /\ pc = "eAbort" /\ mem.phase = "entry_pending" /\ saved.phase = "entry_pending"
      /\ KnownOrders /\ Account /\ EntryPlan /\ attempts = saved.attempt
      /\ prior \in Position /\ Numbered(prior) /\ prior.phase \in {"none", "stopped"} /\ prior.exit = -1
      /\ OpenOrders = {} /\ held = 0 /\ ObsExact(prior) /\ prior.attempt + 1 = saved.attempt
      /\ \A e \in EntryIds : Exists(e) => e = EntryOf(prior)
      /\ prior.phase = "none" => prior.attempt = 0 /\ NoOrders
      /\ prior.phase = "stopped" => prior.attempt = 1 /\ StoppedOut(EntryOf(prior))
  <2>1. pc = "eAbort" /\ mem.phase = "entry_pending" /\ saved.phase = "entry_pending"
    BY DEF abort_unsubmitted_entry, Invs, PlaceInv, PhaseAt, PhaseFits, EntryPlaces, SameState
  <2>2. prior.phase \in {"none", "stopped"} /\ prior.exit = -1 /\ prior \in Position /\ Numbered(prior)
    BY <2>1 DEF Invs, PlaceInv, PutAway, TypeInv, TypeOK
  <2>3. OpenOrders = {}
    BY <2>1 DEF Invs, AloneInv, CleanBetween, Clean
  <2> QED  BY <2>1, <2>2, <2>3 DEF HoldInv, EntryPlan
<1>1. \A o \in ExitIds : ~Exists(o) /\ ord[o].filled = 0
  BY <1>0, NoExitYet
<1>2. saved' = prior /\ mem' = NoPosition /\ attempts' = attempts - 1 /\ pc' = "tick" /\ UNCHANGED <<ord, held>>
  BY DEF abort_unsubmitted_entry, Goto, brokerVars
<1>3. EntryOf(saved)' = EntryOf(prior)
  BY <1>2 DEF EntryOf
<1>4. KnownOrders'
  BY <1>0, <1>1, <1>2, <1>3 DEF KnownOrders, NoOrders, StoppedOut, Exists
<1>5. Account'
  <2>1. prior.phase = "stopped" => Net(prior) = 0
    <3> SUFFICES ASSUME prior.phase = "stopped" PROVE Net(prior) = 0
      OBVIOUS
    <3> PICK e : e = EntryOf(prior)
      OBVIOUS
    <3>1. ord[StopOf(e)].filled + ord[TargetOf(e)].filled = ord[e].filled
      BY <1>0 DEF StoppedOut
    <3>2. \A n \in {0, 1, 2} : ord[ExitId(prior, n)].filled = 0
      BY <1>0, <1>1, MemIds DEF Invs, TypeInv, TypeOK, Retries
    <3>3. e \in OrderIds /\ StopOf(e) \in OrderIds /\ TargetOf(e) \in OrderIds
      BY <1>0, MemIds DEF Invs, TypeInv, TypeOK
    <3>4. ord[e].filled \in Nat /\ ord[StopOf(e)].filled \in Nat /\ ord[TargetOf(e)].filled \in Nat
      BY <3>3, OrderNumbers DEF Invs
    <3>5. Net(prior) = ord[e].filled - ord[StopOf(e)].filled - ord[TargetOf(e)].filled - 0 - 0 - 0
      BY <3>2 DEF Net
    <3> QED  BY <3>1, <3>4, <3>5
  <2>2. prior.phase = "stopped" => Net(saved)' = 0
    BY <1>2, <2>1 DEF Net, EntryOf, ExitId
  <2>3. OpenOrders' = {}
    BY <1>0, <1>2 DEF OpenOrders
  <2> QED  BY <1>0, <1>2, <2>2, <2>3 DEF Account
<1>6. Observed'
  <2>1. ObsExact(saved)'
    BY <1>0, <1>2 DEF ObsExact
  <2>2. \A o \in OrderIds : ord'[o].filled \in Int
    BY <1>2, OrderNumbers DEF Invs
  <2>3. ObsBounded(saved)'
    BY <2>1, <2>2 DEF ObsBounded, ObsExact
  <2> QED  BY <1>2, <2>1, <2>3, NoPositionLife DEF Observed
<1>7. EntryPlan' /\ Reading' /\ Closing'
  <2>1. attempts' = saved'.attempt
    BY <1>0, <1>2 DEF Position
  <2> QED  BY <1>2, <2>1 DEF EntryPlan, Reading, Closing, EndedPlaces
<1> QED  BY <1>4, <1>5, <1>6, <1>7 DEF HoldInv

(* The rest of the protected entry.                                        *)
LEMMA EnterHolds ==
    ASSUME Invs, HoldInv, EntryIntent \/ EntryRefused \/ EntryAttach
    PROVE  HoldInv'
<1>0. Still /\ UNCHANGED <<mem, attempts>> /\ pc # "down"
  <2>1. Still
    BY MonitorIsStill DEF MonitorReads, Invs
  <2> QED  BY <2>1 DEF EntryIntent, EntryRefused, EntryAttach
<1>1. CASE EntryIntent
  <2>1. UNCHANGED saved /\ pc' \in {"eSave", "tick"}
    BY <1>1 DEF EntryIntent, Goto, Raise
  <2>2. HeldStep
    BY <1>0, <2>1, NothingIsHeld
  <2> QED  BY <1>0, <2>1, <2>2, HeldStepHolds DEF HoldPlaces, EndedPlaces
<1>2. CASE EntryRefused
  <2>1. UNCHANGED <<saved, prior, ord, held>> /\ pc = "ePost" /\ pc' = "eAbort"
    BY <1>2 DEF EntryRefused, Goto, storeVars, brokerVars, localVars
  <2>2. HeldStep
    BY <1>0, <2>1, NothingIsHeld
  <2>3. EntryPlan' /\ Reading' /\ Closing'
    BY <1>0, <2>1 DEF HoldInv, EntryPlan, Reading, Closing, EndedPlaces, ObsExact, NoOrders,
       StoppedOut, Exists, EntryOf
  <2> QED  BY <1>0, <2>2, <2>3, HeldStepHolds
<1>3. CASE EntryAttach
  <2>1. mem \in Position /\ mem.phase = "entry_pending" /\ ObsBounded(mem)
    <3>1. mem.phase = "entry_pending"
      BY <1>3 DEF EntryAttach, Invs, PlaceInv, PhaseAt, PhaseFits, EntryPlaces
    <3> QED  BY <3>1, SavedFacts DEF HoldInv, Observed
  <2>2. Writes(mem) /\ pc' = "tick"
    BY <1>3 DEF EntryAttach, Goto, Writes
  <2>3. HeldStep
    BY <1>0, <2>1, <2>2, WriteIsHeld DEF SameIds, Watching
  <2> QED  BY <1>0, <2>2, <2>3, HeldStepHolds DEF HoldPlaces, EndedPlaces
<1> QED  BY <1>1, <1>2, <1>3

-----------------------------------------------------------------------------
(* Every step keeps the holdings, and there are none at first.             *)
LEMMA NextKeepsHold ==
    ASSUME Invs, TypeInv', HoldInv, Prompt, [Next]_vars
    PROVE  HoldInv'
<1>1. CASE Venue \/ AdvanceClock \/ UNCHANGED vars
  BY <1>1, OutsideHolds
<1>2. CASE Start \/ Crash \/ Tick \/ MinuteIdle \/ MinuteExit \/ CallFails
  BY <1>2, LoopHolds
<1>3. CASE Reconcile
  BY <1>3, EntryHolds, BracketReadHolds, ActiveHolds, CancelHolds, ExitRememberHolds DEF Reconcile
<1>4. CASE RequestPositionExit
  BY <1>4, ExitReadHolds, ExitVisibleHolds, CancelHolds, ExitRememberHolds, ExitFlatHolds,
     ExitIntentHolds, ExitSaveHolds, ExitPostHolds DEF RequestPositionExit
<1>5. CASE Enter
  BY <1>5, EnterHolds, EntrySaveHolds, EntrySendHolds, AbortHolds DEF Enter
<1> QED  BY <1>1, <1>2, <1>3, <1>4, <1>5 DEF Next, Monitor

(* Before anything happened nothing is held.                               *)
LEMMA InitHold == Init => HoldInv
<1> SUFFICES ASSUME Init PROVE HoldInv
  OBVIOUS
<1>1. /\ ord = [o \in OrderIds |-> NoOrder] /\ held = 0 /\ pc = "down"
      /\ saved = NoPosition /\ mem = NoPosition
  BY DEF Init, BrokerInit
<1>2. \A o \in OrderIds : ord[o].st = "none" /\ ord[o].filled = 0
  BY <1>1 DEF NoOrder
<1>3. saved.phase = "none" /\ saved.attempt = 0 /\ mem.phase = "none" /\ \A o \in OrderIds : saved.obs[o] = 0
  BY <1>1 DEF NoPosition
<1>4. OpenOrders = {}
  BY <1>2 DEF OpenOrders, IsLive
<1>5. KnownOrders
  BY <1>2, <1>3 DEF KnownOrders, NoOrders, Exists, OrderIds
<1>6. Account /\ Observed
  BY <1>1, <1>2, <1>3, <1>4 DEF Account, Observed, ObsExact
<1>7. EntryPlan /\ Reading /\ Closing
  BY <1>1 DEF EntryPlan, Reading, Closing, EndedPlaces
<1> QED  BY <1>5, <1>6, <1>7 DEF HoldInv

(* With a venue that answers promptly the orders of a symbol, the shares   *)
(* held and what was observed of both always agree.                        *)
LEMMA HoldInvCorrect == ASSUME Prompt PROVE Spec => []HoldInv
<1>1. TypeInv /\ TypeInv' /\ PlaceInv /\ AloneInv /\ BookInv /\ HoldInv /\ [Next]_vars => HoldInv'
  BY NextKeepsHold DEF Invs
<1> QED  BY <1>1, InitHold, TypeInvCorrect, PlaceInvCorrect, AloneInvCorrect, BookInvCorrect, PTL DEF Spec

-----------------------------------------------------------------------------
(* What a working exit may still sell is exactly what the account holds,   *)
(* whatever was filled, canceled, lost or restarted before: request_       *)
(* position_exit cannot open a short and leaves nothing behind.            *)
THEOREM ExitIsWholePositionCorrect == ASSUME Prompt PROVE Spec => []ExitIsWholePosition
<1>1. HoldInv => ExitIsWholePosition
  BY DEF HoldInv, Account, ExitIsWholePosition
<1> QED  BY <1>1, HoldInvCorrect, PTL

(* A symbol state is saved as complete or stopped only when the account is *)
(* flat and nothing works: shares and orders always belong to a state the  *)
(* next process of the monitor takes up again.                             *)
THEOREM ExposureTrackedCorrect == ASSUME Prompt PROVE Spec => []ExposureTracked
<1>1. TypeInv /\ HoldInv => ExposureTracked
  BY DEF HoldInv, Account, ExposureTracked, TypeInv, TypeOK, Position, Phases
<1> QED  BY <1>1, HoldInvCorrect, TypeInvCorrect, PTL

(* The re-entry is sent only after the first attempt was filled and sold   *)
(* again in full by its bracket, at least partly by the stop, and nothing  *)
(* of its bracket works any more.                                          *)
THEOREM ReentryOnlyAfterStopCorrect == ASSUME Prompt PROVE Spec => []ReentryOnlyAfterStop
<1>1. HoldInv => ReentryOnlyAfterStop
  <2> SUFFICES ASSUME HoldInv, NEW e \in EntryIds, NEW f \in EntryIds,
                      Exists(e), Exists(f), e[1] = 1, f[1] = 2
               PROVE  StoppedOut(e)
    BY DEF ReentryOnlyAfterStop, StoppedOut
  <2>1. f = EntryOf(saved)
    BY DEF HoldInv, KnownOrders
  <2> QED  BY <2>1 DEF HoldInv, KnownOrders
<1> QED  BY <1>1, HoldInvCorrect, PTL

(* When a symbol is put away, its saved observations hold every fill of    *)
(* every order: those that raced a cancel, a retry or a restart too.       *)
THEOREM PutAwayFillsRecordedCorrect == ASSUME Prompt PROVE Spec => []PutAwayFillsRecorded
<1>1. HoldInv => PutAwayFillsRecorded
  BY DEF HoldInv, Observed, ObsExact, PutAwayFillsRecorded
<1> QED  BY <1>1, HoldInvCorrect, PTL

(* assert_reconcilable accepts, at every moment, what the monitor itself   *)
(* has left at the venue.                                                  *)
THEOREM OwnTraceReconcilesCorrect == ASSUME Prompt PROVE Spec => []OwnTraceReconciles
<1>1. TypeInv /\ BookInv /\ IntentInv /\ HoldInv => OwnTraceReconciles
  <2> SUFFICES ASSUME TypeInv, BookInv, IntentInv, HoldInv PROVE OwnTraceReconciles
    OBVIOUS
  <2>1. \A o \in EntryIds \cup ExitIds : Exists(o) => o \in OrderIds /\ row[o].st # "none"
    BY DEF IntentInv, IntentBeforeOrder, Recorded, OrderIds
  <2>2. ASSUME NEW l \in LegIds, Exists(l)
        PROVE  \E e \in EntryIds : row[e].st # "none" /\ l \in OrderTree(e)
    <3>1. EntryOfLeg(l) \in EntryIds /\ (l = StopOf(EntryOfLeg(l)) \/ l = TargetOf(EntryOfLeg(l)))
      BY IdTypes DEF LegIds, EntryOfLeg, StopOf, TargetOf
    <3> PICK e : e = EntryOfLeg(l)
      OBVIOUS
    <3>2. e \in EntryIds /\ (l = StopOf(e) \/ l = TargetOf(e)) /\ Bracket(e)
      BY <3>1 DEF BookInv
    <3>3. Exists(e)
      BY <2>2, <3>2 DEF Bracket, Exists
    <3> QED  BY <2>1, <2>2, <3>2, <3>3 DEF OrderTree
  <2>3. OpenOrders \subseteq Proven
    <3> SUFFICES ASSUME NEW o \in OpenOrders PROVE o \in Proven
      OBVIOUS
    <3>1. o \in OrderIds /\ Exists(o)
      BY DEF OpenOrders, IsLive, Exists
    <3>2. CASE o \in EntryIds \cup ExitIds
      BY <2>1, <3>1, <3>2 DEF Proven
    <3>3. CASE o \in LegIds
      <4>1. PICK e \in EntryIds : row[e].st # "none" /\ o \in OrderTree(e)
        BY <2>2, <3>1, <3>3
      <4> QED  BY <4>1 DEF Proven, OrderIds
    <3> QED  BY <3>1, <3>2, <3>3 DEF OrderIds
  <2>4. seen # 0 => seen > 0 /\ saved.phase # "none"
    <3>1. seen = held /\ held \in Int /\ held >= 0 /\ (saved.phase = "none" => held = 0)
      BY DEF BookInv, TypeInv, TypeOK, BrokerTypeOK, HoldInv, Account
    <3> QED  BY <3>1
  <2> QED  BY <2>3, <2>4 DEF OwnTraceReconciles, assert_reconcilable
<1> QED  BY <1>1, HoldInvCorrect, BookInvCorrect, TypeInvCorrect, IntentInvCorrect, PTL

-----------------------------------------------------------------------------
(* The entries of an attempt.                                              *)
EntriesOf(a) == {e \in EntryIds : e[1] = a}

(* There are finitely many: no more than suffixes.                         *)
LEMMA EntriesFinite ==
    ASSUME NEW a
    PROVE  IsFiniteSet(EntriesOf(a))
<1>1. IsFiniteSet(0..MaxAborts)
  BY AbortsAssumption, FS_Interval
<1>2. [e \in EntriesOf(a) |-> e[3]] \in Injection(EntriesOf(a), 0..MaxAborts)
  <2>1. \A e \in EntriesOf(a) : e[3] \in 0..MaxAborts /\ e = <<a, "entry", e[3]>>
    BY DEF EntriesOf, EntryIds
  <2>2. \A e, f \in EntriesOf(a) : e[3] = f[3] => e = f
    BY <2>1
  <2> QED  BY <2>1, <2>2 DEF Injection, IsInjective
<1> QED  BY <1>1, <1>2, FS_Injection

(* The shares of the filled orders are one function of the order ids.      *)
Fills == [o \in OrderIds |-> ord[o].filled]

(* What an attempt bought is the sum of what its entries filled.           *)
LEMMA BoughtIsSum == ASSUME NEW a PROVE BoughtIn(a) = SumFunctionOnSet(Fills, EntriesOf(a))
BY DEF BoughtIn, FilledOf, Fills, EntriesOf

(* While nothing fills, nothing is bought.                                 *)
LEMMA BoughtSame ==
    ASSUME \A o \in OrderIds : ord'[o].filled = ord[o].filled, NEW a
    PROVE  BoughtIn(a)' = BoughtIn(a)
<1>1. [o \in OrderIds |-> ord'[o].filled] = [o \in OrderIds |-> ord[o].filled]
  OBVIOUS
<1> QED  BY <1>1 DEF BoughtIn, FilledOf

(* Where an attempt has one entry, its shares are all that was bought; ... *)
LEMMA BoughtByEntry ==
    ASSUME TypeInv, BookInv, NEW e \in EntryIds, \A f \in EntryIds : f[1] = e[1] /\ f # e => ~Exists(f)
    PROVE  BoughtIn(e[1]) = ord[e].filled
<1>1. \A f \in EntryIds : f \in OrderIds
  BY DEF OrderIds
<1>2. \A f \in EntriesOf(e[1]) : f # e => Fills[f] = 0
  BY <1>1 DEF EntriesOf, Fills, BookInv, Exists
<1>3. e \in EntriesOf(e[1]) /\ Fills[e] = ord[e].filled /\ Fills[e] \in Int
  BY <1>1, OrderNumbers DEF EntriesOf, Fills
<1>4. SumFunctionOnSet(Fills, EntriesOf(e[1])) = Fills[e]
  BY <1>2, <1>3, EntriesFinite, SumOfOne
<1> QED  BY <1>3, <1>4, BoughtIsSum

(* ... where it has none, nothing was.                                     *)
LEMMA NothingBought ==
    ASSUME BookInv, NEW a, \A f \in EntryIds : f[1] = a => ~Exists(f)
    PROVE  BoughtIn(a) = 0
<1>1. \A f \in EntriesOf(a) : Fills[f] = 0
  BY DEF EntriesOf, Fills, OrderIds, BookInv, Exists
<1> QED  BY <1>1, EntriesFinite, SumZero, BoughtIsSum

(* A count of shares is a number.                                          *)
LEMMA BoughtInt ==
    ASSUME TypeInv, NEW a
    PROVE  BoughtIn(a) \in Int
<1>1. \A e \in EntriesOf(a) : Fills[e] \in Int
  BY OrderNumbers DEF EntriesOf, Fills, OrderIds
<1> QED  BY <1>1, EntriesFinite, SumInt, BoughtIsSum

(* A fill of an entry adds to what its attempt has bought; no other fill   *)
(* does.                                                                   *)
LEMMA BoughtByFilling ==
    ASSUME TypeInv, NEW o \in OrderIds, NEW k \in Nat, Filling(o, k), NEW a
    PROVE  BoughtIn(a)' = BoughtIn(a) + (IF o \in EntryIds /\ o[1] = a THEN k ELSE 0)
<1> PICK f : f = Fills
  OBVIOUS
<1> PICK g : g = Fills'
  OBVIOUS
<1>1. \A x \in OrderIds : f[x] \in Int /\ g[x] = IF x = o THEN f[x] + k ELSE f[x]
  BY OrderNumbers DEF Fills, Filling
<1>2. /\ \A x \in EntriesOf(a) : x \in OrderIds
      /\ o \in EntriesOf(a) <=> o \in EntryIds /\ o[1] = a
  BY DEF EntriesOf, OrderIds
<1>3. BoughtIn(a) = SumFunctionOnSet(f, EntriesOf(a)) /\ BoughtIn(a)' = SumFunctionOnSet(g, EntriesOf(a))
  BY DEF BoughtIn, FilledOf, Fills, EntriesOf
<1>4. SumFunctionOnSet(f, EntriesOf(a)) \in Int
  BY <1>1, <1>2, EntriesFinite, SumInt
<1>5. CASE o \in EntriesOf(a)
  <2>1. SumFunctionOnSet(g, EntriesOf(a)) = SumFunctionOnSet(f, EntriesOf(a)) + k
    <3> PICK S : S = EntriesOf(a)
      OBVIOUS
    <3> PICK d : d = k
      OBVIOUS
    <3>1. IsFiniteSet(S) /\ o \in S /\ d \in Int
      BY <1>5, EntriesFinite
    <3>2. \A x \in S : f[x] \in Int
      BY <1>1, <1>2
    <3>3. \A x \in S : g[x] = (IF x = o THEN f[x] + d ELSE f[x])
      BY <1>1, <1>2
    <3>4. SumFunctionOnSet(g, S) = SumFunctionOnSet(f, S) + d
      BY <3>1, <3>2, <3>3, SumChange
    <3> QED  BY <3>4
  <2> QED  BY <1>2, <1>3, <1>5, <2>1
<1>6. CASE o \notin EntriesOf(a)
  <2>1. \A x \in EntriesOf(a) : f[x] \in Int /\ g[x] = f[x]
    BY <1>1, <1>2, <1>6
  <2>2. SumFunctionOnSet(f, EntriesOf(a)) = SumFunctionOnSet(g, EntriesOf(a))
    BY <2>1, EntriesFinite, SumSame
  <2> QED  BY <1>2, <1>3, <1>4, <1>6, <2>2
<1> QED  BY <1>5, <1>6

-----------------------------------------------------------------------------
(* Where a position is worked on it is being watched, and so is its row.   *)
LEMMA WorkIsWatched ==
    ASSUME Invs, pc \in AtWork
    PROVE  mem.phase \in Watching /\ saved.phase \in Watching
<1>1. pc \in EntryPlaces \cup ActivePlaces \cup ReadPlaces \cup SendPlaces
  BY DEF AtWork, PcLabels, BrokerCalls, EntryPlaces, ActivePlaces, ReadPlaces, SendPlaces
<1>2. mem.phase \in Watching
  BY <1>1 DEF Invs, PlaceInv, PhaseAt, PhaseFits, Watching
<1> QED  BY <1>2 DEF Invs, PlaceInv, SameState, Watching

(* What a step saves: the same attempt of a position under way, a new      *)
(* entry, or what there was before one that is taken back.                 *)
LEMMA WhatIsSaved ==
    ASSUME Invs, Invs', [Next]_vars
    PROVE  \/ saved' = saved
           \/ pc \in AtWork /\ EntryOf(saved') = EntryOf(saved)
           \/ EntrySave
           \/ abort_unsubmitted_entry
<1>0. TypeInv /\ TypeInv' /\ PlaceInv /\ AloneInv
  BY DEF Invs
<1>1. CASE \/ UNCHANGED vars \/ Venue \/ AdvanceClock \/ Crash \/ CallFails
           \/ Start \/ Tick \/ MinuteIdle \/ MinuteExit \/ EntryIntent
  BY <1>1 DEF vars, Venue, AdvanceClock, Crash, CallFails, Start, Tick, MinuteIdle, MinuteExit,
              EntryIntent, storeVars
<1>2. CASE Reconcile
  <2>1. pc \in AtWork
    BY <1>2 DEF Reconcile, EntryLookup, EntryGonePosition, EntryGoneOrders, CancelEntry, EntryReread,
                ActiveStop, ActiveTarget, ActiveHolding, FlatEntry, FlatCancel, FlatOrders,
                CloseRemember, AtWork, PcLabels, BrokerCalls
  <2>2. CASE FlatCancel
    BY <2>2 DEF FlatCancel, CancelOne, storeVars
  <2>3. CASE FlatEntry
    <3>1. mem \in Position /\ mem.phase # "none" /\ saved' = Remember(mem, OrderTree(EntryOf(mem)))
      BY <1>0, <2>1, <2>3 DEF TypeInv, TypeOK, FlatEntry, Save
    <3>2. SameIds(mem, saved') /\ SameIds(saved, mem)
      BY <3>1, RememberLife, SavedFacts DEF SameLife
    <3> QED  BY <2>1, <3>2 DEF SameIds, EntryOf
  <2>4. CASE Reconcile /\ ~FlatCancel /\ ~FlatEntry
    <3>1. PlainStep
      BY <1>0, <2>4, LoopAndEntryArePlain, ActiveIsPlain, ExitEndsArePlain DEF Reconcile
    <3> QED  BY <2>1, <3>1 DEF PlainStep, SameIds, EntryOf
  <2> QED  BY <1>2, <2>2, <2>3, <2>4
<1>3. CASE RequestPositionExit
  <2>1. pc \in AtWork
    BY <1>3 DEF RequestPositionExit, ExitPrevious, ExitVisible, ExitEntry, ExitBefore, ExitCancel,
                ExitRemaining, ExitRefresh, ExitFlat, ExitIntent, ExitSave, ExitPost, ExitAttach,
                AtWork, PcLabels, BrokerCalls
  <2>2. CASE ExitPrevious \/ ExitEntry \/ ExitBefore \/ ExitRemaining \/ ExitIntent \/ ExitPost
    BY <2>2 DEF ExitPrevious, ExitEntry, ExitBefore, ExitRemaining, ExitIntent, ExitPost, storeVars
  <2>3. CASE ExitCancel
    BY <2>3 DEF ExitCancel, CancelOne, storeVars
  <2>4. CASE ExitSave
    <3>1. mem \in Position /\ mem.phase # "none" /\ saved' = [mem EXCEPT !.exit = req.n, !.ask = req.qty]
      BY <1>0, <2>1, <2>4 DEF TypeInv, TypeOK, ExitSave, Save
    <3> QED  BY <2>1, <3>1, SavedFacts DEF SameIds, Position, EntryOf
  <2>5. CASE ExitFlat \/ ExitAttach \/ (ExitRefresh /\ vis # {}) \/ (ExitVisible /\ pc' # "xEntry")
    <3>1. PlainStep
      BY <1>0, <2>5, ExitEndsArePlain
    <3> QED  BY <2>1, <3>1 DEF PlainStep, SameIds, EntryOf
  <2>6. CASE (ExitRefresh /\ vis = {}) \/ (ExitVisible /\ pc' = "xEntry")
    BY <2>6 DEF ExitRefresh, ExitVisible, SaveReturn, Finish, Goto, storeVars
  <2> QED  BY <1>3, <2>2, <2>3, <2>4, <2>5, <2>6 DEF RequestPositionExit
<1>4. CASE EntryPost \/ EntryRefused
  BY <1>4 DEF EntryPost, EntryRefused, storeVars
<1>5. CASE EntryAttach
  <2>1. pc \in AtWork /\ PlainStep
    BY <1>0, <1>5, ExitEndsArePlain DEF EntryAttach, AtWork, PcLabels
  <2> QED  BY <2>1 DEF PlainStep, SameIds, EntryOf
<1> QED  BY <1>1, <1>2, <1>3, <1>4, <1>5 DEF Next, Monitor, Enter
-----------------------------------------------------------------------------
(* The entries of the attempt that is saved: its own and no other.         *)
LEMMA OwnEntry ==
    ASSUME Invs, KnownOrders, saved.phase # "none"
    PROVE  /\ EntryOf(saved) \in EntryIds /\ EntryOf(saved)[1] = saved.attempt
           /\ saved.attempt \in 1..2
           /\ BoughtIn(saved.attempt) = ord[EntryOf(saved)].filled
<1> PICK e : e = EntryOf(saved)
  OBVIOUS
<1>1. e \in EntryIds /\ e[1] = saved.attempt /\ saved.attempt \in 1..2
  BY SavedFacts DEF EntryOf, Numbered, Attempts
<1>2. \A f \in EntryIds : f[1] = e[1] /\ f # e => ~Exists(f)
  BY <1>1 DEF KnownOrders
<1>3. BoughtIn(e[1]) = ord[e].filled
  BY <1>1, <1>2, BoughtByEntry DEF Invs
<1> QED  BY <1>1, <1>3

(* The trade does not see a step that fills nothing and saves the attempt  *)
(* and the phase there were, up to what kind of watching it is.            *)
LEMMA Unseen ==
    ASSUME \A o \in OrderIds : ord'[o].filled = ord[o].filled, held' = held,
           saved'.attempt = saved.attempt,
           saved'.phase = saved.phase \/ {saved.phase, saved'.phase} \subseteq Watching
    PROVE  UNCHANGED Trade!tradeVars
<1>1. [a \in 1..2 |-> BoughtIn(a)]' = [a \in 1..2 |-> BoughtIn(a)]
  BY BoughtSame
<1> QED  BY <1>1 DEF Trade!tradeVars, Watching

(* A fill buys for the attempt under way, or sells what is held.           *)
LEMMA FillingIsTrade ==
    ASSUME Invs, HoldInv, HoldInv', NEW o \in OrderIds, NEW k \in Nat, Filling(o, k), saved' = saved
    PROVE  Trade!TradeNext
<1>1. KnownOrders /\ Account /\ held \in Int /\ held' >= 0
  BY DEF HoldInv, Account, Invs, TypeInv, TypeOK, BrokerTypeOK
<1>2. o \in OpenOrders /\ IsLive(ord[o]) /\ Exists(o)
  BY DEF Filling, OpenOrders, IsLive, Exists
<1>3. saved.phase \in Watching /\ saved.phase # "none"
  BY <1>1, <1>2, OpenInFamily DEF Watching
<1> PICK a : a = saved.attempt
  OBVIOUS
<1> PICK e : e = EntryOf(saved)
  OBVIOUS
<1>4. e \in EntryIds /\ e[1] = a /\ a \in 1..2 /\ BoughtIn(a) = ord[e].filled
  BY <1>1, <1>3, OwnEntry
<1>5. k \in 1..Room(o) /\ ord[o].filled \in Nat /\ ord[o].qty \in Nat /\ k >= 1
  BY OrderNumbers DEF Filling, Invs
<1>6. \A b \in 1..2 : BoughtIn(b)' = BoughtIn(b) + (IF o \in EntryIds /\ o[1] = b THEN k ELSE 0)
  BY BoughtByFilling DEF Invs
<1> PICK old : old = [b \in 1..2 |-> BoughtIn(b)]
  OBVIOUS
<1> PICK new : new = [b \in 1..2 |-> BoughtIn(b)']
  OBVIOUS
<1>7. CASE o \in EntryIds
  <2>1. o = e
    BY <1>1, <1>2, <1>7 DEF KnownOrders, StoppedOut
  <2>2. o \notin LegIds /\ ord[o].qty = Qty
    BY <1>2, <1>7, IdsDiffer DEF Invs, BookInv, Bracket
  <2>3. k \in 1..(Qty - BoughtIn(a))
    BY <1>4, <1>5, <2>1, <2>2 DEF Room
  <2>4. new = [old EXCEPT ![a] = @ + k]
    <3>1. \A b \in 1..2 : b # a => BoughtIn(b)' = BoughtIn(b) + 0
      BY <1>4, <1>6, <1>7, <2>1
    <3>2. BoughtIn(a)' = BoughtIn(a) + k
      BY <1>4, <1>6, <1>7, <2>1
    <3>3. \A b \in 1..2 : BoughtIn(b) \in Int
      BY BoughtInt DEF Invs
    <3> QED  BY <1>4, <3>1, <3>2, <3>3
  <2>5. held' = held + k
    BY <1>7 DEF Filling
  <2>6. Trade!Buy
    BY <1>3, <1>4, <2>3, <2>4, <2>5 DEF Trade!Buy, Watching
  <2> QED  BY <2>6 DEF Trade!TradeNext
<1>8. CASE o \notin EntryIds
  <2>1. held' = held - k
    BY <1>8 DEF Filling
  <2>2. k \in 1..held
    BY <1>1, <1>5, <2>1
  <2>3. new = old
    <3>1. \A b \in 1..2 : BoughtIn(b)' = BoughtIn(b) + 0
      BY <1>6, <1>8
    <3>2. \A b \in 1..2 : BoughtIn(b) \in Int
      BY BoughtInt DEF Invs
    <3> QED  BY <3>1, <3>2
  <2>4. Trade!Sell
    BY <1>3, <2>1, <2>2, <2>3 DEF Trade!Sell, Watching
  <2> QED  BY <2>4 DEF Trade!TradeNext
<1> QED  BY <1>7, <1>8

(* A position is put away when nothing is held, and stopped only when the  *)
(* stop sold the first attempt.                                            *)
LEMMA PuttingAwayIsTrade ==
    ASSUME Invs, Invs', HoldInv, HoldInv', saved.phase \in Watching, EntryOf(saved') = EntryOf(saved),
           \A o \in OrderIds : ord'[o].filled = ord[o].filled, held' = held
    PROVE  [Trade!TradeNext]_(Trade!tradeVars)
<1> PICK a : a = saved.attempt
  OBVIOUS
<1> PICK e : e = EntryOf(saved)
  OBVIOUS
<1>0. saved'.attempt = saved.attempt
  BY DEF EntryOf
<1>1. saved.phase # "none" /\ e \in EntryIds /\ a \in 1..2 /\ BoughtIn(a) = ord[e].filled
  BY OwnEntry DEF HoldInv, Watching
<1>2. saved'.phase \in Phases /\ saved'.phase # "none"
  BY <1>0, <1>1 DEF Invs, TypeInv, TypeOK, Position, HoldInv, KnownOrders
<1>3. [b \in 1..2 |-> BoughtIn(b)]' = [b \in 1..2 |-> BoughtIn(b)]
  BY BoughtSame
<1>4. CASE saved'.phase \in Watching
  BY <1>0, <1>4, Unseen
<1>5. CASE saved'.phase = "complete"
  <2>1. held = 0
    BY <1>5 DEF HoldInv, Account
  <2>2. Trade!Finish
    BY <1>0, <1>3, <1>5, <2>1 DEF Trade!Finish, Watching
  <2> QED  BY <2>2 DEF Trade!TradeNext
<1>6. CASE saved'.phase = "stopped"
  <2>1. held = 0 /\ a = 1
    BY <1>0, <1>6 DEF HoldInv, Account, KnownOrders
  <2>2. BoughtIn(1) > 0
    <3>1. StoppedOut(e)'
      BY <1>6 DEF HoldInv, KnownOrders
    <3>2. {e, StopOf(e), TargetOf(e)} \subseteq OrderIds
      BY <1>1, BracketIds DEF Invs
    <3>3. \A o \in {e, StopOf(e), TargetOf(e)} : ord'[o].filled = ord[o].filled /\ ord[o].filled \in Nat
      BY <3>2, OrderNumbers DEF Invs
    <3>4. ord[e].filled > 0
      BY <3>1, <3>3 DEF StoppedOut
    <3> QED  BY <1>1, <2>1, <3>4
  <2>3. Trade!Stop
    BY <1>0, <1>3, <1>6, <2>1, <2>2 DEF Trade!Stop, Watching
  <2> QED  BY <2>3 DEF Trade!TradeNext
<1> QED  BY <1>2, <1>4, <1>5, <1>6 DEF Phases, Watching

(* A new entry opens the next attempt.                                     *)
LEMMA EntrySaveIsOpen ==
    ASSUME Invs, HoldInv, EntrySave,
           \A o \in OrderIds : ord'[o].filled = ord[o].filled, held' = held
    PROVE  Trade!Open
<1>1. pc = "eSave" /\ mem.phase = "none" /\ attempts = saved.attempt
  BY DEF EntrySave, Invs, PlaceInv, PhaseAt, PhaseFits, HoldInv, EntryPlan
<1>2. saved.phase \in {"none", "stopped"}
  BY <1>1 DEF Invs, PlaceInv, PutAway
<1>3. /\ saved.phase = "none" => saved.attempt = 0
      /\ saved.phase = "stopped" => saved.attempt = 1
  BY DEF HoldInv, KnownOrders
<1>4. saved'.phase = "entry_pending" /\ saved'.attempt = saved.attempt + 1
  BY <1>1 DEF EntrySave, Save, NoPosition
<1>5. [b \in 1..2 |-> BoughtIn(b)]' = [b \in 1..2 |-> BoughtIn(b)]
  BY BoughtSame
<1> QED  BY <1>2, <1>3, <1>4, <1>5 DEF Trade!Open

(* A refused entry is withdrawn: it never reached the venue, and the       *)
(* symbol state before it says where the trade stood.                      *)
LEMMA AbortIsWithdraw ==
    ASSUME Invs, HoldInv, abort_unsubmitted_entry,
           \A o \in OrderIds : ord'[o].filled = ord[o].filled, held' = held
    PROVE  Trade!Withdraw
<1>1. pc = "eAbort" /\ saved' = prior
  BY DEF abort_unsubmitted_entry
<1>2. saved.phase = "entry_pending" /\ saved.attempt \in 1..2
  <2>1. mem.phase = "entry_pending" /\ saved.phase = "entry_pending"
    BY <1>1 DEF Invs, PlaceInv, PhaseAt, PhaseFits, EntryPlaces, SameState
  <2> QED  BY <2>1, OwnEntry DEF HoldInv
<1>3. /\ prior.phase \in {"none", "stopped"} /\ prior.attempt + 1 = saved.attempt
      /\ \A e \in EntryIds : Exists(e) => e = EntryOf(prior)
      /\ prior.phase = "none" => prior.attempt = 0
      /\ prior.phase = "stopped" => prior.attempt = 1
  BY <1>1 DEF Invs, PlaceInv, PutAway, HoldInv, EntryPlan
<1>4. BoughtIn(saved.attempt) = 0
  <2>1. prior.attempt \in Int /\ EntryOf(prior)[1] = prior.attempt
    BY <1>3 DEF EntryOf
  <2>2. \A f \in EntryIds : f[1] = saved.attempt => ~Exists(f)
    BY <1>3, <2>1
  <2> QED  BY <2>2, NothingBought DEF Invs
<1>5. [b \in 1..2 |-> BoughtIn(b)]' = [b \in 1..2 |-> BoughtIn(b)]
  BY BoughtSame
<1>6. prior.attempt = saved.attempt - 1 /\ (saved.attempt = 1 <=> prior.phase = "none")
  BY <1>2, <1>3
<1> QED  BY <1>1, <1>2, <1>3, <1>4, <1>5, <1>6 DEF Trade!Withdraw

(* Every step is a step of the trade, or is not seen.                      *)
LEMMA NextIsTrade ==
    ASSUME Invs, Invs', HoldInv, HoldInv', Prompt, [Next]_vars
    PROVE  [Trade!TradeNext]_(Trade!tradeVars)
<1>1. CASE \E o \in OrderIds, k \in Nat : Venue /\ Filling(o, k)
  <2>1. saved' = saved
    BY <1>1 DEF Venue, storeVars
  <2> QED  BY <1>1, <2>1, FillingIsTrade
<1>2. ASSUME ~\E o \in OrderIds, k \in Nat : Venue /\ Filling(o, k)
      PROVE  (\A o \in OrderIds : ord'[o].filled = ord[o].filled) /\ held' = held
  <2>1. \/ Still
        \/ \E id \in EntryIds \cup ExitIds : \E q : Sent(id, q)
    <3>1. ExitPost => ExitId(mem, mem.exit) \in ExitIds
      BY MemIds DEF ExitPost, Invs, PlaceInv, PhaseAt, PhaseFits, SendPlaces, TypeInv, TypeOK
    <3>2. EntryPost => EntryOf(mem) \in EntryIds
      BY MemIds DEF EntryPost, Invs, PlaceInv, PhaseAt, PhaseFits, EntryPlaces, TypeInv, TypeOK
    <3> QED  BY <1>2, <3>1, <3>2, StepOfVenue DEF Invs
  <2>2. CASE Still
    BY <2>2 DEF Still
  <2>3. CASE \E id \in EntryIds \cup ExitIds : \E q : Sent(id, q)
    BY <2>3, SentFills DEF Invs, Sent
  <2> QED  BY <2>1, <2>2, <2>3
<1>3. CASE ~\E o \in OrderIds, k \in Nat : Venue /\ Filling(o, k)
  <2>1. CASE saved' = saved
    BY <1>2, <1>3, <2>1, Unseen
  <2>2. CASE pc \in AtWork /\ EntryOf(saved') = EntryOf(saved)
    BY <1>2, <1>3, <2>2, WorkIsWatched, PuttingAwayIsTrade
  <2>3. CASE EntrySave
    BY <1>2, <1>3, <2>3, EntrySaveIsOpen DEF Trade!TradeNext
  <2>4. CASE abort_unsubmitted_entry
    BY <1>2, <1>3, <2>4, AbortIsWithdraw DEF Trade!TradeNext
  <2> QED  BY <2>1, <2>2, <2>3, <2>4, WhatIsSaved
<1> QED  BY <1>1, <1>3

(* Before anything happened the trade is idle.                             *)
LEMMA InitIsTrade == Init => Trade!TradeInit
<1> SUFFICES ASSUME Init PROVE Trade!TradeInit
  OBVIOUS
<1>1. saved.phase = "none" /\ saved.attempt = 0 /\ held = 0 /\ ord = [o \in OrderIds |-> NoOrder]
  BY DEF Init, BrokerInit, NoPosition
<1>2. \A a : BoughtIn(a) = 0
  BY <1>1, InitBooks, NothingBought DEF Exists, NoOrder, OrderIds
<1> QED  BY <1>1, <1>2 DEF Trade!TradeInit

(* With a venue that answers promptly, what the monitor does with a symbol *)
(* in a day, over all its calls, failures, refusals and restarts, is a     *)
(* long-only trade: at most two attempts of at most Qty shares, nothing    *)
(* bought or sold outside an open attempt, nothing sold that is not held,  *)
(* an attempt put away only flat, a second one only after a stop.          *)
THEOREM MonitorIsALongOnlyTrade == ASSUME Prompt PROVE Spec => ImplementsLongOnlyTrade
<1>1. Invs /\ Invs' /\ HoldInv /\ HoldInv' /\ [Next]_vars => [Trade!TradeNext]_(Trade!tradeVars)
  BY NextIsTrade
<1> QED  BY <1>1, InitIsTrade, HoldInvCorrect, TypeInvCorrect, PlaceInvCorrect, AloneInvCorrect,
         BookInvCorrect, PTL DEF Spec, Invs, ImplementsLongOnlyTrade, Trade!TradeSpec
=============================================================================
