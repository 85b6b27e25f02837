------------------------ MODULE ModernMonitor_proofs ------------------------
(***************************************************************************)
(* What holds of ModernMonitor for every entry quantity, number of aborts  *)
(* and of failures, and for every choice of the venue's defects:           *)
(*                                                                         *)
(*   TypeCorrect               Spec => []TypeOK                            *)
(*   IntentBeforeOrderCorrect  Spec => []IntentBeforeOrder                 *)
(*                                                                         *)
(* First what the venue does to its orders, then what each part of the     *)
(* monitor does to the types, then what it does to the intents.            *)
(***************************************************************************)
EXTENDS ModernMonitor, TLAPS

(* order_id() stays within the client ids of its role, and the legs and    *)
(* the parent of an order are ids again.                                   *)
LEMMA IdTypes ==
    /\ \A a \in Attempts, n \in 0..MaxAborts : <<a, "entry", n>> \in EntryIds
    /\ \A a \in Attempts, n \in Retries : <<a, "exit", n>> \in ExitIds
    /\ \A e \in EntryIds : StopOf(e) \in LegIds /\ TargetOf(e) \in LegIds
    /\ \A l \in LegIds : Sibling(l) \in LegIds /\ EntryOfLeg(l) \in EntryIds
<1>1. \A a \in Attempts, n \in 0..MaxAborts : <<a, "entry", n>> \in EntryIds
  BY DEF EntryIds
<1>2. \A a \in Attempts, n \in Retries : <<a, "exit", n>> \in ExitIds
  BY DEF ExitIds
<1>3. \A e \in EntryIds : StopOf(e) \in LegIds /\ TargetOf(e) \in LegIds
  BY DEF EntryIds, LegIds, StopOf, TargetOf
<1>4. \A l \in LegIds : Sibling(l) \in LegIds /\ EntryOfLeg(l) \in EntryIds
  BY DEF EntryIds, LegIds, Sibling, EntryOfLeg
<1> QED  BY <1>1, <1>2, <1>3, <1>4

(* The ids of entries, legs and exits never collide.                       *)
LEMMA IdsDiffer ==
    EntryIds \cap ExitIds = {} /\ EntryIds \cap LegIds = {} /\ LegIds \cap ExitIds = {}
BY DEF EntryIds, ExitIds, LegIds

-----------------------------------------------------------------------------
(* f holds the same orders with the same quantities as the venue.          *)
SameOrders(f) == \A o \in OrderIds : /\ f[o].qty = ord[o].qty
                                     /\ f[o].st = "none" <=> ord[o].st = "none"

(* What the assumption on the entry quantity gives the other proofs.       *)
LEMMA QtyFacts == Qty \in Nat /\ {0, Qty} \subseteq 0..Qty /\ Qty \in 1..Qty /\ NoOrder \in Order
BY QtyAssumption DEF NoOrder, Order, Statuses, Terminal, Protective

(* Accepting a POST leaves the venue with a well-typed order book.         *)
LEMMA AcceptedType ==
    ASSUME BrokerTypeOK, NEW id \in OrderIds, NEW q \in 0..Qty, NEW legs \in BOOLEAN
    PROVE  Accepted(id, q, legs) \in [OrderIds -> Order]
BY QtyFacts DEF Accepted, Working, Held, BrokerTypeOK, Order, Statuses, Terminal, Protective

(* A confirmed cancel or an order ended by the venue keeps the order book  *)
(* well typed and every order's quantity.                                  *)
LEMMA EndedType ==
    ASSUME BrokerTypeOK, NEW o \in OrderIds, Exists(o), NEW f \in Ended(o)
    PROVE  f \in [OrderIds -> Order] /\ SameOrders(f)
BY DEF Ended, IsLive, Exists, BrokerTypeOK, SameOrders, Order, Statuses, Terminal, Protective

(* A DELETE, answered or not, changes only the status of an order.         *)
LEMMA CancelRequestedType ==
    ASSUME BrokerTypeOK, NEW o
    PROVE  CancelRequested(o) \in [OrderIds -> Order] /\ SameOrders(CancelRequested(o))
BY DEF CancelRequested, IsLive, BrokerTypeOK, SameOrders, Order, Statuses, Terminal, Protective

(* A fill never exceeds the order, and changes no order's quantity.        *)
LEMMA FillType ==
    ASSUME BrokerTypeOK, NEW o \in OrderIds, Exists(o), NEW k \in 1..Room(o)
    PROVE  AfterFill(o, k) \in [OrderIds -> Order] /\ SameOrders(AfterFill(o, k))
<1>1. ord[o] \in Order /\ ord[o].filled + k \in 0..Qty
  <2>1. CASE o \in LegIds
    <3>1. Sibling(o) \in OrderIds
      BY <2>1, IdTypes DEF OrderIds
    <3>2. ord[o].filled \in 0..Qty /\ ord[o].qty \in 0..Qty /\ ord[Sibling(o)].filled \in 0..Qty
      BY <3>1 DEF BrokerTypeOK, Order
    <3> QED  BY <2>1, <3>2, QtyFacts DEF Room, BrokerTypeOK
  <2>2. CASE o \notin LegIds
    <3>1. ord[o].filled \in 0..Qty /\ ord[o].qty \in 0..Qty
      BY DEF BrokerTypeOK, Order
    <3> QED  BY <2>2, <3>1, QtyFacts DEF Room, BrokerTypeOK
  <2> QED  BY <2>1, <2>2
<1> QED  BY <1>1 DEF AfterFill, IsLive, Exists, BrokerTypeOK, SameOrders, Order, Statuses,
                     Terminal, Protective

(* Every entry and exit after the step was there, or comes from a POST of  *)
(* W.                                                                      *)
OrdersFrom(W) ==
    \A o \in EntryIds \cup ExitIds : ord'[o].st # "none" =>
        \/ ord[o].st # "none" /\ ord'[o].qty = ord[o].qty
        \/ \E r \in W : r.id = o /\ r.qty = ord'[o].qty

(* Accepting a POST makes the order that was posted and no other entry or  *)
(* exit.                                                                   *)
LEMMA AcceptedIsFrom ==
    ASSUME BrokerTypeOK, NEW id \in EntryIds \cup ExitIds, NEW q, NEW legs \in BOOLEAN,
           ord' = Accepted(id, q, legs)
    PROVE  OrdersFrom({[id |-> id, qty |-> q]})
BY IdTypes, IdsDiffer DEF Accepted, OrdersFrom, OrderIds, Working, Held

(* When no order appears, every order there is was there before.           *)
LEMMA SameOrdersIsFrom ==
    ASSUME NEW W, SameOrders(ord')
    PROVE  OrdersFrom(W)
BY DEF SameOrders, OrdersFrom, OrderIds

(* Whatever the venue does by itself keeps its type, creates no entry or   *)
(* exit but from a POST still travelling, and adds none to those.          *)
LEMMA BrokerStep ==
    ASSUME BrokerTypeOK, BrokerNext
    PROVE  BrokerTypeOK' /\ OrdersFrom(wire) /\ wire' \subseteq wire
<1>1. ASSUME NEW o \in OrderIds, Fill(o)
      PROVE  BrokerTypeOK' /\ OrdersFrom(wire) /\ wire' \subseteq wire
  <2>1. Exists(o) /\ UNCHANGED <<wire, glitches>>
    BY <1>1 DEF Fill, Exists
  <2>2. PICK k \in 1..Room(o) : ord' = AfterFill(o, k) /\ Settle(o, k)
    BY <1>1 DEF Fill
  <2>3. k \in Int
    BY <2>2
  <2>4. held' \in Int /\ seen' \in Int
    BY <2>2, <2>3 DEF Settle, BrokerTypeOK
  <2> QED  BY <2>1, <2>2, <2>4, FillType, SameOrdersIsFrom DEF BrokerTypeOK
<1>2. ASSUME NEW o \in OrderIds, ConfirmCancel(o) \/ VenueEnds(o)
      PROVE  BrokerTypeOK' /\ OrdersFrom(wire) /\ wire' \subseteq wire
  <2>1. Exists(o) /\ ord' \in Ended(o) /\ UNCHANGED <<wire, held, seen>>
    BY <1>2 DEF ConfirmCancel, VenueEnds, Exists
  <2>2. glitches' \in 0..MaxGlitches
    BY <1>2, GlitchesAssumption DEF ConfirmCancel, VenueEnds, Glitch, BrokerTypeOK
  <2> QED  BY <2>1, <2>2, EndedType, SameOrdersIsFrom DEF BrokerTypeOK
<1>3. ASSUME NEW e \in EntryIds, ActivateLegs(e)
      PROVE  BrokerTypeOK' /\ OrdersFrom(wire) /\ wire' \subseteq wire
  <2>1. ord' \in [OrderIds -> Order] /\ SameOrders(ord')
    BY <1>3 DEF ActivateLegs, BrokerTypeOK, SameOrders, Order, Statuses, Terminal, Protective
  <2> QED  BY <1>3, <2>1, SameOrdersIsFrom DEF ActivateLegs, BrokerTypeOK
<1>4. ASSUME NEW r \in wire, DeliverLate(r)
      PROVE  BrokerTypeOK' /\ OrdersFrom(wire) /\ wire' \subseteq wire
  <2>1. r.id \in EntryIds \cup ExitIds /\ r.id \in OrderIds /\ r.qty \in 0..Qty
    BY QtyAssumption DEF BrokerTypeOK, Request, OrderIds
  <2>2. CASE Exists(r.id)
    <3>1. ord' = ord /\ SameOrders(ord')
      BY <1>4, <2>2 DEF DeliverLate, SameOrders
    <3> QED  BY <1>4, <3>1, SameOrdersIsFrom DEF DeliverLate, BrokerTypeOK
  <2>3. CASE ~Exists(r.id)
    <3>1. ord' = Accepted(r.id, r.qty, TRUE)
      BY <1>4, <2>3 DEF DeliverLate
    <3>2. OrdersFrom({[id |-> r.id, qty |-> r.qty]})
      BY <2>1, <3>1, AcceptedIsFrom
    <3>3. OrdersFrom(wire)
      BY <3>2 DEF OrdersFrom
    <3> QED  BY <1>4, <2>1, <3>1, <3>3, AcceptedType DEF DeliverLate, BrokerTypeOK
  <2> QED  BY <2>2, <2>3
<1>5. ASSUME PublishPosition
      PROVE  BrokerTypeOK' /\ OrdersFrom(wire) /\ wire' \subseteq wire
  BY <1>5 DEF PublishPosition, BrokerTypeOK, OrdersFrom
<1> QED  BY <1>1, <1>2, <1>3, <1>4, <1>5 DEF BrokerNext

(* _submit_idempotent, whether answered, refused or lost, can bring only   *)
(* the order it was given to the venue or to the wire.                     *)
LEMMA SubmitStep ==
    ASSUME BrokerTypeOK, NEW id \in EntryIds \cup ExitIds, NEW q \in 1..Qty, NEW next,
           SubmitIdempotent(id, q, next)
    PROVE  /\ BrokerTypeOK' /\ OrdersFrom({[id |-> id, qty |-> q]})
           /\ wire' \subseteq wire \cup {[id |-> id, qty |-> q]}
<1>1. id \in OrderIds /\ q \in 0..Qty /\ [id |-> id, qty |-> q] \in Request
  BY QtyAssumption DEF OrderIds, Request
<1>2. CASE UNCHANGED brokerVars
  BY <1>2 DEF brokerVars, BrokerTypeOK, OrdersFrom
<1>3. CASE Accept(id, q) /\ UNCHANGED wire
  <2>1. PICK legs \in BOOLEAN : ord' = Accepted(id, q, legs)
    BY <1>3 DEF Accept
  <2>2. held' \in Int /\ seen' \in Int /\ glitches' \in 0..MaxGlitches
    <3>1. UNCHANGED <<held, seen>> /\ (UNCHANGED glitches \/ Glitch)
      BY <1>3 DEF Accept
    <3> QED  BY <3>1, GlitchesAssumption DEF Glitch, BrokerTypeOK
  <2> QED  BY <1>1, <1>3, <2>1, <2>2, AcceptedType, AcceptedIsFrom DEF BrokerTypeOK
<1>4. CASE PostLost(id, q)
  <2>1. held' \in Int /\ seen' \in Int /\ glitches' \in 0..MaxGlitches
    BY <1>4, GlitchesAssumption DEF PostLost, BrokerTypeOK
  <2>2. CASE UNCHANGED ord
    BY <1>1, <1>4, <2>1, <2>2 DEF PostLost, BrokerTypeOK, OrdersFrom
  <2>3. CASE ord' = Accepted(id, q, TRUE) /\ UNCHANGED wire
    BY <1>1, <2>1, <2>3, AcceptedType, AcceptedIsFrom DEF BrokerTypeOK
  <2> QED  BY <1>4, <2>2, <2>3 DEF PostLost
<1> QED  BY <1>2, <1>3, <1>4 DEF SubmitIdempotent

-----------------------------------------------------------------------------
(* A position under way belongs to an attempt.                             *)
Numbered(p) == p.phase # "none" => p.attempt \in Attempts

(* Where an iteration works on a position.                                 *)
AtWork == PcLabels \ {"down", "tick", "minute", "eSave"}

(* TypeOK is not inductive: the client ids are made of the numbers in mem  *)
(* and req, so the invariant says which of them are set at each place.     *)
TypeInv ==
    /\ TypeOK
    /\ Numbered(saved) /\ Numbered(mem) /\ Numbered(prior)
    /\ pc \in AtWork => mem.phase # "none"
    /\ pc = "eSave" => attempts < 2 /\ req.n \in 0..MaxAborts
    /\ pc = "xSave" => req.n \in Retries /\ req.qty # 0
    /\ pc \in {"xPost", "xAttach"} => mem.exit \in Retries /\ mem.ask # 0
    /\ pc \in {"ePost", "eAbort"} => attempts > 0

StoreOK  == row \in [OrderIds -> Row] /\ saved \in Position /\ Numbered(saved)
LocalsOK == /\ {cancelEntries, partial} \subseteq BOOLEAN
            /\ via \in {"none", "minute", "reconcile"}
            /\ snapA \in Order /\ snapB \in Order
            /\ vis \subseteq OrderIds /\ todo \subseteq OrderIds
            /\ req \in [n : 0..MaxAborts \cup Retries, qty : 0..Qty]
            /\ prior \in Position /\ Numbered(prior)
MemOK    == /\ mem \in Position /\ Numbered(mem)
            /\ attempts \in 0..2 /\ outcome \in {"none", "complete", "stopped"}
            /\ fault \in Faults
PlaceOK  == /\ pc \in PcLabels
            /\ pc \in AtWork => mem.phase # "none"
            /\ pc = "eSave" => attempts < 2 /\ req.n \in 0..MaxAborts
            /\ pc = "xSave" => req.n \in Retries /\ req.qty # 0
            /\ pc \in {"xPost", "xAttach"} => mem.exit \in Retries /\ mem.ask # 0
            /\ pc \in {"ePost", "eAbort"} => attempts > 0
ClockOK  == clock \in {"open", "cancel", "flatten"}

(* The invariant, regrouped by the part of the state it speaks of.         *)
LEMMA TypeInvParts ==
    TypeInv <=> BrokerTypeOK /\ StoreOK /\ LocalsOK /\ MemOK /\ PlaceOK /\ ClockOK
BY DEF TypeInv, TypeOK, StoreOK, LocalsOK, MemOK, PlaceOK, ClockOK

(* q is p in another phase or with other observations.                     *)
SameTrade(p, q) ==
    /\ q \in Position
    /\ q.attempt = p.attempt /\ q.entry = p.entry /\ q.exit = p.exit /\ q.ask = p.ask
    /\ q.phase = "none" <=> p.phase = "none"

(* _remember_fill changes only the observed fills of a position.           *)
LEMMA RememberType ==
    ASSUME BrokerTypeOK, NEW p \in Position, NEW S
    PROVE  SameTrade(p, Remember(p, S)) /\ Remember(p, S).shares = p.shares
BY DEF SameTrade, Remember, Position, BrokerTypeOK, Order

(* A change of phase leaves the trade of a position as it is.              *)
LEMMA PhaseType ==
    ASSUME NEW p \in Position, p.phase # "none", NEW ph \in Phases \ {"none"}
    PROVE  SameTrade(p, [p EXCEPT !.phase = ph])
BY DEF SameTrade, Position

(* The absent position is a position.                                      *)
LEMMA NoPositionType == NoPosition \in Position /\ Numbered(NoPosition)
BY QtyFacts, AbortsAssumption DEF NoPosition, Position, Phases, Retries, Numbered

(* attach_broker_order only binds rows: no quantity changes and no row     *)
(* appears.                                                                *)
LEMMA AttachType ==
    ASSUME row \in [OrderIds -> Row], NEW S, Attach(S)
    PROVE  /\ row' \in [OrderIds -> Row]
           /\ \A o \in OrderIds : /\ row'[o].qty = row[o].qty
                                 /\ row'[o].st \in {row[o].st, "bound"}
                                 /\ row[o].st = "none" => row'[o].st = "none"
BY DEF Attach, Row

(* record_order_intent writes one row, and only when there was none.       *)
LEMMA RecordType ==
    ASSUME row \in [OrderIds -> Row], NEW id \in OrderIds, NEW q \in 0..Qty,
           RecordIntent(id, q)
    PROVE  /\ row' \in [OrderIds -> Row]
           /\ \A o \in OrderIds : o # id => row'[o] = row[o]
           /\ row[id].st # "none" => row' = row
           /\ row[id].st = "none" => row'[id] = [st |-> "intent", qty |-> q]
BY DEF RecordIntent, Row

(* The client ids of a position under way are ids of its attempt.          *)
LEMMA MemIds ==
    ASSUME BrokerTypeOK, NEW p \in Position, p.phase # "none", Numbered(p)
    PROVE  /\ EntryOf(p) \in EntryIds /\ EntryOf(p) \in OrderIds
           /\ StopOf(EntryOf(p)) \in OrderIds /\ TargetOf(EntryOf(p)) \in OrderIds
           /\ \A n \in Retries : ExitId(p, n) \in ExitIds /\ ExitId(p, n) \in OrderIds
<1>1. p.attempt \in Attempts /\ p.entry \in 0..MaxAborts
  BY DEF Numbered, Position
<1>2. EntryOf(p) \in EntryIds
  BY <1>1, IdTypes DEF EntryOf
<1>3. \A n \in Retries : ExitId(p, n) \in ExitIds
  BY <1>1, IdTypes DEF ExitId
<1> QED  BY <1>2, <1>3, IdTypes DEF OrderIds

(* The locals of an iteration are well typed when its arguments are.       *)
LEMMA LocalsType ==
    ASSUME NEW c \in BOOLEAN, NEW v \in {"none", "minute", "reconcile"}, NEW pt \in BOOLEAN,
           NEW a \in Order, NEW b \in Order, NEW s \in SUBSET OrderIds,
           NEW t \in SUBSET OrderIds,
           Locals(c, v, pt, a, b, s, t, NoRequest, NoPosition)
    PROVE  LocalsOK'
<1>1. {cancelEntries', partial'} \subseteq BOOLEAN
  BY DEF Locals
<1>2. via' \in {"none", "minute", "reconcile"} /\ snapA' \in Order /\ snapB' \in Order
  BY DEF Locals
<1>3. vis' \subseteq OrderIds /\ todo' \subseteq OrderIds
  BY DEF Locals
<1>4. req' \in [n : 0..MaxAborts \cup Retries, qty : 0..Qty]
  BY QtyFacts, AbortsAssumption DEF Locals, NoRequest, Retries
<1>5. prior' \in Position /\ Numbered(prior')
  BY NoPositionType DEF Locals
<1> QED  BY <1>1, <1>2, <1>3, <1>4, <1>5 DEF LocalsOK

(* The locals an iteration leaves behind are well typed.                   *)
LEMMA ClearType ==
    ASSUME ClearLocals
    PROVE  LocalsOK'
<1>1. FALSE \in BOOLEAN /\ NoOrder \in Order /\ {} \in SUBSET OrderIds
      /\ "none" \in {"none", "minute", "reconcile"}
  BY QtyFacts
<1>2. Locals(FALSE, "none", FALSE, NoOrder, NoOrder, {}, {}, NoRequest, NoPosition)
  BY DEF ClearLocals
<1> QED  BY ONLY <1>1, <1>2, LocalsType, Zenon

(* Falling into close() keeps the locals well typed.                       *)
LEMMA CloseNowType ==
    ASSUME CloseNow
    PROVE  LocalsOK' /\ pc' = "close" /\ fault' = fault
<1>1. FALSE \in BOOLEAN /\ NoOrder \in Order /\ {} \in SUBSET OrderIds
      /\ "reconcile" \in {"none", "minute", "reconcile"}
  BY QtyFacts
<1>2. Locals(FALSE, "reconcile", FALSE, NoOrder, NoOrder, {}, {}, NoRequest, NoPosition)
  BY DEF CloseNow
<1>3. LocalsOK'
  BY ONLY <1>1, <1>2, LocalsType, Zenon
<1> QED  BY <1>3 DEF CloseNow, Goto

(* Back in the loop nothing is asked of the place.                         *)
LEMMA PlaceLoop ==
    ASSUME pc' \in {"tick", "minute"}
    PROVE  PlaceOK'
BY DEF PlaceOK, AtWork, PcLabels

(* While orders are read, a position is all the place asks for.            *)
LEMMA PlaceReading ==
    ASSUME pc' \in BrokerCalls \cup {"close"}, mem'.phase # "none"
    PROVE  PlaceOK'
BY DEF PlaceOK, PcLabels, BrokerCalls

(* What a step does not touch keeps its type.                              *)
LEMMA Unchanged ==
    /\ BrokerTypeOK /\ UNCHANGED brokerVars => BrokerTypeOK'
    /\ ClockOK /\ UNCHANGED clock => ClockOK'
    /\ StoreOK /\ UNCHANGED storeVars => StoreOK'
    /\ LocalsOK /\ UNCHANGED localVars => LocalsOK'
BY DEF BrokerTypeOK, brokerVars, ClockOK, StoreOK, storeVars, LocalsOK, localVars

(* An exception ends the iteration with well-typed locals.                 *)
LEMMA RaiseType ==
    ASSUME NEW why, Raise(why)
    PROVE  LocalsOK' /\ pc' = "tick" /\ fault' = why
BY ClearType DEF Raise

(* The end of a reconciliation keeps the types of memory and locals.       *)
LEMMA FinishType ==
    ASSUME NEW p \in Position, Numbered(p), MemOK, attempts' = attempts, Finish(p)
    PROVE  LocalsOK' /\ MemOK' /\ pc' = "minute"
BY ClearType, NoPositionType DEF Finish, Goto, MemOK, Faults

(* The same trade in another phase is still a numbered position.           *)
LEMMA SameTradeType ==
    ASSUME NEW p \in Position, Numbered(p), NEW q, SameTrade(p, q)
    PROVE  q \in Position /\ Numbered(q)
BY DEF SameTrade, Numbered

(* TypeInvParts for the next state.                                        *)
LEMMA TypeInvPartsNext ==
    TypeInv' <=> BrokerTypeOK' /\ StoreOK' /\ LocalsOK' /\ MemOK' /\ PlaceOK' /\ ClockOK'
BY DEF TypeInv, TypeOK, StoreOK, LocalsOK, MemOK, PlaceOK, ClockOK

(* The monitor starts in the invariant.                                    *)
LEMMA InitType == Init => TypeInv
<1> SUFFICES ASSUME Init PROVE TypeInv
  OBVIOUS
<1>1. BrokerTypeOK
  BY QtyFacts, GlitchesAssumption DEF Init, BrokerInit, BrokerTypeOK
<1>2. StoreOK
  BY NoPositionType, QtyFacts DEF Init, StoreOK, Row, NoRow
<1>3. LocalsOK
  <2>1. {cancelEntries, partial} \subseteq BOOLEAN /\ via = "none"
    BY DEF Init
  <2>2. req \in [n : 0..MaxAborts \cup Retries, qty : 0..Qty]
    BY QtyFacts, AbortsAssumption DEF Init, NoRequest, Retries
  <2>3. snapA \in Order /\ snapB \in Order /\ prior \in Position /\ Numbered(prior)
    BY QtyFacts, NoPositionType DEF Init
  <2> QED  BY <2>1, <2>2, <2>3 DEF Init, LocalsOK
<1>4. MemOK /\ ClockOK
  BY NoPositionType DEF Init, MemOK, ClockOK, Faults
<1>5. PlaceOK
  BY DEF Init, PlaceOK, PcLabels, AtWork
<1> QED  BY <1>1, <1>2, <1>3, <1>4, <1>5, TypeInvParts

(* Start, crash, clock and the loop itself keep the types.                 *)
LEMMA LoopType ==
    ASSUME TypeInv, Start \/ Crash \/ AdvanceClock \/ Tick \/ MinuteIdle \/ MinuteExit
    PROVE  TypeInv'
<1>0. BrokerTypeOK /\ StoreOK /\ LocalsOK /\ MemOK /\ PlaceOK /\ ClockOK
  BY TypeInvParts
<1> SUFFICES BrokerTypeOK' /\ StoreOK' /\ LocalsOK' /\ MemOK' /\ PlaceOK' /\ ClockOK'
  BY TypeInvPartsNext
<1>1. CASE Start
  <2>1. saved.attempt \in 0..2
    BY <1>0 DEF StoreOK, Position
  <2>2. BrokerTypeOK' /\ StoreOK' /\ LocalsOK' /\ ClockOK'
    BY <1>0, <1>1 DEF Start, brokerVars, storeVars, localVars, BrokerTypeOK, StoreOK, LocalsOK, ClockOK
  <2>3. MemOK' /\ PlaceOK'
    BY <1>0, <1>1, <2>1, NoPositionType
       DEF Start, Goto, StoreOK, MemOK, PlaceOK, AtWork, PcLabels, BrokerCalls
  <2> QED  BY <2>2, <2>3
<1>2. CASE Crash
  <2>1. BrokerTypeOK' /\ StoreOK' /\ ClockOK'
    BY <1>0, <1>2, GlitchesAssumption
       DEF Crash, Glitch, storeVars, BrokerTypeOK, StoreOK, ClockOK
  <2>2. LocalsOK' /\ MemOK' /\ PlaceOK'
    BY <1>2, ClearType, NoPositionType DEF Crash, MemOK, PlaceOK, AtWork, PcLabels, Faults
  <2> QED  BY <2>1, <2>2
<1>3. CASE AdvanceClock
  BY <1>0, <1>3 DEF AdvanceClock, brokerVars, storeVars, monitorVars, localVars,
                    BrokerTypeOK, StoreOK, LocalsOK, MemOK, PlaceOK, ClockOK
<1>4. CASE Tick
  <2> PICK hardLoss \in BOOLEAN, frozen \in BOOLEAN :
        LET p == IF mem.phase = "active" /\ FlattenDue(hardLoss)
                 THEN [mem EXCEPT !.phase = "exit_pending"] ELSE mem
        IN  /\ pc' = Lifecycle(p)
            /\ mem' = IF p.phase \in {"complete", "stopped"} THEN NoPosition ELSE p
            /\ outcome' = IF p.phase \in {"complete", "stopped"} THEN p.phase ELSE outcome
            /\ cancelEntries' = (/\ p.phase = "entry_pending"
                                 /\ clock # "open" \/ hardLoss \/ frozen)
            /\ via' = IF p.phase = "exit_pending" THEN "reconcile" ELSE "none"
    BY <1>4 DEF Tick
  <2> DEFINE p == IF mem.phase = "active" /\ FlattenDue(hardLoss)
                  THEN [mem EXCEPT !.phase = "exit_pending"] ELSE mem
  <2>1. SameTrade(mem, p) /\ p.phase \in Phases
    BY <1>0, PhaseType DEF MemOK, SameTrade, Position, Phases
  <2>2. p \in Position /\ Numbered(p)
    BY <1>0, <2>1, SameTradeType DEF MemOK
  <2> HIDE DEF p
  <2>3. /\ pc' = Lifecycle(p)
        /\ mem' = IF p.phase \in {"complete", "stopped"} THEN NoPosition ELSE p
        /\ outcome' = IF p.phase \in {"complete", "stopped"} THEN p.phase ELSE outcome
        /\ cancelEntries' \in BOOLEAN
        /\ via' \in {"none", "reconcile"}
    BY DEF p
  <2>4. BrokerTypeOK' /\ StoreOK' /\ ClockOK' /\ LocalsOK'
    BY <1>0, <1>4, <2>3 DEF Tick, brokerVars, storeVars, BrokerTypeOK, StoreOK, LocalsOK, ClockOK
  <2>5. MemOK' /\ PlaceOK'
    BY <1>0, <1>4, <2>1, <2>2, <2>3, NoPositionType
       DEF Tick, Lifecycle, MemOK, PlaceOK, AtWork, PcLabels, BrokerCalls, Faults, Phases
  <2> QED  BY <2>4, <2>5
<1>5. CASE MinuteIdle \/ MinuteExit
  <2>1. BrokerTypeOK' /\ StoreOK' /\ ClockOK' /\ LocalsOK' /\ MemOK'
    BY <1>0, <1>5 DEF MinuteIdle, MinuteExit, Goto, brokerVars, storeVars, localVars,
                      BrokerTypeOK, StoreOK, LocalsOK, ClockOK, MemOK
  <2>2. PlaceOK'
    BY <1>0, <1>5 DEF MinuteIdle, MinuteExit, Goto, PlaceOK, AtWork, PcLabels, BrokerCalls
  <2> QED  BY <2>1, <2>2
<1> QED  BY <1>1, <1>2, <1>3, <1>4, <1>5

(* The decision on the last reading of an entry keeps the types.           *)
LEMMA DecideType ==
    ASSUME BrokerTypeOK, MemOK, NEW p \in Position, p.phase # "none", Numbered(p),
           NEW x \in Order, NEW wasPartial, Decide(p, x, wasPartial)
    PROVE  saved' \in Position /\ Numbered(saved') /\ MemOK' /\ LocalsOK' /\ PlaceOK'
<1> DEFINE done == [p EXCEPT !.phase = "complete"]
           open == [p EXCEPT !.phase = "active", !.legs = TRUE, !.shares = x.filled]
<1>1. SameTrade(p, done) /\ done \in Position /\ Numbered(done)
  BY PhaseType, SameTradeType DEF Phases
<1>2. open \in Position /\ Numbered(open) /\ open.phase # "none"
  BY DEF Position, Numbered, Phases, Order
<1> HIDE DEF done, open
<1>3. CASE Save(p) /\ CloseNow /\ UNCHANGED <<attempts, outcome>>
  <2>1. saved' = p /\ mem' = p
    BY <1>3 DEF Save
  <2>2. LocalsOK' /\ pc' = "close" /\ fault' = fault
    BY <1>3, CloseNowType
  <2>3. PlaceOK'
    BY <2>1, <2>2, PlaceReading
  <2> QED  BY <1>3, <2>1, <2>2, <2>3 DEF MemOK
<1>4. CASE saved' = p /\ Finish(p) /\ UNCHANGED attempts
  BY <1>4, FinishType, PlaceLoop
<1>5. CASE saved' = done /\ Finish(done) /\ UNCHANGED attempts
  BY <1>1, <1>5, FinishType, PlaceLoop
<1>6. CASE Save(open) /\ Goto("stop") /\ ClearLocals /\ UNCHANGED <<attempts, outcome>>
  <2>1. saved' = open /\ mem' = open /\ pc' = "stop" /\ fault' = fault
    BY <1>6 DEF Save, Goto
  <2>2. LocalsOK'
    BY <1>6, ClearType
  <2>3. PlaceOK'
    BY <1>2, <2>1, PlaceReading DEF BrokerCalls
  <2> QED  BY <1>2, <1>6, <2>1, <2>2, <2>3 DEF MemOK
<1> QED  BY <1>3, <1>4, <1>5, <1>6 DEF Decide, done, open

(* The entry_pending phase of reconcile_symbol_position keeps the types.   *)
LEMMA EntryType ==
    ASSUME TypeInv,
           \/ EntryLookup \/ EntryGonePosition \/ EntryGoneOrders
           \/ CancelEntry \/ EntryReread
    PROVE  TypeInv'
<1>0. BrokerTypeOK /\ StoreOK /\ LocalsOK /\ MemOK /\ PlaceOK /\ ClockOK
  BY TypeInvParts
<1>1. mem.phase # "none" /\ mem \in Position /\ Numbered(mem)
  BY <1>0 DEF PlaceOK, MemOK, AtWork, PcLabels, BrokerCalls, EntryLookup, EntryGonePosition,
              EntryGoneOrders, CancelEntry, EntryReread
<1>2. EntryOf(mem) \in OrderIds /\ ord[EntryOf(mem)] \in Order
  BY <1>0, <1>1, MemIds DEF BrokerTypeOK
<1>3. ASSUME NEW S
      PROVE  LET p == Remember(mem, S)
             IN  p \in Position /\ Numbered(p) /\ p.phase # "none"
  BY <1>0, <1>1, RememberType, SameTradeType DEF SameTrade
<1> DEFINE e == EntryOf(mem)
           p == Remember(mem, OrderTree(e))
<1> HIDE DEF e, p
<1>4. p \in Position /\ Numbered(p) /\ p.phase # "none"
  BY <1>3 DEF p
<1> SUFFICES BrokerTypeOK' /\ StoreOK' /\ LocalsOK' /\ MemOK' /\ PlaceOK' /\ ClockOK'
  BY TypeInvPartsNext
<1>5. CASE EntryLookup
  <2>1. BrokerTypeOK' /\ ClockOK'
    BY <1>0, <1>5, GlitchesAssumption DEF EntryLookup, Glitch, BrokerTypeOK, ClockOK
  <2>2. CASE Goto("gonePosition") /\ UNCHANGED <<storeVars, mem, attempts, outcome, localVars>>
    <3>1. PlaceOK'
      BY <1>1, <2>2, PlaceReading DEF Goto, BrokerCalls
    <3> QED  BY <1>0, <2>1, <2>2, <3>1, Unchanged DEF Goto, MemOK
  <2>3. CASE /\ Attach({e}) /\ Save(p) /\ Goto("cancelEntry")
             /\ Locals(cancelEntries, "none", EntryPart(ord[e]), ord[e], NoOrder, {}, {},
                       NoRequest, NoPosition)
             /\ UNCHANGED <<attempts, outcome>>
    <3>1. StoreOK'
      BY <1>0, <1>4, <2>3, AttachType DEF StoreOK, Save
    <3>2. LocalsOK'
      <4>1. EntryPart(ord[e]) \in BOOLEAN /\ cancelEntries \in BOOLEAN
        BY <1>0 DEF EntryPart, LocalsOK
      <4> QED  BY <1>2, <2>3, <4>1, LocalsType, QtyFacts DEF e
    <3>3. MemOK' /\ PlaceOK'
      BY <1>0, <1>4, <2>3, PlaceReading DEF Save, Goto, MemOK, BrokerCalls
    <3> QED  BY <2>1, <3>1, <3>2, <3>3
  <2>4. CASE Attach({e}) /\ Decide(p, ord[e], EntryPart(ord[e]))
    <3>1. saved' \in Position /\ Numbered(saved') /\ MemOK' /\ LocalsOK' /\ PlaceOK'
      BY <1>0, <1>2, <1>4, <2>4, DecideType DEF e
    <3> QED  BY <1>0, <2>1, <2>4, <3>1, AttachType DEF StoreOK
  <2> QED  BY <1>5, <2>2, <2>3, <2>4 DEF EntryLookup, e, p
<1>6. CASE EntryGonePosition
  <2>1. BrokerTypeOK' /\ StoreOK' /\ ClockOK'
    BY <1>0, <1>6, Unchanged DEF EntryGonePosition
  <2>2. LocalsOK' /\ MemOK' /\ PlaceOK'
    BY <1>0, <1>1, <1>6, RaiseType, PlaceLoop, PlaceReading, Unchanged
       DEF EntryGonePosition, Goto, MemOK, BrokerCalls, Faults
  <2> QED  BY <2>1, <2>2
<1>7. CASE EntryGoneOrders
  <2>1. BrokerTypeOK' /\ ClockOK' /\ row' = row
    BY <1>0, <1>7, Unchanged DEF EntryGoneOrders
  <2>2. CASE Raise("exposure") /\ UNCHANGED <<saved, mem, outcome>>
    BY <1>0, <1>7, <2>1, <2>2, RaiseType, PlaceLoop DEF EntryGoneOrders, MemOK, StoreOK, Faults
  <2>3. CASE /\ saved' = [mem EXCEPT !.phase = "complete"]
             /\ Finish([mem EXCEPT !.phase = "complete"])
    <3> DEFINE done == [mem EXCEPT !.phase = "complete"]
    <3>1. done \in Position /\ Numbered(done)
      BY <1>1, PhaseType, SameTradeType DEF Phases
    <3> HIDE DEF done
    <3>2. saved' = done /\ Finish(done) /\ attempts' = attempts
      BY <1>7, <2>3 DEF EntryGoneOrders, done
    <3> QED  BY <1>0, <2>1, <3>1, <3>2, FinishType, PlaceLoop DEF StoreOK
  <2> QED  BY <1>7, <2>2, <2>3 DEF EntryGoneOrders
<1>8. CASE CancelEntry
  <2>1. BrokerTypeOK'
    BY <1>0, <1>8, CancelRequestedType DEF CancelEntry, BrokerTypeOK
  <2>2. PlaceOK'
    BY <1>1, <1>8, PlaceReading DEF CancelEntry, Goto, BrokerCalls
  <2> QED  BY <1>0, <1>8, <2>1, <2>2, Unchanged DEF CancelEntry, Goto, MemOK
<1>9. CASE EntryReread
  <2>1. Attach({e}) /\ Decide(p, ord[e], partial) /\ UNCHANGED <<brokerVars, clock>>
    BY <1>9 DEF EntryReread, e, p
  <2>2. saved' \in Position /\ Numbered(saved') /\ MemOK' /\ LocalsOK' /\ PlaceOK'
    BY <1>0, <1>2, <1>4, <2>1, DecideType DEF e
  <2> QED  BY <1>0, <2>1, <2>2, AttachType, Unchanged DEF StoreOK
<1> QED  BY <1>5, <1>6, <1>7, <1>8, <1>9

(* Saving a position and leaving the reconciliation keeps the types.       *)
LEMMA SavedFinish ==
    ASSUME MemOK, row' \in [OrderIds -> Row], NEW p \in Position, Numbered(p),
           saved' = p, Finish(p), attempts' = attempts
    PROVE  StoreOK' /\ LocalsOK' /\ MemOK' /\ PlaceOK'
<1>1. LocalsOK' /\ MemOK' /\ pc' = "minute"
  BY FinishType
<1> QED  BY <1>1, PlaceLoop DEF StoreOK

(* A cancel, answered or not, keeps the types.                             *)
LEMMA CancelOneType ==
    ASSUME BrokerTypeOK, StoreOK, LocalsOK, MemOK, PlaceOK, ClockOK, NEW o, CancelOne(o)
    PROVE  BrokerTypeOK' /\ StoreOK' /\ LocalsOK' /\ MemOK' /\ PlaceOK' /\ ClockOK'
<1>1. BrokerTypeOK'
  <2>1. glitches' \in 0..MaxGlitches
    BY GlitchesAssumption DEF CancelOne, Glitch, BrokerTypeOK
  <2> QED  BY <2>1, CancelRequestedType DEF CancelOne, BrokerTypeOK
<1>2. StoreOK' /\ ClockOK'
  BY DEF CancelOne, storeVars, StoreOK, ClockOK
<1>3. CASE Raise("broker")
  <2>1. MemOK'
    BY <1>3, RaiseType DEF CancelOne, MemOK, Faults
  <2> QED  BY <1>1, <1>2, <1>3, <2>1, RaiseType, PlaceLoop
<1>4. CASE /\ todo' = todo \ {o} /\ UNCHANGED <<glitches, pc, fault>>
           /\ UNCHANGED <<cancelEntries, via, partial, snapA, snapB, vis, req, prior>>
  <2>1. LocalsOK'
    BY <1>4 DEF LocalsOK
  <2>2. MemOK' /\ PlaceOK'
    BY <1>4 DEF CancelOne, MemOK, PlaceOK
  <2> QED  BY <1>1, <1>2, <2>1, <2>2
<1> QED  BY <1>1, <1>2, <1>3, <1>4 DEF CancelOne

(* The active phase, the flat check and close() keep the types.            *)
LEMMA ActiveType ==
    ASSUME TypeInv,
           \/ ActiveStop \/ ActiveTarget \/ ActiveHolding
           \/ FlatEntry \/ FlatCancel \/ FlatOrders \/ CloseRemember
    PROVE  TypeInv'
<1>0. BrokerTypeOK /\ StoreOK /\ LocalsOK /\ MemOK /\ PlaceOK /\ ClockOK
  BY TypeInvParts
<1>1. mem.phase # "none" /\ mem \in Position /\ Numbered(mem)
  BY <1>0 DEF PlaceOK, MemOK, AtWork, PcLabels, BrokerCalls, ActiveStop, ActiveTarget,
              ActiveHolding, FlatEntry, FlatCancel, FlatOrders, CloseRemember
<1>2. /\ EntryOf(mem) \in OrderIds /\ StopOf(EntryOf(mem)) \in OrderIds
      /\ TargetOf(EntryOf(mem)) \in OrderIds
  BY <1>0, <1>1, MemIds
<1>3. ord[StopOf(EntryOf(mem))] \in Order /\ ord[TargetOf(EntryOf(mem))] \in Order
  BY <1>0, <1>2 DEF BrokerTypeOK
<1>4. ASSUME NEW S
      PROVE  LET p == Remember(mem, S)
             IN  p \in Position /\ Numbered(p) /\ p.phase # "none"
  BY <1>0, <1>1, RememberType, SameTradeType DEF SameTrade
<1>5. ASSUME NEW ph \in Phases \ {"none"}
      PROVE  LET p == [mem EXCEPT !.phase = ph]
             IN  p \in Position /\ Numbered(p) /\ p.phase # "none"
  BY <1>1, PhaseType, SameTradeType DEF SameTrade
<1> SUFFICES BrokerTypeOK' /\ StoreOK' /\ LocalsOK' /\ MemOK' /\ PlaceOK' /\ ClockOK'
  BY TypeInvPartsNext
<1>6. CASE ActiveStop
  <2>1. LocalsOK'
    <3>1. FALSE \in BOOLEAN /\ NoOrder \in Order /\ {} \in SUBSET OrderIds
          /\ "none" \in {"none", "minute", "reconcile"}
      BY QtyFacts
    <3>2. Locals(FALSE, "none", FALSE, ord[StopOf(EntryOf(mem))], NoOrder, {}, {},
                 NoRequest, NoPosition)
      BY <1>6 DEF ActiveStop
    <3> QED  BY ONLY <1>3, <3>1, <3>2, LocalsType, Zenon
  <2>2. PlaceOK'
    BY <1>1, <1>6, PlaceReading DEF ActiveStop, Goto, BrokerCalls
  <2> QED  BY <1>0, <1>6, <2>1, <2>2, Unchanged DEF ActiveStop, Goto, MemOK
<1>7. CASE ActiveTarget
  <2> DEFINE p == Remember(mem, LegsOf(mem))
  <2>1. p \in Position /\ Numbered(p) /\ p.phase # "none"
    BY <1>4
  <2> HIDE DEF p
  <2>2. saved' = p /\ mem' = p /\ pc' = "holding" /\ fault' = fault
    BY <1>7 DEF ActiveTarget, Save, Goto, p
  <2>3. LocalsOK'
    BY <1>0, <1>3, <1>7 DEF ActiveTarget, LocalsOK
  <2>4. StoreOK' /\ MemOK' /\ PlaceOK'
    BY <1>0, <1>7, <2>1, <2>2, PlaceReading DEF ActiveTarget, StoreOK, MemOK, BrokerCalls
  <2> QED  BY <1>0, <1>7, <2>3, <2>4, Unchanged DEF ActiveTarget
<1>8. CASE ActiveHolding
  <2> DEFINE p == [mem EXCEPT !.shares = seen]
  <2>1. BrokerTypeOK' /\ ClockOK' /\ row' = row /\ attempts' = attempts
    BY <1>0, <1>8, Unchanged DEF ActiveHolding
  <2>2. CASE Goto("flatEntry") /\ UNCHANGED <<saved, mem, outcome, localVars>>
    BY <1>0, <1>1, <2>1, <2>2, PlaceReading, Unchanged
       DEF Goto, StoreOK, MemOK, BrokerCalls
  <2>3. CASE Raise("owned") /\ UNCHANGED <<saved, mem, outcome>>
    BY <1>0, <2>1, <2>3, RaiseType, PlaceLoop DEF StoreOK, MemOK, Faults
  <2>4. CASE seen \in 1..mem.shares
    <3>1. mem.shares \in 0..Qty
      BY <1>1 DEF Position
    <3>2. seen \in 0..Qty
      BY <2>4, <3>1, QtyFacts
    <3>3. p \in Position /\ Numbered(p) /\ p.phase # "none"
      BY <1>1, <3>2 DEF Position, Numbered
    <3> HIDE DEF p
    <3>4. CASE saved' = p /\ Finish(p)
      BY <1>0, <2>1, <3>3, <3>4, SavedFinish DEF StoreOK
    <3>5. CASE Save(p) /\ CloseNow /\ UNCHANGED outcome
      BY <1>0, <2>1, <3>3, <3>5, CloseNowType, PlaceReading DEF Save, StoreOK, MemOK
    <3> QED  BY <1>8, <2>2, <2>3, <2>4, <3>4, <3>5 DEF ActiveHolding, p
  <2> QED  BY <1>8, <2>2, <2>3, <2>4 DEF ActiveHolding
<1>9. CASE FlatEntry
  <2> DEFINE p == Remember(mem, OrderTree(EntryOf(mem)))
  <2>1. p \in Position /\ Numbered(p) /\ p.phase # "none"
    BY <1>4
  <2> HIDE DEF p
  <2>2. Attach({EntryOf(mem)}) /\ saved' = p /\ mem' = p /\ UNCHANGED <<brokerVars, clock, attempts, outcome>>
    BY <1>9 DEF FlatEntry, Save, p
  <2>3. StoreOK'
    BY <1>0, <2>1, <2>2, AttachType DEF StoreOK
  <2>4. CASE Raise("flat")
    BY <1>0, <2>1, <2>2, <2>3, <2>4, RaiseType, PlaceLoop, Unchanged DEF MemOK, Faults
  <2>5. CASE /\ Goto("flatCancel")
             /\ todo' \subseteq {StopOf(EntryOf(mem)), TargetOf(EntryOf(mem))}
             /\ UNCHANGED <<cancelEntries, via, partial, snapA, snapB, vis, req, prior>>
    <3>1. LocalsOK'
      BY <1>0, <1>2, <2>5 DEF LocalsOK
    <3> QED  BY <1>0, <2>1, <2>2, <2>3, <2>5, <3>1, PlaceReading, Unchanged
             DEF Goto, MemOK, BrokerCalls
  <2>6. todo' = {l[1] : l \in {k \in {<<StopOf(EntryOf(mem)), snapA>>,
                                     <<TargetOf(EntryOf(mem)), snapB>>} :
                               IsLive(k[2]) /\ k[2].st # "pending_cancel"}}
        => todo' \subseteq {StopOf(EntryOf(mem)), TargetOf(EntryOf(mem))}
    OBVIOUS
  <2> QED  BY <1>9, <2>4, <2>5, <2>6 DEF FlatEntry
<1>10. CASE FlatCancel
  BY <1>0, <1>10, CancelOneType DEF FlatCancel
<1>11. CASE FlatOrders
  <2> DEFINE p == IF OpenOrders # {} THEN mem ELSE [mem EXCEPT !.phase = FlatPhase]
  <2>1. FlatPhase \in Phases \ {"none"}
    BY DEF FlatPhase, Phases
  <2>2. p \in Position /\ Numbered(p)
    BY <1>1, <1>5, <2>1
  <2> HIDE DEF p
  <2>3. saved' = p /\ Finish(p) /\ UNCHANGED <<brokerVars, row, clock, attempts>>
    BY <1>11 DEF FlatOrders, p
  <2> QED  BY <1>0, <2>2, <2>3, SavedFinish, Unchanged DEF StoreOK
<1>12. CASE CloseRemember
  <2> DEFINE p == Remember(mem, ClientIds(mem) \cup OrderTree(EntryOf(mem)))
  <2>1. p \in Position /\ Numbered(p) /\ p.phase # "none"
    BY <1>4
  <2> HIDE DEF p
  <2>2. /\ Attach(ClientIds(mem)) /\ saved' = p /\ mem' = p /\ pc' = "xPrevious"
        /\ UNCHANGED <<brokerVars, clock, attempts, outcome, localVars, fault>>
    BY <1>12 DEF CloseRemember, Save, Goto, p
  <2> QED  BY <1>0, <2>1, <2>2, AttachType, PlaceReading, Unchanged
           DEF StoreOK, MemOK, BrokerCalls
<1> QED  BY <1>6, <1>7, <1>8, <1>9, <1>10, <1>11, <1>12

(* Returning from request_position_exit keeps the types.                   *)
LEMMA SaveReturnType ==
    ASSUME MemOK, StoreOK, NEW p \in Position, Numbered(p), NEW x \in Order, NEW o,
           attempts' = attempts, SaveReturn(p, x, o)
    PROVE  StoreOK' /\ LocalsOK' /\ MemOK' /\ PlaceOK'
<1> DEFINE q == IF via = "minute" \/ x.st = "none" \/ x.filled <= p.obs[o] THEN p
                ELSE [p EXCEPT !.obs[o] = x.filled]
<1>1. q \in Position /\ Numbered(q)
  BY DEF Position, Numbered, Order
<1> HIDE DEF q
<1>2. saved' = q
  BY DEF SaveReturn, q
<1>3. CASE Goto("tick") /\ ClearLocals /\ mem' = q /\ UNCHANGED <<row, outcome>>
  BY <1>1, <1>2, <1>3, ClearType, PlaceLoop DEF Goto, StoreOK, MemOK
<1>4. CASE Finish(q) /\ Attach(IF x.st = "none" THEN {} ELSE {o})
  BY <1>1, <1>2, <1>4, SavedFinish, AttachType DEF StoreOK
<1> QED  BY <1>3, <1>4 DEF SaveReturn, q

(* The readings, the cancels and the flat verdict of request_position_exit *)
(* keep the types.                                                         *)
LEMMA ExitReadType ==
    ASSUME TypeInv,
           \/ ExitPrevious \/ ExitVisible \/ ExitEntry \/ ExitBefore
           \/ ExitCancel \/ ExitRemaining \/ ExitRefresh \/ ExitFlat
    PROVE  TypeInv'
<1>0. BrokerTypeOK /\ StoreOK /\ LocalsOK /\ MemOK /\ PlaceOK /\ ClockOK
  BY TypeInvParts
<1>1. mem.phase # "none" /\ mem \in Position /\ Numbered(mem)
  BY <1>0 DEF PlaceOK, MemOK, AtWork, PcLabels, BrokerCalls, ExitPrevious, ExitVisible,
              ExitEntry, ExitBefore, ExitCancel, ExitRemaining, ExitRefresh, ExitFlat
<1>2. ord[EntryOf(mem)] \in Order
  BY <1>0, <1>1, MemIds DEF BrokerTypeOK
<1>3. mem.exit >= 0 => PreviousId \in OrderIds
  BY <1>0, <1>1, MemIds DEF PreviousId, Position, Retries
<1>4. PreviousExit \in Order
  BY <1>0, <1>3 DEF PreviousExit, Unresolved, BrokerTypeOK, LocalsOK
<1>5. OpenOrders \subseteq OrderIds
  BY DEF OpenOrders
<1> SUFFICES BrokerTypeOK' /\ StoreOK' /\ LocalsOK' /\ MemOK' /\ PlaceOK' /\ ClockOK'
  BY TypeInvPartsNext
<1>6. CASE ExitPrevious
  <2>1. BrokerTypeOK' /\ ClockOK' /\ StoreOK' /\ MemOK'
    BY <1>0, <1>6, GlitchesAssumption, Unchanged
       DEF ExitPrevious, Glitch, Goto, BrokerTypeOK, MemOK
  <2>2. snapA' \in Order
    BY <1>0, <1>3, <1>6, QtyFacts DEF ExitPrevious, BrokerTypeOK
  <2>3. LocalsOK'
    BY <1>0, <1>6, <2>2 DEF ExitPrevious, LocalsOK
  <2> QED  BY <1>1, <1>6, <2>1, <2>3, PlaceReading DEF ExitPrevious, Goto, BrokerCalls
<1>7. CASE ExitVisible
  <2>1. BrokerTypeOK' /\ ClockOK' /\ attempts' = attempts
    BY <1>0, <1>7, Unchanged DEF ExitVisible
  <2>2. CASE /\ snapA' = PreviousExit /\ vis' = OpenOrders
             /\ todo' = {o \in OpenOrders : ord[o].st # "pending_cancel"}
             /\ Goto("xEntry")
             /\ UNCHANGED <<storeVars, mem, outcome,
                            cancelEntries, via, partial, snapB, req, prior>>
    <3>1. LocalsOK'
      BY <1>0, <1>4, <1>5, <2>2 DEF LocalsOK
    <3> QED  BY <1>0, <1>1, <2>1, <2>2, <3>1, Unchanged, PlaceReading
             DEF Goto, MemOK, BrokerCalls
  <2>3. CASE Goto("tick") /\ ClearLocals /\ UNCHANGED <<storeVars, mem, outcome>>
    BY <1>0, <2>1, <2>3, Unchanged, ClearType, PlaceLoop DEF Goto, MemOK
  <2>4. CASE SaveReturn(mem, PreviousExit, PreviousId)
    BY <1>0, <1>1, <1>4, <2>1, <2>4, SaveReturnType
  <2> QED  BY <1>7, <2>2, <2>3, <2>4 DEF ExitVisible
<1>8. CASE ExitEntry
  <2>1. BrokerTypeOK' /\ ClockOK' /\ StoreOK'
    BY <1>0, <1>8, Unchanged DEF ExitEntry
  <2>2. CASE Raise("unowned")
    BY <1>0, <1>8, <2>1, <2>2, RaiseType, PlaceLoop DEF ExitEntry, MemOK, Faults
  <2>3. CASE /\ snapB' = ord[EntryOf(mem)] /\ Goto("xBefore")
             /\ UNCHANGED <<cancelEntries, via, partial, snapA, vis, todo, req, prior>>
    <3>1. LocalsOK'
      BY <1>0, <1>2, <2>3 DEF LocalsOK
    <3> QED  BY <1>0, <1>1, <1>8, <2>1, <2>3, <3>1, PlaceReading
             DEF ExitEntry, Goto, MemOK, BrokerCalls
  <2> QED  BY <1>8, <2>2, <2>3 DEF ExitEntry
<1>9. CASE ExitBefore
  <2>1. BrokerTypeOK' /\ ClockOK' /\ StoreOK'
    BY <1>0, <1>9, Unchanged DEF ExitBefore
  <2>2. CASE Raise("owned") \/ Raise("unresolved")
    BY <1>0, <1>9, <2>1, <2>2, RaiseType, PlaceLoop DEF ExitBefore, MemOK, Faults
  <2>3. CASE Goto("xCancel") /\ UNCHANGED localVars
    BY <1>0, <1>1, <1>9, <2>1, <2>3, PlaceReading, Unchanged
       DEF ExitBefore, Goto, MemOK, BrokerCalls
  <2> QED  BY <1>9, <2>2, <2>3 DEF ExitBefore
<1>10. CASE ExitCancel
  BY <1>0, <1>10, CancelOneType DEF ExitCancel
<1>11. CASE ExitRemaining
  <2>1. LocalsOK'
    BY <1>0, <1>5, <1>11 DEF ExitRemaining, LocalsOK
  <2> QED  BY <1>0, <1>1, <1>11, <2>1, Unchanged, PlaceReading
           DEF ExitRemaining, Goto, MemOK, BrokerCalls
<1>12. CASE ExitRefresh
  <2>1. Refreshed \in Position /\ Numbered(Refreshed) /\ Refreshed.phase # "none"
    <3>1. SameTrade(mem, Remember(mem, Owned(mem)))
      BY <1>0, <1>1, RememberType
    <3> DEFINE r == Remember(mem, Owned(mem))
    <3>2. r \in Position /\ Numbered(r) /\ r.phase # "none"
      BY <1>1, <3>1, SameTradeType DEF SameTrade
    <3> HIDE DEF r
    <3>3. Refreshed = [r EXCEPT !.phase = "exit_pending"]
      BY DEF Refreshed, r
    <3>4. SameTrade(r, Refreshed)
      BY <3>2, <3>3, PhaseType DEF Phases
    <3> QED  BY <3>2, <3>4, SameTradeType DEF SameTrade
  <2>2. BrokerTypeOK' /\ ClockOK' /\ attempts' = attempts
    BY <1>0, <1>12, Unchanged DEF ExitRefresh
  <2>3. CASE SaveReturn(Refreshed, NoOrder, EntryOf(mem))
    BY <1>0, <2>1, <2>2, <2>3, SaveReturnType, QtyFacts
  <2>4. CASE /\ mem' = Refreshed /\ snapB' = ord[EntryOf(mem)] /\ Goto("xQuantity")
             /\ UNCHANGED <<storeVars, outcome,
                            cancelEntries, via, partial, snapA, vis, todo, req, prior>>
    <3>1. LocalsOK'
      BY <1>0, <1>2, <2>4 DEF LocalsOK
    <3> QED  BY <1>0, <2>1, <2>2, <2>4, <3>1, Unchanged, PlaceReading
             DEF Goto, MemOK, BrokerCalls
  <2> QED  BY <1>12, <2>3, <2>4 DEF ExitRefresh
<1>13. CASE ExitFlat
  <2>1. BrokerTypeOK' /\ ClockOK' /\ attempts' = attempts
    BY <1>0, <1>13, Unchanged DEF ExitFlat
  <2>2. CASE Raise("disagree") /\ UNCHANGED <<storeVars, mem, outcome>>
    BY <1>0, <2>1, <2>2, Unchanged, RaiseType, PlaceLoop DEF MemOK, Faults
  <2>3. CASE SaveReturn([mem EXCEPT !.phase = "complete"], snapA, PreviousId)
    <3> DEFINE done == [mem EXCEPT !.phase = "complete"]
    <3>1. done \in Position /\ Numbered(done)
      BY <1>1, PhaseType, SameTradeType DEF Phases
    <3>2. snapA \in Order /\ SaveReturn(done, snapA, PreviousId)
      BY <1>0, <2>3 DEF LocalsOK
    <3> HIDE DEF done
    <3> QED  BY <1>0, <2>1, <3>1, <3>2, SaveReturnType
  <2> QED  BY <1>13, <2>2, <2>3 DEF ExitFlat
<1> QED  BY <1>6, <1>7, <1>8, <1>9, <1>10, <1>11, <1>12, <1>13

(* After a POST the monitor attaches the order or starts a new iteration.  *)
LEMMA SubmitPlace ==
    ASSUME LocalsOK, NEW id, NEW q, NEW next, next \in {"xAttach", "eAttach"},
           SubmitIdempotent(id, q, next)
    PROVE  /\ LocalsOK' /\ pc' \in {"tick", next}
           /\ fault' \in {fault, "broker"}
<1>1. CASE Goto(next) /\ UNCHANGED localVars
  BY <1>1, Unchanged DEF Goto
<1>2. CASE PostLost(id, q)
  BY <1>2, RaiseType DEF PostLost
<1> QED  BY <1>1, <1>2 DEF SubmitIdempotent

(* Intent, save, POST and attach of an exit keep the types: the exit asked *)
(* for is one of the three ids and within the entry.                       *)
LEMMA ExitWriteType ==
    ASSUME TypeInv, ExitIntent \/ ExitSave \/ ExitPost \/ ExitAttach
    PROVE  TypeInv'
<1>0. BrokerTypeOK /\ StoreOK /\ LocalsOK /\ MemOK /\ PlaceOK /\ ClockOK
  BY TypeInvParts
<1>1. mem.phase # "none" /\ mem \in Position /\ Numbered(mem)
  BY <1>0 DEF PlaceOK, MemOK, AtWork, PcLabels, BrokerCalls, ExitIntent, ExitSave,
              ExitPost, ExitAttach
<1> SUFFICES BrokerTypeOK' /\ StoreOK' /\ LocalsOK' /\ MemOK' /\ PlaceOK' /\ ClockOK'
  BY TypeInvPartsNext
<1>2. CASE ExitIntent
  <2>1. BrokerTypeOK' /\ ClockOK' /\ UNCHANGED <<saved, mem, attempts, outcome>>
    BY <1>0, <1>2, Unchanged DEF ExitIntent
  <2>2. CASE row' = row /\ (Raise("owned") \/ Raise("exhausted") \/ Raise("unresolved")
                            \/ Raise("intent"))
    BY <1>0, <2>1, <2>2, RaiseType, PlaceLoop DEF StoreOK, MemOK, Faults
  <2>3. CASE /\ QuantityProven /\ NextExit <= 2 /\ seen # 0
             /\ RecordIntent(ExitId(mem, NextExit), seen)
             /\ req' = [n |-> NextExit, qty |-> seen]
             /\ Goto("xSave")
             /\ UNCHANGED <<cancelEntries, via, partial, snapA, snapB, vis, todo, prior>>
    <3>1. NextExit \in Retries
      BY <1>1, <2>3 DEF NextExit, Position, Retries
    <3>2. seen \in 0..Qty
      BY <1>0, <2>3, QtyFacts DEF QuantityProven, LocalsOK, BrokerTypeOK, Order
    <3>3. ExitId(mem, NextExit) \in OrderIds
      BY <1>0, <1>1, <3>1, MemIds
    <3>4. StoreOK'
      BY <1>0, <2>1, <2>3, <3>2, <3>3, RecordType DEF StoreOK
    <3>5. LocalsOK'
      BY <1>0, <2>3, <3>1, <3>2 DEF LocalsOK
    <3>6. MemOK' /\ PlaceOK'
      BY <1>0, <1>1, <2>1, <2>3, <3>1, <3>2 DEF Goto, MemOK, PlaceOK, PcLabels
    <3> QED  BY <2>1, <3>4, <3>5, <3>6
  <2> QED  BY <1>2, <2>2, <2>3 DEF ExitIntent
<1>3. CASE ExitSave
  <2> DEFINE p == [mem EXCEPT !.exit = req.n, !.ask = req.qty]
  <2>1. req.n \in Retries /\ req.qty \in 0..Qty /\ req.qty # 0
    BY <1>0, <1>3 DEF ExitSave, PlaceOK, LocalsOK
  <2>2. /\ p \in Position /\ Numbered(p) /\ p.phase # "none"
        /\ p.exit \in Retries /\ p.ask # 0
    BY <1>1, <2>1 DEF Position, Numbered
  <2> HIDE DEF p
  <2>3. /\ saved' = p /\ mem' = p /\ pc' = "xPost" /\ fault' = fault
        /\ UNCHANGED <<brokerVars, row, clock, attempts, outcome, localVars>>
    BY <1>3 DEF ExitSave, Save, Goto, p
  <2>4. StoreOK' /\ MemOK' /\ PlaceOK'
    BY <1>0, <2>2, <2>3 DEF StoreOK, MemOK, PlaceOK, PcLabels
  <2> QED  BY <1>0, <2>3, <2>4, Unchanged
<1>4. CASE ExitPost
  <2>1. mem.exit \in Retries /\ mem.ask \in 1..Qty
    BY <1>0, <1>1, <1>4, QtyFacts DEF ExitPost, PlaceOK, Position
  <2>2. ExitId(mem, mem.exit) \in EntryIds \cup ExitIds
    BY <1>0, <1>1, <2>1, MemIds
  <2>3. SubmitIdempotent(ExitId(mem, mem.exit), mem.ask, "xAttach")
    BY <1>4 DEF ExitPost
  <2>4. BrokerTypeOK'
    BY <1>0, <2>1, <2>2, <2>3, SubmitStep
  <2>5. LocalsOK' /\ pc' \in {"tick", "xAttach"} /\ fault' \in {fault, "broker"}
    BY <1>0, <2>3, SubmitPlace
  <2>6. MemOK' /\ PlaceOK'
    BY <1>0, <1>1, <1>4, <2>1, <2>5 DEF ExitPost, MemOK, PlaceOK, PcLabels, AtWork, Faults
  <2> QED  BY <1>0, <1>4, <2>4, <2>5, <2>6, Unchanged DEF ExitPost
<1>5. CASE ExitAttach
  <2> DEFINE o == ExitId(mem, mem.exit)
  <2> DEFINE p == Remember(mem, {o})
  <2>1. p \in Position /\ Numbered(p)
    BY <1>0, <1>1, RememberType, SameTradeType
  <2> HIDE DEF o, p
  <2>2. Attach({o}) /\ UNCHANGED <<brokerVars, clock, attempts>>
    BY <1>5 DEF ExitAttach, o
  <2>3. row' \in [OrderIds -> Row]
    BY <1>0, <2>2, AttachType DEF StoreOK
  <2>4. CASE saved' = mem /\ Goto("tick") /\ ClearLocals /\ UNCHANGED <<mem, outcome>>
    BY <1>0, <1>1, <2>2, <2>3, <2>4, Unchanged, ClearType, PlaceLoop DEF Goto, StoreOK, MemOK
  <2>5. CASE saved' = p /\ Finish(p)
    BY <1>0, <2>1, <2>2, <2>3, <2>5, SavedFinish, Unchanged
  <2> QED  BY <1>5, <2>4, <2>5 DEF ExitAttach, o, p
<1> QED  BY <1>2, <1>3, <1>4, <1>5

(* The protected entry keeps the types: its number stays within the two    *)
(* attempts.                                                               *)
LEMMA EnterType ==
    ASSUME TypeInv, Enter
    PROVE  TypeInv'
<1>0. BrokerTypeOK /\ StoreOK /\ LocalsOK /\ MemOK /\ PlaceOK /\ ClockOK
  BY TypeInvParts
<1> SUFFICES BrokerTypeOK' /\ StoreOK' /\ LocalsOK' /\ MemOK' /\ PlaceOK' /\ ClockOK'
  BY TypeInvPartsNext
<1>1. CASE EntryIntent
  <2>1. BrokerTypeOK' /\ ClockOK' /\ UNCHANGED <<saved, mem, attempts, outcome>>
    BY <1>0, <1>1, Unchanged DEF EntryIntent
  <2>2. attempts \in 0..1
    BY <1>0, <1>1 DEF EntryIntent, MayEnter, MemOK
  <2>3. CASE row' = row /\ Raise("intent")
    BY <1>0, <2>1, <2>3, RaiseType, PlaceLoop DEF StoreOK, MemOK, Faults
  <2>4. ASSUME NEW n \in 0..MaxAborts,
               RecordIntent(<<attempts + 1, "entry", n>>, Qty),
               req' = [n |-> n, qty |-> Qty], prior' = saved, Goto("eSave"),
               UNCHANGED <<cancelEntries, via, partial, snapA, snapB, vis, todo>>
        PROVE  StoreOK' /\ LocalsOK' /\ MemOK' /\ PlaceOK'
    <3> DEFINE id == <<attempts + 1, "entry", n>>
    <3>1. id \in OrderIds /\ RecordIntent(id, Qty)
      BY <2>2, <2>4, IdTypes DEF OrderIds, Attempts
    <3> HIDE DEF id
    <3>2. StoreOK'
      BY <1>0, <2>1, <3>1, RecordType, QtyFacts DEF StoreOK
    <3>3. LocalsOK'
      BY <1>0, <2>4, QtyFacts DEF LocalsOK, StoreOK
    <3>4. MemOK' /\ PlaceOK'
      BY <1>0, <2>1, <2>2, <2>4 DEF Goto, MemOK, PlaceOK, PcLabels, AtWork
    <3> QED  BY <3>2, <3>3, <3>4
  <2> QED  BY <1>1, <2>1, <2>3, <2>4 DEF EntryIntent
<1>2. CASE EntrySave
  <2> DEFINE p == [NoPosition EXCEPT !.phase = "entry_pending", !.attempt = attempts + 1,
                                     !.entry = req.n, !.obs = prior.obs]
  <2>1. attempts \in 0..1 /\ req.n \in 0..MaxAborts
    BY <1>0, <1>2 DEF EntrySave, PlaceOK, MemOK
  <2>2. p \in Position /\ Numbered(p) /\ p.phase # "none"
    <3>1. prior.obs \in [OrderIds -> 0..Qty]
      BY <1>0 DEF LocalsOK, Position
    <3>2. attempts + 1 \in 0..2 /\ attempts + 1 \in Attempts /\ "entry_pending" \in Phases
      BY <2>1 DEF Attempts, Phases
    <3> QED  BY <2>1, <3>1, <3>2, NoPositionType DEF Position, Numbered
  <2> HIDE DEF p
  <2>3. /\ saved' = p /\ mem' = p /\ attempts' = attempts + 1 /\ pc' = "ePost"
        /\ UNCHANGED <<brokerVars, row, clock, outcome, localVars, fault>>
    BY <1>2 DEF EntrySave, Save, Goto, p
  <2>4. StoreOK' /\ MemOK' /\ PlaceOK'
    BY <1>0, <2>1, <2>2, <2>3 DEF StoreOK, MemOK, PlaceOK, PcLabels
  <2> QED  BY <1>0, <2>3, <2>4, Unchanged
<1>3. ASSUME pc \in {"ePost", "eAbort", "eAttach"}
      PROVE  /\ mem.phase # "none" /\ mem \in Position /\ Numbered(mem)
             /\ EntryOf(mem) \in EntryIds /\ EntryOf(mem) \in OrderIds
  <2>1. mem.phase # "none" /\ mem \in Position /\ Numbered(mem)
    BY <1>0, <1>3 DEF PlaceOK, MemOK, AtWork, PcLabels, BrokerCalls
  <2> QED  BY <1>0, <2>1, MemIds
<1>4. CASE EntryPost
  <2>1. SubmitIdempotent(EntryOf(mem), Qty, "eAttach")
    BY <1>4 DEF EntryPost
  <2>2. BrokerTypeOK'
    BY <1>0, <1>3, <1>4, <2>1, SubmitStep, QtyFacts DEF EntryPost
  <2>3. LocalsOK' /\ pc' \in {"tick", "eAttach"} /\ fault' \in {fault, "broker"}
    BY <1>0, <2>1, SubmitPlace
  <2>4. MemOK' /\ PlaceOK'
    BY <1>0, <1>3, <1>4, <2>3 DEF EntryPost, MemOK, PlaceOK, PcLabels, AtWork, Faults
  <2> QED  BY <1>0, <1>4, <2>2, <2>3, <2>4, Unchanged DEF EntryPost
<1>5. CASE EntryRefused
  <2>1. MemOK' /\ PlaceOK'
    BY <1>0, <1>3, <1>5 DEF EntryRefused, Goto, MemOK, PlaceOK, PcLabels
  <2> QED  BY <1>0, <1>5, <2>1, Unchanged DEF EntryRefused
<1>6. CASE abort_unsubmitted_entry
  <2>1. row' \in [OrderIds -> Row]
    BY <1>0, <1>6 DEF abort_unsubmitted_entry, StoreOK, Row
  <2>2. StoreOK'
    BY <1>0, <1>6, <2>1 DEF abort_unsubmitted_entry, StoreOK, LocalsOK
  <2>3. attempts - 1 \in 0..2
    BY <1>0, <1>6 DEF abort_unsubmitted_entry, PlaceOK, MemOK
  <2>4. LocalsOK' /\ MemOK' /\ PlaceOK'
    BY <1>0, <1>6, <2>3, ClearType, NoPositionType, PlaceLoop
       DEF abort_unsubmitted_entry, Goto, MemOK
  <2> QED  BY <1>0, <1>6, <2>2, <2>4, Unchanged DEF abort_unsubmitted_entry
<1>7. CASE EntryAttach
  <2>1. StoreOK'
    BY <1>0, <1>3, <1>7, AttachType DEF EntryAttach, StoreOK
  <2>2. LocalsOK' /\ MemOK' /\ PlaceOK'
    BY <1>0, <1>7, ClearType, PlaceLoop DEF EntryAttach, Goto, MemOK
  <2> QED  BY <1>0, <1>7, <2>1, <2>2, Unchanged DEF EntryAttach
<1> QED  BY <1>1, <1>2, <1>4, <1>5, <1>6, <1>7 DEF Enter

(* A failed call and the venue keep the types.                             *)
LEMMA OutsideType ==
    ASSUME TypeInv, CallFails \/ Venue
    PROVE  TypeInv'
<1>0. BrokerTypeOK /\ StoreOK /\ LocalsOK /\ MemOK /\ PlaceOK /\ ClockOK
  BY TypeInvParts
<1> SUFFICES BrokerTypeOK' /\ StoreOK' /\ LocalsOK' /\ MemOK' /\ PlaceOK' /\ ClockOK'
  BY TypeInvPartsNext
<1>1. CASE CallFails
  <2>1. BrokerTypeOK' /\ StoreOK' /\ ClockOK'
    BY <1>0, <1>1, GlitchesAssumption, Unchanged DEF CallFails, Glitch, BrokerTypeOK
  <2>2. LocalsOK' /\ MemOK' /\ PlaceOK'
    BY <1>0, <1>1, RaiseType, PlaceLoop DEF CallFails, MemOK, Faults
  <2> QED  BY <2>1, <2>2
<1>2. CASE Venue
  <2>1. BrokerTypeOK'
    BY <1>0, <1>2, BrokerStep DEF Venue
  <2> QED  BY <1>0, <1>2, <2>1, Unchanged DEF Venue, monitorVars, localVars, MemOK, PlaceOK
<1> QED  BY <1>1, <1>2

(* A stuttering step keeps the types.                                      *)
LEMMA StutterType ==
    ASSUME TypeInv, UNCHANGED vars
    PROVE  TypeInv'
<1>0. BrokerTypeOK /\ StoreOK /\ LocalsOK /\ MemOK /\ PlaceOK /\ ClockOK
  BY TypeInvParts
<1>1. MemOK' /\ PlaceOK'
  BY <1>0 DEF vars, monitorVars, localVars, MemOK, PlaceOK
<1>2. UNCHANGED <<brokerVars, storeVars, localVars, clock>>
  BY DEF vars
<1> QED  BY <1>0, <1>1, <1>2, Unchanged, TypeInvPartsNext

(* The strengthened type invariant holds in every state.                   *)
LEMMA TypeInvCorrect == Spec => []TypeInv
<1>1. Init => TypeInv
  BY InitType
<1>2. TypeInv /\ [Next]_vars => TypeInv'
  BY LoopType, EntryType, ActiveType, ExitReadType, ExitWriteType, EnterType, OutsideType,
     StutterType DEF Next, Monitor, Reconcile, RequestPositionExit
<1> QED  BY <1>1, <1>2, PTL DEF Spec

(* Every variable has its type, for every quantity, number of aborts and   *)
(* of failures: the monitor never leaves the ids that order_id() can make, *)
(* never asks for more than it bought, and never starts a third attempt.   *)
THEOREM TypeCorrect == Spec => []TypeOK
BY TypeInvCorrect, PTL DEF TypeInv

-----------------------------------------------------------------------------
(* A recorded entry that has not left the process.                         *)
Unsent(e) == Recorded(e, Qty) /\ ~Exists(e) /\ \A r \in wire : r.id # e

(* IntentBeforeOrder is not inductive: it needs that what is about to be   *)
(* sent is recorded, and that what may still be aborted was never sent.    *)
IntentInv ==
    /\ IntentBeforeOrder
    /\ \A o \in ExitIds : row[o].st # "aborted"
    /\ pc = "xSave" => Recorded(ExitId(mem, req.n), req.qty)
    /\ pc = "xPost" => Recorded(ExitId(mem, mem.exit), mem.ask)
    /\ pc = "eSave" => Unsent(<<attempts + 1, "entry", req.n>>)
    /\ pc \in {"ePost", "eAbort"} => Unsent(EntryOf(mem))

(* Between the intent of an order and its POST.                            *)
Sending == {"xSave", "xPost", "eSave", "ePost", "eAbort"}
RowKept == \A o \in OrderIds : /\ row'[o].qty = row[o].qty
                               /\ row'[o].st \in {row[o].st, "bound"}
                               /\ row[o].st = "none" => row'[o].st = "none"
Quiet == RowKept /\ SameOrders(ord') /\ wire' = wire /\ pc' \notin Sending

(* A quiet step keeps the intents: rows are at most bound, no order or     *)
(* POST appears, and nothing is about to be sent.                          *)
LEMMA QuietStep ==
    ASSUME TypeInv, IntentInv, Quiet
    PROVE  IntentInv'
<1>1. /\ \A o \in OrderIds : row'[o].qty = row[o].qty /\ row'[o].st \in {row[o].st, "bound"}
      /\ \A o \in OrderIds : ord'[o].qty = ord[o].qty
                            /\ (ord'[o].st = "none" <=> ord[o].st = "none")
      /\ wire' = wire /\ pc' \notin Sending
  BY DEF Quiet, RowKept, SameOrders
<1>2. EntryIds \cup ExitIds \subseteq OrderIds /\ \A r \in wire : r.id \in OrderIds
  BY DEF OrderIds, TypeInv, TypeOK, BrokerTypeOK, Request
<1>3. \A o \in EntryIds \cup ExitIds : ord'[o].st # "none" =>
          row'[o].st \in {"intent", "bound"} /\ row'[o].qty = ord'[o].qty
  BY <1>1, <1>2 DEF IntentInv, IntentBeforeOrder, Recorded, Exists
<1>4. \A r \in wire' : row'[r.id].st \in {"intent", "bound"} /\ row'[r.id].qty = r.qty
  BY <1>1, <1>2 DEF IntentInv, IntentBeforeOrder, Recorded
<1>5. \A o \in ExitIds : row'[o].st # "aborted"
  BY <1>1, <1>2 DEF IntentInv
<1> QED  BY <1>1, <1>3, <1>4, <1>5 DEF IntentInv, IntentBeforeOrder, Recorded, Exists, Sending

(* attach_broker_order is quiet on the rows.                               *)
LEMMA AttachQuiet ==
    ASSUME TypeInv, NEW S, Attach(S)
    PROVE  RowKept
<1>1. row \in [OrderIds -> Row]
  BY DEF TypeInv, TypeOK
<1> QED  BY <1>1 DEF Attach, Row, RowKept

(* So is leaving the rows alone.                                           *)
LEMMA SameRowQuiet ==
    ASSUME row' = row
    PROVE  RowKept
BY DEF RowKept

(* Leaving the order book alone brings no order.                           *)
LEMMA SameVenueQuiet ==
    ASSUME UNCHANGED ord
    PROVE  SameOrders(ord')
BY DEF SameOrders

(* No decision on an entry sends an order.                                 *)
LEMMA DecidePlace ==
    ASSUME NEW p, NEW x, NEW w, Decide(p, x, w)
    PROVE  pc' \in {"close", "minute", "stop"}
BY DEF Decide, CloseNow, Finish, Goto

(* Returning from request_position_exit sends nothing.                     *)
LEMMA SaveReturnQuiet ==
    ASSUME TypeInv, NEW p, NEW x, NEW o, SaveReturn(p, x, o)
    PROVE  RowKept /\ pc' \in {"tick", "minute"}
BY AttachQuiet, SameRowQuiet DEF SaveReturn, Finish, Goto

(* A cancel brings no order.                                               *)
LEMMA CancelOneQuiet ==
    ASSUME TypeInv, NEW o, CancelOne(o), pc \in {"flatCancel", "xCancel"}
    PROVE  Quiet
<1>1. SameOrders(ord')
  BY CancelRequestedType DEF CancelOne, TypeInv, TypeOK
<1>2. row' = row /\ wire' = wire /\ pc' \in {pc, "tick"}
  BY DEF CancelOne, storeVars, Raise
<1> QED  BY <1>1, <1>2, SameRowQuiet DEF Quiet, Sending

(* The loop, a start and a crash are quiet.                                *)
LEMMA LoopQuiet ==
    ASSUME TypeInv, Start \/ Crash \/ Tick \/ MinuteIdle \/ MinuteExit \/ CallFails
    PROVE  Quiet
<1>1. row' = row /\ UNCHANGED <<ord, wire>>
  BY DEF Start, Crash, Tick, MinuteIdle, MinuteExit, CallFails, storeVars, brokerVars
<1>2. pc' \in {"tick", "down", "entry", "stop", "close", "minute", "xPrevious"}
  BY DEF Start, Crash, Tick, Lifecycle, MinuteIdle, MinuteExit, CallFails, Goto, Raise
<1> QED  BY <1>1, <1>2, SameRowQuiet, SameVenueQuiet DEF Quiet, Sending

(* Every step of reconcile_symbol_position up to close() is quiet.         *)
LEMMA ReconcileQuiet ==
    ASSUME TypeInv, Reconcile
    PROVE  Quiet
<1>1. CASE EntryLookup \/ EntryReread
  <2>1. UNCHANGED <<ord, wire>>
    BY <1>1 DEF EntryLookup, EntryReread, brokerVars
  <2>2. RowKept
    BY <1>1, AttachQuiet, SameRowQuiet DEF EntryLookup, EntryReread, storeVars
  <2>3. pc' \in {"gonePosition", "cancelEntry", "close", "minute", "stop"}
    BY <1>1, DecidePlace DEF EntryLookup, EntryReread, Goto
  <2> QED  BY <2>1, <2>2, <2>3, SameVenueQuiet DEF Quiet, Sending
<1>2. CASE EntryGonePosition \/ EntryGoneOrders
  <2>1. row' = row /\ UNCHANGED <<ord, wire>>
    BY <1>2 DEF EntryGonePosition, EntryGoneOrders, storeVars, brokerVars
  <2>2. pc' \in {"tick", "goneOrders", "minute"}
    BY <1>2 DEF EntryGonePosition, EntryGoneOrders, Goto, Raise, Finish
  <2> QED  BY <2>1, <2>2, SameRowQuiet, SameVenueQuiet DEF Quiet, Sending
<1>3. CASE CancelEntry
  <2>1. SameOrders(ord')
    BY <1>3, CancelRequestedType, SameVenueQuiet DEF CancelEntry, TypeInv, TypeOK
  <2> QED  BY <1>3, <2>1, SameRowQuiet DEF CancelEntry, storeVars, Goto, Quiet, Sending
<1>4. CASE ActiveStop \/ ActiveTarget \/ ActiveHolding \/ FlatOrders
  <2>1. row' = row /\ UNCHANGED <<ord, wire>>
    BY <1>4 DEF ActiveStop, ActiveTarget, ActiveHolding, FlatOrders, storeVars, brokerVars
  <2>2. pc' \in {"target", "holding", "flatEntry", "tick", "close", "minute"}
    BY <1>4 DEF ActiveStop, ActiveTarget, ActiveHolding, FlatOrders, Goto, Raise, Finish, CloseNow
  <2> QED  BY <2>1, <2>2, SameRowQuiet, SameVenueQuiet DEF Quiet, Sending
<1>5. CASE FlatEntry \/ CloseRemember
  <2>1. UNCHANGED <<ord, wire>> /\ RowKept
    BY <1>5, AttachQuiet DEF FlatEntry, CloseRemember, brokerVars
  <2>2. pc' \in {"tick", "flatCancel", "xPrevious"}
    BY <1>5 DEF FlatEntry, CloseRemember, Goto, Raise
  <2> QED  BY <2>1, <2>2, SameVenueQuiet DEF Quiet, Sending
<1>6. CASE FlatCancel
  BY <1>6, CancelOneQuiet DEF FlatCancel
<1> QED  BY <1>1, <1>2, <1>3, <1>4, <1>5, <1>6 DEF Reconcile

(* request_position_exit is quiet but for its intent, save and POST.       *)
LEMMA ExitQuiet ==
    ASSUME TypeInv,
           \/ ExitPrevious \/ ExitVisible \/ ExitEntry \/ ExitBefore \/ ExitCancel
           \/ ExitRemaining \/ ExitRefresh \/ ExitFlat \/ ExitAttach \/ EntryAttach
    PROVE  Quiet
<1>1. CASE ExitPrevious \/ ExitEntry \/ ExitBefore \/ ExitRemaining
  <2>1. row' = row /\ UNCHANGED <<ord, wire>>
    BY <1>1 DEF ExitPrevious, ExitEntry, ExitBefore, ExitRemaining, storeVars, brokerVars
  <2>2. pc' \in {"xVisible", "xBefore", "tick", "xCancel", "xRefresh"}
    BY <1>1 DEF ExitPrevious, ExitEntry, ExitBefore, ExitRemaining, Goto, Raise
  <2> QED  BY <2>1, <2>2, SameRowQuiet, SameVenueQuiet DEF Quiet, Sending
<1>2. CASE ExitVisible \/ ExitRefresh \/ ExitFlat
  <2>1. UNCHANGED <<ord, wire>>
    BY <1>2 DEF ExitVisible, ExitRefresh, ExitFlat, brokerVars
  <2>2. RowKept
    BY <1>2, SaveReturnQuiet, SameRowQuiet DEF ExitVisible, ExitRefresh, ExitFlat, storeVars
  <2>3. pc' \in {"xEntry", "tick", "minute", "xQuantity"}
    BY <1>2, SaveReturnQuiet DEF ExitVisible, ExitRefresh, ExitFlat, Goto, Raise
  <2> QED  BY <2>1, <2>2, <2>3, SameVenueQuiet DEF Quiet, Sending
<1>3. CASE ExitCancel
  BY <1>3, CancelOneQuiet DEF ExitCancel
<1>4. CASE ExitAttach \/ EntryAttach
  <2>1. UNCHANGED <<ord, wire>> /\ RowKept
    BY <1>4, AttachQuiet DEF ExitAttach, EntryAttach, brokerVars
  <2>2. pc' \in {"tick", "minute"}
    BY <1>4 DEF ExitAttach, EntryAttach, Goto, Finish
  <2> QED  BY <2>1, <2>2, SameVenueQuiet DEF Quiet, Sending
<1> QED  BY <1>1, <1>2, <1>3, <1>4

(* The intent of an exit is recorded before it is saved, and one already   *)
(* there has the quantity asked for now.                                   *)
LEMMA ExitIntentKeepsIntents ==
    ASSUME TypeInv, IntentInv, ExitIntent
    PROVE  IntentInv'
<1>1. UNCHANGED <<ord, wire, mem, attempts>>
  BY DEF ExitIntent, brokerVars
<1>2. CASE row' = row /\ (Raise("owned") \/ Raise("exhausted") \/ Raise("unresolved")
                          \/ Raise("intent"))
  <2>1. Quiet
    BY <1>1, <1>2, SameRowQuiet, SameVenueQuiet DEF Raise, Quiet, Sending
  <2> QED  BY <2>1, QuietStep
<1>3. CASE /\ QuantityProven /\ NextExit <= 2 /\ seen # 0
           /\ ~(row[ExitId(mem, NextExit)].st # "none" /\ row[ExitId(mem, NextExit)].qty # seen)
           /\ RecordIntent(ExitId(mem, NextExit), seen)
           /\ req' = [n |-> NextExit, qty |-> seen]
           /\ Goto("xSave")
  <2> DEFINE id == ExitId(mem, NextExit)
  <2>1. mem \in Position /\ mem.phase # "none" /\ Numbered(mem) /\ BrokerTypeOK /\ snapB \in Order
        /\ row \in [OrderIds -> Row]
    BY DEF ExitIntent, TypeInv, TypeOK, AtWork, PcLabels, BrokerCalls
  <2>2. NextExit \in Retries /\ seen \in 0..Qty
    BY <1>3, <2>1, QtyFacts DEF NextExit, QuantityProven, Position, Retries, BrokerTypeOK, Order
  <2>3. id \in ExitIds /\ id \in OrderIds
    BY <2>1, <2>2, MemIds
  <2>4. row[id].st \in {"none", "intent", "bound"}
    BY <2>1, <2>3 DEF IntentInv, Row
  <2> HIDE DEF id
  <2>5. /\ \A o \in OrderIds : o # id => row'[o] = row[o]
        /\ row[id].st # "none" => row' = row /\ row[id].qty = seen
        /\ row[id].st = "none" => row'[id] = [st |-> "intent", qty |-> seen]
    BY <1>3, <2>1, <2>2, <2>3, RecordType DEF id
  <2>6. row'[id].st \in {"intent", "bound"} /\ row'[id].qty = seen
    BY <2>4, <2>5
  <2>7. \A o \in OrderIds : row[o].st \in {"intent", "bound"} => row'[o] = row[o]
    BY <2>5
  <2>8. IntentBeforeOrder'
    <3>1. EntryIds \cup ExitIds \subseteq OrderIds /\ \A r \in wire : r.id \in OrderIds
      BY <2>1 DEF OrderIds, BrokerTypeOK, Request
    <3> QED  BY <1>1, <2>7, <3>1 DEF IntentInv, IntentBeforeOrder, Recorded, Exists
  <2>9. \A o \in ExitIds : row'[o].st # "aborted"
    BY <2>5, <2>6 DEF IntentInv, OrderIds
  <2>10. pc' = "xSave" /\ Recorded(ExitId(mem, req.n), req.qty)'
    <3>1. ExitId(mem', req'.n) = id /\ req'.qty = seen /\ pc' = "xSave"
      BY <1>1, <1>3 DEF Goto, id, ExitId
    <3> QED  BY <2>6, <3>1 DEF Recorded, ExitId
  <2> QED  BY <2>8, <2>9, <2>10 DEF IntentInv
<1> QED  BY <1>2, <1>3 DEF ExitIntent

(* The exit saved is the exit recorded.                                    *)
LEMMA ExitSaveKeepsIntents ==
    ASSUME TypeInv, IntentInv, ExitSave
    PROVE  IntentInv'
<1>1. UNCHANGED <<ord, wire, row>> /\ pc = "xSave" /\ pc' = "xPost"
  BY DEF ExitSave, brokerVars, Goto
<1>2. mem' = [mem EXCEPT !.exit = req.n, !.ask = req.qty] /\ mem \in Position
  BY DEF ExitSave, Save, TypeInv, TypeOK
<1>3. ExitId(mem', mem'.exit) = ExitId(mem, req.n) /\ mem'.ask = req.qty
  BY <1>2 DEF ExitId, Position
<1>4. Recorded(ExitId(mem, mem.exit), mem.ask)'
  BY <1>1, <1>3 DEF IntentInv, Recorded, ExitId
<1>5. IntentBeforeOrder' /\ \A o \in ExitIds : row'[o].st # "aborted"
  BY <1>1 DEF IntentInv, IntentBeforeOrder, Recorded, Exists
<1> QED  BY <1>1, <1>4, <1>5 DEF IntentInv

(* Sending a recorded order keeps the intents.                             *)
LEMMA SubmitKeepsIntents ==
    ASSUME TypeInv, IntentInv, NEW id \in EntryIds \cup ExitIds, NEW q \in 1..Qty, NEW next,
           SubmitIdempotent(id, q, next), next \in {"xAttach", "eAttach"},
           Recorded(id, q), row' = row
    PROVE  IntentInv'
<1>1. /\ OrdersFrom({[id |-> id, qty |-> q]})
      /\ wire' \subseteq wire \cup {[id |-> id, qty |-> q]}
  BY SubmitStep DEF TypeInv, TypeOK
<1>2. pc' \in {"tick", "xAttach", "eAttach"}
  BY DEF SubmitIdempotent, Goto, PostLost, Raise
<1>3. IntentBeforeOrder'
  <2>1. \A o \in EntryIds \cup ExitIds : ord'[o].st # "none" => Recorded(o, ord'[o].qty)
    BY <1>1 DEF OrdersFrom, IntentInv, IntentBeforeOrder, Exists
  <2>2. \A r \in wire' : Recorded(r.id, r.qty)
    BY <1>1 DEF IntentInv, IntentBeforeOrder
  <2> QED  BY <2>1, <2>2 DEF IntentBeforeOrder, Recorded, Exists
<1> QED  BY <1>2, <1>3 DEF IntentInv

(* What is posted was recorded: exits by the intent of this or an earlier  *)
(* process, entries by the intent just made.                               *)
LEMMA PostKeepsIntents ==
    ASSUME TypeInv, IntentInv, ExitPost \/ EntryPost
    PROVE  IntentInv'
<1>1. /\ mem \in Position /\ mem.phase # "none" /\ Numbered(mem) /\ BrokerTypeOK
      /\ row' = row
  BY DEF ExitPost, EntryPost, storeVars, TypeInv, TypeOK, AtWork, PcLabels, BrokerCalls
<1>2. CASE ExitPost
  <2>1. mem.exit \in Retries /\ mem.ask \in 1..Qty
    BY <1>1, <1>2, QtyFacts DEF ExitPost, TypeInv, Position
  <2>2. ExitId(mem, mem.exit) \in ExitIds
    BY <1>1, <2>1, MemIds
  <2>3. Recorded(ExitId(mem, mem.exit), mem.ask)
    BY <1>2 DEF ExitPost, IntentInv
  <2>4. SubmitIdempotent(ExitId(mem, mem.exit), mem.ask, "xAttach")
    BY <1>2 DEF ExitPost
  <2> QED  BY <1>1, <2>1, <2>2, <2>3, <2>4, SubmitKeepsIntents
<1>3. CASE EntryPost
  <2>1. EntryOf(mem) \in EntryIds
    BY <1>1, MemIds
  <2>2. Recorded(EntryOf(mem), Qty)
    BY <1>3 DEF EntryPost, IntentInv, Unsent
  <2>3. SubmitIdempotent(EntryOf(mem), Qty, "eAttach")
    BY <1>3 DEF EntryPost
  <2> QED  BY <1>1, <2>1, <2>2, <2>3, QtyFacts, SubmitKeepsIntents
<1> QED  BY <1>2, <1>3

(* An entry takes an id that has no row, hence no order and no POST.       *)
LEMMA EntryIntentKeepsIntents ==
    ASSUME TypeInv, IntentInv, EntryIntent
    PROVE  IntentInv'
<1>1. UNCHANGED <<ord, wire, mem, attempts>>
  BY DEF EntryIntent, brokerVars
<1>2. CASE row' = row /\ Raise("intent")
  <2>1. Quiet
    BY <1>1, <1>2, SameRowQuiet, SameVenueQuiet DEF Raise, Quiet, Sending
  <2> QED  BY <2>1, QuietStep
<1>3. ASSUME NEW n \in 0..MaxAborts,
             row[<<attempts + 1, "entry", n>>].st = "none",
             RecordIntent(<<attempts + 1, "entry", n>>, Qty),
             req' = [n |-> n, qty |-> Qty], Goto("eSave")
      PROVE  IntentInv'
  <2> DEFINE id == <<attempts + 1, "entry", n>>
  <2>1. row \in [OrderIds -> Row] /\ BrokerTypeOK
    BY DEF TypeInv, TypeOK
  <2>2. id \in EntryIds /\ id \in OrderIds
    <3>1. attempts + 1 \in Attempts
      BY DEF EntryIntent, MayEnter, TypeInv, TypeOK, Attempts
    <3> QED  BY <3>1, IdTypes DEF OrderIds
  <2>3. row[id].st = "none" /\ RecordIntent(id, Qty) /\ <<attempts' + 1, "entry", req'.n>> = id
    BY <1>1, <1>3
  <2> HIDE DEF id
  <2>4. /\ \A o \in OrderIds : o # id => row'[o] = row[o]
        /\ row'[id] = [st |-> "intent", qty |-> Qty]
    BY <2>1, <2>2, <2>3, RecordType, QtyFacts
  <2>5. \A o \in OrderIds : row[o].st \in {"intent", "bound"} => row'[o] = row[o]
    BY <2>3, <2>4
  <2>6. IntentBeforeOrder'
    <3>1. EntryIds \cup ExitIds \subseteq OrderIds /\ \A r \in wire : r.id \in OrderIds
      BY <2>1 DEF OrderIds, BrokerTypeOK, Request
    <3> QED  BY <1>1, <2>5, <3>1 DEF IntentInv, IntentBeforeOrder, Recorded, Exists
  <2>7. \A o \in ExitIds : row'[o].st # "aborted"
    BY <2>4 DEF IntentInv, OrderIds
  <2>8. ~Exists(id) /\ \A r \in wire : r.id # id
    BY <2>2, <2>3 DEF IntentInv, IntentBeforeOrder, Recorded
  <2>9. Unsent(<<attempts + 1, "entry", req.n>>)'
    BY <1>1, <2>3, <2>4, <2>8 DEF Unsent, Recorded, Exists
  <2>10. pc' = "eSave"
    BY <1>3 DEF Goto
  <2> QED  BY <2>6, <2>7, <2>9, <2>10 DEF IntentInv
<1> QED  BY <1>2, <1>3 DEF EntryIntent

(* Until its POST the entry recorded is unsent.                            *)
LEMMA EntrySendKeepsIntents ==
    ASSUME TypeInv, IntentInv, EntrySave \/ EntryRefused
    PROVE  IntentInv'
<1>1. UNCHANGED <<ord, wire, row>>
  BY DEF EntrySave, EntryRefused, brokerVars, storeVars
<1>2. IntentBeforeOrder' /\ \A o \in ExitIds : row'[o].st # "aborted"
  BY <1>1 DEF IntentInv, IntentBeforeOrder, Recorded, Exists
<1>3. CASE EntrySave
  <2>1. EntryOf(mem') = <<attempts + 1, "entry", req.n>>
    BY <1>3 DEF EntrySave, Save, NoPosition, EntryOf
  <2>2. Unsent(EntryOf(mem))'
    BY <1>1, <1>3, <2>1 DEF EntrySave, IntentInv, Unsent, Recorded, Exists, EntryOf
  <2> QED  BY <1>2, <1>3, <2>2 DEF EntrySave, Goto, IntentInv
<1>4. CASE EntryRefused
  <2>1. Unsent(EntryOf(mem))'
    BY <1>1, <1>4 DEF EntryRefused, IntentInv, Unsent, Recorded, Exists, EntryOf
  <2> QED  BY <1>2, <1>4, <2>1 DEF EntryRefused, Goto, IntentInv
<1> QED  BY <1>3, <1>4

(* Only an intent that was never sent is aborted.                          *)
LEMMA AbortKeepsIntents ==
    ASSUME TypeInv, IntentInv, abort_unsubmitted_entry
    PROVE  IntentInv'
<1> DEFINE e == EntryOf(mem)
<1>1. /\ mem \in Position /\ mem.phase # "none" /\ Numbered(mem) /\ BrokerTypeOK
      /\ row \in [OrderIds -> Row]
  BY DEF abort_unsubmitted_entry, TypeInv, TypeOK, AtWork, PcLabels, BrokerCalls
<1>2. e \in EntryIds /\ e \notin ExitIds
  BY <1>1, MemIds, IdsDiffer
<1>3. Unsent(e) /\ UNCHANGED <<ord, wire>> /\ pc' = "tick"
  BY DEF abort_unsubmitted_entry, IntentInv, brokerVars, Goto
<1>4. row' = [row EXCEPT ![e].st = "aborted"]
  BY DEF abort_unsubmitted_entry
<1> HIDE DEF e
<1>5. \A o \in OrderIds : o # e => row'[o] = row[o]
  BY <1>1, <1>4
<1>6. IntentBeforeOrder'
  <2>1. EntryIds \cup ExitIds \subseteq OrderIds /\ \A r \in wire : r.id \in OrderIds
    BY <1>1 DEF OrderIds, BrokerTypeOK, Request
  <2>2. ~Exists(e) /\ \A r \in wire : r.id # e
    BY <1>3 DEF Unsent
  <2> QED  BY <1>3, <1>5, <2>1, <2>2 DEF IntentInv, IntentBeforeOrder, Recorded, Exists
<1>7. \A o \in ExitIds : row'[o].st # "aborted"
  BY <1>2, <1>5 DEF IntentInv, OrderIds
<1> QED  BY <1>3, <1>6, <1>7 DEF IntentInv

(* Time changes no order and no row.                                       *)
LEMMA ClockKeepsIntents ==
    ASSUME IntentInv, AdvanceClock \/ UNCHANGED vars
    PROVE  IntentInv'
<1>1. UNCHANGED <<ord, wire, row, pc, mem, attempts, req>>
  BY DEF AdvanceClock, vars, brokerVars, storeVars, monitorVars, localVars
<1> QED  BY <1>1 DEF IntentInv, IntentBeforeOrder, Unsent, Recorded, Exists, ExitId, EntryOf

(* The venue brings only orders that were posted, and those were recorded; *)
(* an unsent entry stays unsent.                                           *)
LEMMA VenueKeepsIntents ==
    ASSUME TypeInv, IntentInv, Venue
    PROVE  IntentInv'
<1>1. OrdersFrom(wire) /\ wire' \subseteq wire /\ UNCHANGED <<row, pc, mem, attempts, req>>
  BY BrokerStep DEF Venue, TypeInv, TypeOK, storeVars, monitorVars, localVars
<1>2. IntentBeforeOrder'
  BY <1>1 DEF OrdersFrom, IntentInv, IntentBeforeOrder, Recorded, Exists
<1>3. ASSUME NEW e \in EntryIds, Unsent(e)
      PROVE  row'[e].st \in {"intent", "bound"} /\ row'[e].qty = Qty
             /\ ord'[e].st = "none" /\ \A r \in wire' : r.id # e
  BY <1>1, <1>3 DEF OrdersFrom, Unsent, Recorded, Exists
<1>4. pc = "eSave" => <<attempts + 1, "entry", req.n>> \in EntryIds
  <2>1. pc = "eSave" => attempts + 1 \in Attempts /\ req.n \in 0..MaxAborts
    BY DEF TypeInv, TypeOK, Attempts
  <2> QED  BY <2>1, IdTypes
<1>5. pc \in {"ePost", "eAbort"} => EntryOf(mem) \in EntryIds
  <2>1. pc \in {"ePost", "eAbort"} => mem.phase # "none" /\ Numbered(mem) /\ mem \in Position
    BY DEF TypeInv, TypeOK, AtWork, PcLabels, BrokerCalls
  <2> QED  BY <2>1, MemIds DEF TypeInv, TypeOK
<1>6. (pc = "eSave" => Unsent(<<attempts + 1, "entry", req.n>>))'
  BY <1>1, <1>3, <1>4 DEF IntentInv, Unsent, Recorded, Exists
<1>7. (pc \in {"ePost", "eAbort"} => Unsent(EntryOf(mem)))'
  BY <1>1, <1>3, <1>5 DEF IntentInv, Unsent, Recorded, Exists, EntryOf
<1> QED  BY <1>1, <1>2, <1>6, <1>7 DEF IntentInv, Recorded, ExitId

(* There is no order at first.                                             *)
LEMMA InitIntents == Init => IntentInv
BY DEF Init, BrokerInit, NoOrder, NoRow, IntentInv, IntentBeforeOrder, Exists, OrderIds

(* The strengthened intent invariant holds in every state.                 *)
LEMMA IntentInvCorrect == Spec => []IntentInv
<1>1. Init => IntentInv
  BY InitIntents
<1>2. TypeInv /\ IntentInv /\ [Next]_vars => IntentInv'
  BY LoopQuiet, ReconcileQuiet, ExitQuiet, QuietStep, ExitIntentKeepsIntents,
     ExitSaveKeepsIntents, PostKeepsIntents, EntryIntentKeepsIntents, EntrySendKeepsIntents,
     AbortKeepsIntents, ClockKeepsIntents, VenueKeepsIntents
  DEF Next, Monitor, RequestPositionExit, Enter
<1> QED  BY <1>1, <1>2, TypeInvCorrect, PTL DEF Spec

(* No order reaches the venue without an intent of that quantity recorded  *)
(* before it and not aborted, whatever crashes, late POSTs, aborts and     *)
(* retries there are.                                                      *)
THEOREM IntentBeforeOrderCorrect == Spec => []IntentBeforeOrder
BY IntentInvCorrect, PTL DEF IntentInv
=============================================================================
