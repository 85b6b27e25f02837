---------------------------- MODULE ModernMonitor ----------------------------
(***************************************************************************)
(* scripts/monitor_modern_momentum_paper.py for one symbol and one trade   *)
(* date: the main loop, reconcile_symbol_position, request_position_exit   *)
(* and the protected entry, with the rows of operations/paper_state.py     *)
(* they write.  One action per broker call or store transaction, so that   *)
(* fills, cancels, failed calls and a crash fall between any two of them.  *)
(*                                                                         *)
(* mem is the position dictionary in the process, saved the row of         *)
(* paper_symbol_state, row the order intents of paper_orders.              *)
(***************************************************************************)
EXTENDS AlpacaPaper

VARIABLES
    row,      \* paper_orders: client order id -> its intent, or none
    saved,    \* paper_symbol_state: the position as last saved
    pc,       \* where the monitor is
    clock,    \* the session: entries allowed, cancel_at passed, flatten_at
    mem,      \* positions[symbol]
    attempts, \* attempts[symbol]
    outcome,  \* the symbol is in completed, in reentry_after, or in neither
    fault,    \* what the last RuntimeError of an iteration said
    cancelEntries, via, partial, snapA, snapB, vis, todo, req, prior  \* locals

storeVars   == <<row, saved>>
localVars   == <<cancelEntries, via, partial, snapA, snapB, vis, todo, req, prior>>
monitorVars == <<pc, mem, attempts, outcome, fault>>
vars == <<brokerVars, storeVars, clock, monitorVars, localVars>>

(***************************************************************************)
(* The persisted symbol state.  entry is the suffix of entry_client_id,    *)
(* legs says whether stop_client_id and target_client_id are known, exit   *)
(* is exit_retry (-1: no exit_client_id), ask the quantity of              *)
(* exit_request, obs the largest cumulative fill remembered per order.     *)
(***************************************************************************)
Phases   == {"none", "entry_pending", "active", "exit_pending", "complete", "stopped"}
Position == [phase : Phases, attempt : 0..2, entry : 0..MaxAborts, shares : 0..Qty,
             legs : BOOLEAN, exit : {-1} \cup Retries, ask : 0..Qty,
             obs : [OrderIds -> 0..Qty]]
NoPosition == [phase |-> "none", attempt |-> 0, entry |-> 0, shares |-> 0,
               legs |-> FALSE, exit |-> -1, ask |-> 0, obs |-> [o \in OrderIds |-> 0]]
NoRequest  == [n |-> 0, qty |-> 0]

Row    == [st : {"none", "intent", "aborted", "bound"}, qty : 0..Qty]
NoRow  == [st |-> "none", qty |-> 0]

EntryOf(p) == <<p.attempt, "entry", p.entry>>
ExitId(p, n) == <<p.attempt, "exit", n>>
LegsOf(p)  == IF p.legs THEN {StopOf(EntryOf(p)), TargetOf(EntryOf(p))} ELSE {}
(* Every *_client_id of the position, and the entry with its legs.         *)
ClientIds(p) == {EntryOf(p)} \cup LegsOf(p)
                \cup (IF p.exit >= 0 THEN {ExitId(p, p.exit)} ELSE {})
Owned(p) == ClientIds(p) \cup OrderTree(EntryOf(p))

Filled(x) == x.st = "filled"

(* Mutant: the broker's cumulative quantity is added up.                   *)
RememberIncrements(p, S) ==
    [p EXCEPT !.obs = [o \in OrderIds |->
        IF o \in S THEN p.obs[o] + ord[o].filled ELSE p.obs[o]]]
(* _remember_fill over the orders of S.                                    *)
Remember(p, S) ==
    [p EXCEPT !.obs = [o \in OrderIds |->
        IF o \in S /\ ord[o].filled > p.obs[o] THEN ord[o].filled ELSE p.obs[o]]]

(* attach_broker_order for the orders of S that have an intent row.        *)
Attach(S) ==
    row' = [o \in OrderIds |-> IF o \in S /\ Exists(o) /\ row[o].st # "none"
                               THEN [row[o] EXCEPT !.st = "bound"] ELSE row[o]]

Save(p) == saved' = p /\ mem' = p

Locals(c, v, pt, a, b, s, t, r, pr) ==
    /\ cancelEntries' = c /\ via' = v /\ partial' = pt
    /\ snapA' = a /\ snapB' = b /\ vis' = s /\ todo' = t /\ req' = r /\ prior' = pr
ClearLocals == Locals(FALSE, "none", FALSE, NoOrder, NoOrder, {}, {}, NoRequest, NoPosition)

Goto(l) == pc' = l /\ UNCHANGED fault

(* An exception ends the iteration; the loop reports it and comes back.    *)
Raise(why) ==
    /\ pc' = "tick" /\ fault' = why /\ ClearLocals

(* Back in main: a finished symbol leaves the positions being watched.     *)
Finish(p) ==
    /\ Goto("minute") /\ ClearLocals
    /\ mem' = IF p.phase \in {"complete", "stopped"} THEN NoPosition ELSE p
    /\ outcome' = IF p.phase \in {"complete", "stopped"} THEN p.phase ELSE outcome

CloseNow ==
    /\ Goto("close")
    /\ Locals(FALSE, "reconcile", FALSE, NoOrder, NoOrder, {}, {}, NoRequest, NoPosition)

Init ==
    /\ BrokerInit
    /\ row = [o \in OrderIds |-> NoRow]
    /\ saved = NoPosition /\ mem = NoPosition
    /\ pc = "down" /\ clock = "open" /\ attempts = 0 /\ outcome = "none" /\ fault = "none"
    /\ cancelEntries = FALSE /\ via = "none" /\ partial = FALSE
    /\ snapA = NoOrder /\ snapB = NoOrder /\ vis = {} /\ todo = {}
    /\ req = NoRequest /\ prior = NoPosition

(* Mutant: exits are sent without an intent of their own.                  *)
RecordEntriesOnly(id, q) ==
    row' = IF row[id].st = "none" /\ id \in EntryIds
           THEN [row EXCEPT ![id] = [st |-> "intent", qty |-> q]] ELSE row
(* record_order_intent: a row is made once and never changes its identity. *)
RecordIntent(id, q) ==
    row' = IF row[id].st = "none" THEN [row EXCEPT ![id] = [st |-> "intent", qty |-> q]]
           ELSE row

-----------------------------------------------------------------------------
(* Start, crash and the session clock.                                     *)

(* Mutant: the legs of a parent are not proven.                            *)
ProvenWithoutLegs == {o \in OrderIds : row[o].st # "none"} \cup ClientIds(saved)
(* assert_reconcilable: orders with an intent or a saved id, and the legs  *)
(* of entries with an intent; a position needs a symbol state and is long. *)
Proven == LET intents == {o \in OrderIds : row[o].st # "none"}
          IN  intents \cup ClientIds(saved)
              \cup UNION {OrderTree(e) : e \in intents \cap EntryIds}
assert_reconcilable ==
    /\ OpenOrders \subseteq Proven
    /\ seen # 0 => seen > 0 /\ saved.phase # "none"

Start ==
    /\ pc = "down"
    /\ assert_reconcilable
    /\ mem' = IF saved.phase \in {"entry_pending", "active", "exit_pending"}
              THEN saved ELSE NoPosition
    /\ attempts' = saved.attempt
    /\ outcome' = IF saved.phase \in {"complete", "stopped"} THEN saved.phase ELSE "none"
    /\ Goto("tick")
    /\ UNCHANGED <<brokerVars, storeVars, clock, localVars>>

Crash ==
    /\ pc # "down" /\ Glitch
    /\ pc' = "down" /\ mem' = NoPosition /\ attempts' = 0 /\ outcome' = "none"
    /\ fault' = "none" /\ ClearLocals
    /\ UNCHANGED <<ord, wire, held, seen, storeVars, clock>>

AdvanceClock ==
    /\ clock' = CASE clock = "open" -> "cancel" [] OTHER -> "flatten"
    /\ clock # "flatten"
    /\ UNCHANGED <<brokerVars, storeVars, monitorVars, localVars>>

-----------------------------------------------------------------------------
(* One iteration of the main loop.                                         *)

Lifecycle(p) ==
    CASE p.phase = "entry_pending" -> "entry"
      [] p.phase = "active"        -> "stop"
      [] p.phase = "exit_pending"  -> "close"
      [] OTHER                     -> "minute"

(* hardLoss: must_flatten_for_daily_return; frozen: alerts.is_frozen or a  *)
(* strategy mismatch.  Both may come and go.                               *)
FlattenOnLossOnly(hardLoss) == hardLoss \* mutant: flatten_at is forgotten
FlattenDue(hardLoss) == clock = "flatten" \/ hardLoss

Tick ==
    /\ pc = "tick"
    /\ \E hardLoss, frozen \in BOOLEAN :
        LET p == IF mem.phase = "active" /\ FlattenDue(hardLoss)
                 THEN [mem EXCEPT !.phase = "exit_pending"] ELSE mem
        IN  /\ pc' = Lifecycle(p)
            /\ mem' = IF p.phase \in {"complete", "stopped"} THEN NoPosition ELSE p
            /\ outcome' = IF p.phase \in {"complete", "stopped"} THEN p.phase ELSE outcome
            /\ cancelEntries' = (/\ p.phase = "entry_pending"
                                 /\ clock # "open" \/ hardLoss \/ frozen)
            /\ via' = IF p.phase = "exit_pending" THEN "reconcile" ELSE "none"
    /\ fault' = "none"
    /\ UNCHANGED <<brokerVars, storeVars, clock, attempts,
                   partial, snapA, snapB, vis, todo, req, prior>>

(* No entry and no exit signal, no new minute, or a bar download failed.   *)
MinuteIdle ==
    /\ pc = "minute" /\ Goto("tick")
    /\ UNCHANGED <<brokerVars, storeVars, clock, mem, attempts, outcome, localVars>>

(* actual_position_exit_reason fires on the bars of an active position.    *)
MinuteExit ==
    /\ pc = "minute" /\ mem.phase = "active"
    /\ Goto("xPrevious")
    /\ via' = "minute"
    /\ UNCHANGED <<brokerVars, storeVars, clock, mem, attempts, outcome,
                   cancelEntries, partial, snapA, snapB, vis, todo, req, prior>>

-----------------------------------------------------------------------------
(* reconcile_symbol_position, phase entry_pending.                         *)

LeftAllShares(x) == x.filled = x.qty \* mutant: an ended part fill is no fill
LeftShares(x) == x.filled > 0

(* What the last reading of the entry, x, makes of the position.           *)
Decide(p, x, wasPartial) ==
    LET done == [p EXCEPT !.phase = "complete"]
        open == [p EXCEPT !.phase = "active", !.legs = TRUE, !.shares = x.filled]
        e    == EntryOf(p)
        keep == UNCHANGED <<attempts, outcome>>
    IN  \/ /\ ~Filled(x) /\ (wasPartial \/ (x.st \in Terminal /\ LeftShares(x)))
           /\ Save(p) /\ CloseNow /\ keep
        \/ /\ ~Filled(x) /\ ~wasPartial /\ x.st \notin Terminal
           /\ saved' = p /\ Finish(p) /\ UNCHANGED attempts
        \/ /\ ~Filled(x) /\ ~wasPartial /\ x.st \in Terminal /\ ~LeftShares(x)
           /\ saved' = done /\ Finish(done) /\ UNCHANGED attempts
        \/ /\ Filled(x) /\ ~(Exists(StopOf(e)) /\ Exists(TargetOf(e)))
           /\ Save(p) /\ CloseNow /\ keep
        \/ /\ Filled(x) /\ Exists(StopOf(e)) /\ Exists(TargetOf(e))
           /\ Save(open) /\ Goto("stop") /\ ClearLocals /\ keep

EntryPart(x) == 0 < x.filled /\ x.filled < x.qty
MustCancel(x) == x.st \notin Terminal /\ (cancelEntries \/ EntryPart(x))

EntryLookup ==
    /\ pc = "entry"
    /\ LET e == EntryOf(mem)
           x == ord[e]
           p == Remember(mem, OrderTree(e))
       IN  \/ \* the lookup finds no order, or misses the one there is
              /\ IF Exists(e) THEN LookupGaps /\ Glitch ELSE UNCHANGED glitches
              /\ Goto("gonePosition")
              /\ UNCHANGED <<storeVars, mem, attempts, outcome, localVars>>
           \/ /\ Exists(e) /\ MustCancel(x)
              /\ Attach({e}) /\ Save(p)
              /\ Goto("cancelEntry")
              /\ Locals(cancelEntries, "none", EntryPart(x), x, NoOrder, {}, {},
                        NoRequest, NoPosition)
              /\ UNCHANGED <<glitches, attempts, outcome>>
           \/ /\ Exists(e) /\ ~MustCancel(x)
              /\ Attach({e}) /\ Decide(p, x, EntryPart(x))
              /\ UNCHANGED glitches
    /\ UNCHANGED <<ord, wire, held, seen, clock>>

EntryGonePosition ==
    /\ pc = "gonePosition"
    /\ IF seen # 0 THEN Raise("exposure") ELSE Goto("goneOrders") /\ UNCHANGED localVars
    /\ UNCHANGED <<brokerVars, storeVars, clock, mem, attempts, outcome>>

EntryGoneOrders ==
    /\ pc = "goneOrders"
    /\ LET done == [mem EXCEPT !.phase = "complete"]
       IN  IF OpenOrders # {}
           THEN Raise("exposure") /\ UNCHANGED <<saved, mem, outcome>>
           ELSE saved' = done /\ Finish(done)
    /\ UNCHANGED <<brokerVars, row, clock, attempts>>

CancelEntry ==
    /\ pc = "cancelEntry"
    /\ ord' = IF snapA.st = "pending_cancel" THEN ord ELSE CancelRequested(EntryOf(mem))
    /\ Goto("reread")
    /\ UNCHANGED <<wire, held, seen, glitches, storeVars, clock, mem, attempts, outcome, localVars>>

EntryReread ==
    /\ pc = "reread"
    /\ LET e == EntryOf(mem)
       IN  Attach({e}) /\ Decide(Remember(mem, OrderTree(e)), ord[e], partial)
    /\ UNCHANGED <<brokerVars, clock>>

-----------------------------------------------------------------------------
(* reconcile_symbol_position, phase active.                                *)

ActiveStop ==
    /\ pc = "stop"
    /\ Goto("target")
    /\ Locals(FALSE, "none", FALSE, ord[StopOf(EntryOf(mem))], NoOrder, {}, {},
              NoRequest, NoPosition)
    /\ UNCHANGED <<brokerVars, storeVars, clock, mem, attempts, outcome>>

ActiveTarget ==
    /\ pc = "target"
    /\ Goto("holding")
    /\ snapB' = ord[TargetOf(EntryOf(mem))]
    /\ Save(Remember(mem, LegsOf(mem)))
    /\ UNCHANGED <<brokerVars, row, clock, attempts, outcome,
                   cancelEntries, via, partial, snapA, vis, todo, req, prior>>

ProtectsIfPresent(x) == x.st # "none" \* mutant: its status is not looked at
Protects(x) == x.st \in Protective /\ x.filled = 0

ActiveHolding ==
    /\ pc = "holding"
    /\ LET p == [mem EXCEPT !.shares = seen]
       IN  \/ /\ seen = 0
              /\ Goto("flatEntry") /\ UNCHANGED <<saved, mem, outcome, localVars>>
           \/ /\ seen # 0 /\ (seen < 0 \/ seen > mem.shares)
              /\ Raise("owned") /\ UNCHANGED <<saved, mem, outcome>>
           \/ /\ seen \in 1..mem.shares /\ Protects(snapA) /\ Protects(snapB)
              /\ saved' = p /\ Finish(p)
           \/ /\ seen \in 1..mem.shares /\ ~(Protects(snapA) /\ Protects(snapB))
              /\ Save(p) /\ CloseNow /\ UNCHANGED outcome
    /\ UNCHANGED <<brokerVars, row, clock, attempts>>

(* No position row: the stop and the target must account for the entry.    *)
FlatEntry ==
    /\ pc = "flatEntry"
    /\ LET e == EntryOf(mem)
           sold == snapA.filled + snapB.filled
           legs == {<<StopOf(e), snapA>>, <<TargetOf(e), snapB>>}
       IN  /\ Attach({e}) /\ Save(Remember(mem, OrderTree(e)))
           /\ IF ord[e].filled = 0 \/ sold # ord[e].filled
              THEN Raise("flat")
              ELSE /\ Goto("flatCancel")
                   /\ todo' = {l[1] : l \in {k \in legs :
                                 IsLive(k[2]) /\ k[2].st # "pending_cancel"}}
                   /\ UNCHANGED <<cancelEntries, via, partial, snapA, snapB, vis, req, prior>>
    /\ UNCHANGED <<brokerVars, clock, attempts, outcome>>

(* A DELETE, here and below, whose reply may be lost after it took effect. *)
CancelOne(o) ==
    /\ ord' = CancelRequested(o)
    /\ \/ /\ todo' = todo \ {o} /\ UNCHANGED <<glitches, pc, fault>>
          /\ UNCHANGED <<cancelEntries, via, partial, snapA, snapB, vis, req, prior>>
       \/ Glitch /\ Raise("broker")
    /\ UNCHANGED <<wire, held, seen, storeVars, clock, mem, attempts, outcome>>

FlatCancel == pc = "flatCancel" /\ \E o \in todo : CancelOne(o)

(* Mutant: any bracket exit of the first attempt allows a second one.      *)
FlatPhaseAnyExit == IF mem.attempt = 1 THEN "stopped" ELSE "complete"
(* The first attempt may be tried again when its stop was what sold it.    *)
FlatPhase == IF mem.attempt = 1 /\ snapA.filled > 0 THEN "stopped" ELSE "complete"

FlatOrders ==
    /\ pc = "flatCancel" /\ todo = {}
    /\ LET p == IF OpenOrders # {} THEN mem ELSE [mem EXCEPT !.phase = FlatPhase]
       IN  saved' = p /\ Finish(p)
    /\ UNCHANGED <<brokerVars, row, clock, attempts>>

-----------------------------------------------------------------------------
(* close() remembers every known order, then asks for the exit.            *)

CloseRemember ==
    /\ pc = "close"
    /\ Attach(ClientIds(mem))
    /\ Save(Remember(mem, ClientIds(mem) \cup OrderTree(EntryOf(mem))))
    /\ Goto("xPrevious")
    /\ UNCHANGED <<brokerVars, clock, attempts, outcome, localVars>>

(* request_position_exit saves p and returns to the minute loop, or into   *)
(* close(), which remembers the order it was given: reading x of order o,  *)
(* or no order.                                                            *)
SaveReturn(p, x, o) ==
    LET q == IF via = "minute" \/ x.st = "none" \/ x.filled <= p.obs[o] THEN p
             ELSE [p EXCEPT !.obs[o] = x.filled]
    IN  /\ saved' = q
        /\ IF via = "minute"
           THEN Goto("tick") /\ ClearLocals /\ mem' = q /\ UNCHANGED <<row, outcome>>
           ELSE Finish(q) /\ Attach(IF x.st = "none" THEN {} ELSE {o})

PreviousId == ExitId(mem, IF mem.exit >= 0 THEN mem.exit ELSE 0)
Unresolved == mem.exit >= 0 /\ snapA.st = "none"
PreviousExitById == snapA \* mutant: the open orders are not consulted
(* An exit the point lookup missed is looked for among the open orders.    *)
PreviousExit ==
    IF Unresolved /\ PreviousId \in OpenOrders THEN ord[PreviousId] ELSE snapA

(* The point lookup of the previous exit may miss an order that exists.    *)
ExitPrevious ==
    /\ pc = "xPrevious"
    /\ \/ /\ snapA' = IF mem.exit >= 0 THEN ord[PreviousId] ELSE NoOrder
          /\ UNCHANGED glitches
       \/ /\ mem.exit >= 0 /\ Exists(PreviousId) /\ LookupGaps /\ Glitch
          /\ snapA' = NoOrder
    /\ Goto("xVisible")
    /\ UNCHANGED <<ord, wire, held, seen, storeVars, clock, mem, attempts, outcome,
                   cancelEntries, via, partial, snapB, vis, todo, req, prior>>

ExitVisible ==
    /\ pc = "xVisible"
    /\ IF ~IsLive(PreviousExit)
       THEN /\ snapA' = PreviousExit /\ vis' = OpenOrders
            /\ todo' = {o \in OpenOrders : ord[o].st # "pending_cancel"}
            /\ Goto("xEntry")
            /\ UNCHANGED <<storeVars, mem, outcome,
                           cancelEntries, via, partial, snapB, req, prior>>
       ELSE IF via = "minute"
       THEN Goto("tick") /\ ClearLocals /\ UNCHANGED <<storeVars, mem, outcome>>
       ELSE SaveReturn(mem, PreviousExit, PreviousId)
    /\ UNCHANGED <<brokerVars, clock, attempts>>

ExitEntry ==
    /\ pc = "xEntry"
    /\ IF vis \subseteq Owned(mem)
       THEN /\ snapB' = ord[EntryOf(mem)] /\ Goto("xBefore")
            /\ UNCHANGED <<cancelEntries, via, partial, snapA, vis, todo, req, prior>>
       ELSE Raise("unowned")
    /\ UNCHANGED <<brokerVars, storeVars, clock, mem, attempts, outcome>>

(* _owned_exit_quantity: a whole long within what the entry bought and     *)
(* within what the previous exit left.                                     *)
QuantityProven ==
    /\ seen >= 0
    /\ seen <= snapB.filled
    /\ snapA.st # "none" /\ seen > 0 => seen <= snapA.qty - snapA.filled

ExitBefore ==
    /\ pc = "xBefore"
    /\ IF ~QuantityProven THEN Raise("owned")
       ELSE IF Unresolved /\ seen # 0 /\ seen # mem.ask THEN Raise("unresolved")
       ELSE Goto("xCancel") /\ UNCHANGED localVars
    /\ UNCHANGED <<brokerVars, storeVars, clock, mem, attempts, outcome>>

ExitCancel == pc = "xCancel" /\ \E o \in todo : CancelOne(o)

(* Mutant: requested cancels are taken for confirmed ones.                 *)
ExitRemainingAssumed ==
    /\ pc = "xCancel" /\ todo = {}
    /\ vis' = {}
    /\ Goto("xRefresh")
    /\ UNCHANGED <<brokerVars, storeVars, clock, mem, attempts, outcome,
                   cancelEntries, via, partial, snapA, snapB, todo, req, prior>>

ExitRemaining ==
    /\ pc = "xCancel" /\ todo = {}
    /\ vis' = OpenOrders
    /\ Goto("xRefresh")
    /\ UNCHANGED <<brokerVars, storeVars, clock, mem, attempts, outcome,
                   cancelEntries, via, partial, snapA, snapB, todo, req, prior>>

(* Mutant: the fills that raced the cancels are not observed again.        *)
RefreshedPhaseOnly == [mem EXCEPT !.phase = "exit_pending"]
Refreshed == [Remember(mem, Owned(mem)) EXCEPT !.phase = "exit_pending"]

ExitRefresh ==
    /\ pc = "xRefresh"
    /\ LET p == Refreshed
       IN  IF vis # {}
           THEN SaveReturn(p, NoOrder, EntryOf(mem))
           ELSE /\ mem' = p /\ snapB' = ord[EntryOf(mem)] /\ Goto("xQuantity")
                /\ UNCHANGED <<storeVars, outcome,
                               cancelEntries, via, partial, snapA, vis, todo, req, prior>>
    /\ UNCHANGED <<brokerVars, clock, attempts>>

(* What the orders of the position sold: the latest exit and the legs.     *)
Sold(p) == FilledOf(Owned(p) \cap SellIds)

ExitFlat ==
    /\ pc = "xQuantity" /\ seen = 0
    /\ IF snapB.filled # Sold(mem)
       THEN Raise("disagree") /\ UNCHANGED <<storeVars, mem, outcome>>
       ELSE SaveReturn([mem EXCEPT !.phase = "complete"], snapA, PreviousId)
    /\ UNCHANGED <<brokerVars, clock, attempts>>

(* Mutant: an unresolved exit also moves on to the next id.                *)
NextExitAlways == mem.exit + 1
(* A terminal exit moves on to the next id, an unresolved one keeps its id.*)
NextExit == IF mem.exit < 0 THEN 0
            ELSE IF snapA.st # "none" THEN mem.exit + 1 ELSE mem.exit

(* record_order_intent of the next exit, after its last checks.            *)
ExitIntent ==
    /\ pc = "xQuantity" /\ seen # 0
    /\ LET retry == NextExit
           id == ExitId(mem, retry)
           keep == UNCHANGED row
       IN  \/ ~QuantityProven /\ Raise("owned") /\ keep
           \/ QuantityProven /\ retry > 2 /\ Raise("exhausted") /\ keep
           \/ /\ QuantityProven /\ retry <= 2 /\ Unresolved /\ mem.ask # seen
              /\ Raise("unresolved") /\ keep
           \/ /\ QuantityProven /\ retry <= 2 /\ (Unresolved => mem.ask = seen)
              /\ IF row[id].st # "none" /\ row[id].qty # seen
                 THEN Raise("intent") /\ keep
                 ELSE /\ RecordIntent(id, seen)
                      /\ req' = [n |-> retry, qty |-> seen]
                      /\ Goto("xSave")
                      /\ UNCHANGED <<cancelEntries, via, partial, snapA, snapB, vis,
                                     todo, prior>>
    /\ UNCHANGED <<brokerVars, saved, clock, mem, attempts, outcome>>

ExitSave ==
    /\ pc = "xSave"
    /\ Save([mem EXCEPT !.exit = req.n, !.ask = req.qty])
    /\ Goto("xPost")
    /\ UNCHANGED <<brokerVars, row, clock, attempts, outcome, localVars>>

(* _submit_idempotent: an order already there is returned, otherwise one   *)
(* POST; a refused or lost one is a BrokerError.                           *)
PostLost(id, q) ==
    /\ glitches > 0
    /\ \/ UNCHANGED <<ord, wire>>
       \/ ord' = Accepted(id, q, TRUE) /\ UNCHANGED wire
       \/ LatePosts /\ wire' = wire \cup {[id |-> id, qty |-> q]} /\ UNCHANGED ord
    /\ glitches' = glitches - 1 /\ UNCHANGED <<held, seen>>
    /\ Raise("broker")

SubmitIdempotent(id, q, next) ==
    \/ /\ IF Exists(id) THEN UNCHANGED brokerVars ELSE Accept(id, q) /\ UNCHANGED wire
       /\ Goto(next) /\ UNCHANGED localVars
    \/ ~Exists(id) /\ PostLost(id, q)

ExitPost ==
    /\ pc = "xPost"
    /\ SubmitIdempotent(ExitId(mem, mem.exit), mem.ask, "xAttach")
    /\ UNCHANGED <<storeVars, clock, mem, attempts, outcome>>

ExitAttach ==
    /\ pc = "xAttach"
    /\ LET o == ExitId(mem, mem.exit)
       IN  IF via = "minute"
           THEN /\ Attach({o}) /\ saved' = mem /\ Goto("tick") /\ ClearLocals
                /\ UNCHANGED <<mem, outcome>>
           ELSE LET p == Remember(mem, {o})
                IN  Attach({o}) /\ saved' = p /\ Finish(p)
    /\ UNCHANGED <<brokerVars, clock, attempts>>

-----------------------------------------------------------------------------
(* The protected entry.                                                    *)

MayEnter ==
    /\ mem.phase = "none" /\ outcome # "complete" /\ clock = "open"
    /\ attempts < 2
    /\ attempts = 1 => outcome = "stopped"

(* A signal passed every guard: record_order_intent under the first id     *)
(* that was not aborted; an intent left by a crash is an identity error.   *)
EntryIntent ==
    /\ pc = "minute" /\ MayEnter
    /\ \E n \in 0..MaxAborts :
        LET id == <<attempts + 1, "entry", n>>
        IN  /\ \A k \in 0..(n - 1) : row[<<attempts + 1, "entry", k>>].st = "aborted"
            /\ row[id].st # "aborted"
            /\ IF row[id].st = "none"
               THEN /\ RecordIntent(id, Qty)
                    /\ req' = [n |-> n, qty |-> Qty]
                    /\ prior' = saved
                    /\ Goto("eSave")
                    /\ UNCHANGED <<cancelEntries, via, partial, snapA, snapB, vis, todo>>
               ELSE Raise("intent") /\ UNCHANGED row
    /\ UNCHANGED <<brokerVars, saved, clock, mem, attempts, outcome>>

EntrySave ==
    /\ pc = "eSave"
    /\ Save([NoPosition EXCEPT !.phase = "entry_pending", !.attempt = attempts + 1,
                               !.entry = req.n, !.obs = prior.obs])
    /\ attempts' = attempts + 1
    /\ Goto("ePost")
    /\ UNCHANGED <<brokerVars, row, clock, outcome, localVars>>

(* validate_before_entry_post accepts: the POST goes out.                  *)
EntryPost ==
    /\ pc = "ePost" /\ (clock = "open" \/ Exists(EntryOf(mem)))
    /\ SubmitIdempotent(EntryOf(mem), Qty, "eAttach")
    /\ UNCHANGED <<storeVars, clock, mem, attempts, outcome>>

(* validate_before_entry_post refuses: PreSubmitRejected.                  *)
EntryRefused ==
    /\ pc = "ePost" /\ ~Exists(EntryOf(mem))
    /\ Goto("eAbort")
    /\ UNCHANGED <<brokerVars, storeVars, clock, mem, attempts, outcome, localVars>>

(* Mutant: the symbol state is deleted, whatever was there before.         *)
abort_forgets_prior ==
    /\ pc = "eAbort"
    /\ row' = [row EXCEPT ![EntryOf(mem)].st = "aborted"]
    /\ saved' = NoPosition /\ mem' = NoPosition
    /\ attempts' = attempts - 1
    /\ Goto("tick") /\ ClearLocals
    /\ UNCHANGED <<brokerVars, clock, outcome>>

abort_unsubmitted_entry ==
    /\ pc = "eAbort"
    /\ row' = [row EXCEPT ![EntryOf(mem)].st = "aborted"]
    /\ saved' = prior /\ mem' = NoPosition
    /\ attempts' = attempts - 1
    /\ Goto("tick") /\ ClearLocals
    /\ UNCHANGED <<brokerVars, clock, outcome>>

EntryAttach ==
    /\ pc = "eAttach"
    /\ Attach({EntryOf(mem)}) /\ saved' = mem
    /\ Goto("tick") /\ ClearLocals
    /\ UNCHANGED <<brokerVars, clock, mem, attempts, outcome>>

-----------------------------------------------------------------------------
(* Any request to the broker may fail without effect.                      *)
BrokerCalls == {"entry", "gonePosition", "goneOrders", "cancelEntry", "reread", "stop",
                "target", "holding", "flatEntry", "flatCancel", "xPrevious", "xVisible",
                "xEntry", "xBefore", "xCancel", "xRefresh", "xQuantity"}
CallFails ==
    /\ pc \in BrokerCalls /\ Glitch /\ Raise("broker")
    /\ UNCHANGED <<ord, wire, held, seen, storeVars, clock, mem, attempts, outcome>>

Reconcile ==
    \/ EntryLookup \/ EntryGonePosition \/ EntryGoneOrders \/ CancelEntry \/ EntryReread
    \/ ActiveStop \/ ActiveTarget \/ ActiveHolding
    \/ FlatEntry \/ FlatCancel \/ FlatOrders \/ CloseRemember

RequestPositionExit ==
    \/ ExitPrevious \/ ExitVisible \/ ExitEntry \/ ExitBefore \/ ExitCancel
    \/ ExitRemaining \/ ExitRefresh \/ ExitFlat \/ ExitIntent \/ ExitSave
    \/ ExitPost \/ ExitAttach

Enter ==
    \/ EntryIntent \/ EntrySave \/ EntryPost \/ EntryRefused
    \/ abort_unsubmitted_entry \/ EntryAttach

Monitor ==
    \/ Start \/ Tick \/ MinuteIdle \/ MinuteExit
    \/ Reconcile \/ RequestPositionExit \/ Enter

Venue == BrokerNext /\ UNCHANGED <<storeVars, clock, monitorVars, localVars>>

Next == Monitor \/ Crash \/ CallFails \/ AdvanceClock \/ Venue

Spec == Init /\ [][Next]_vars

(* The loop keeps polling while the process is up and the scheduler starts *)
(* it again; during regular hours the venue settles a cancel               *)
(* request and fills a market exit.                                        *)
VenueSettles(o) ==
    /\ Fill(o) \/ ConfirmCancel(o)
    /\ UNCHANGED <<storeVars, clock, monitorVars, localVars>>
PollingFairness ==
    /\ WF_vars(Monitor)
    /\ \A o \in ExitIds : WF_vars(VenueSettles(o))
    /\ \A o \in EntryIds \cup LegIds :
         WF_vars(ord[o].st = "pending_cancel" /\ VenueSettles(o))

PollingSpec == Spec /\ PollingFairness

-----------------------------------------------------------------------------
(* Correctness.                                                            *)

PcLabels == BrokerCalls \cup {"down", "tick", "minute", "close", "xSave", "xPost", "xAttach",
                              "eSave", "ePost", "eAbort", "eAttach"}
Faults == {"none", "broker", "exposure", "owned", "flat", "unowned", "unresolved",
           "disagree", "exhausted", "intent"}

(* Every variable has its type: in particular exit_retry stays within the  *)
(* three exit ids of an attempt and no remembered fill exceeds the order.  *)
TypeOK ==
    /\ BrokerTypeOK
    /\ row \in [OrderIds -> Row]
    /\ saved \in Position /\ mem \in Position /\ prior \in Position
    /\ pc \in PcLabels /\ clock \in {"open", "cancel", "flatten"}
    /\ attempts \in 0..2 /\ outcome \in {"none", "complete", "stopped"}
    /\ fault \in Faults
    /\ {cancelEntries, partial} \subseteq BOOLEAN
    /\ via \in {"none", "minute", "reconcile"}
    /\ snapA \in Order /\ snapB \in Order
    /\ vis \subseteq OrderIds /\ todo \subseteq OrderIds
    /\ req \in [n : 0..MaxAborts \cup Retries, qty : 0..Qty]

(* No order without a durable intent: whatever entry or exit the venue     *)
(* has, or may still receive, was first recorded by record_order_intent    *)
(* with that quantity, and was not aborted: "order intent must be          *)
(* persisted before broker submission".                                    *)
Recorded(id, q) == row[id].st \in {"intent", "bound"} /\ row[id].qty = q
IntentBeforeOrder ==
    /\ \A o \in EntryIds \cup ExitIds : Exists(o) => Recorded(o, ord[o].qty)
    /\ \A r \in wire : Recorded(r.id, r.qty)

(* A market exit works alone: every protective order is gone before it is  *)
(* sent, and it is never doubled, whatever lookup failed or POST was lost. *)
ExitWorksAlone == \A o \in ExitIds \cap OpenOrders : OpenOrders = {o}

(* What a working exit may still sell is exactly what is held: it cannot   *)
(* open a short and leaves nothing behind.                                 *)
ExitIsWholePosition ==
    \A o \in ExitIds \cap OpenOrders : ord[o].qty - ord[o].filled = held

(* Shares held and orders working at the venue always belong to a symbol   *)
(* state that the next process will take up again: a state is complete or  *)
(* stopped only when the symbol is flat and nothing works any more.        *)
ExposureTracked ==
    held # 0 \/ OpenOrders # {} => saved.phase \in {"entry_pending", "active", "exit_pending"}

(* The second attempt is sent only after the first was filled, sold again  *)
(* in full by its bracket, at least partly by the stop, and nothing of it  *)
(* was left working.                                                       *)
ReentryOnlyAfterStop ==
    \A e, f \in EntryIds :
        Exists(e) /\ Exists(f) /\ e[1] = 1 /\ f[1] = 2 =>
            /\ ord[StopOf(e)].filled > 0
            /\ ord[StopOf(e)].filled + ord[TargetOf(e)].filled = ord[e].filled
            /\ ~IsLive(ord[StopOf(e)]) /\ ~IsLive(ord[TargetOf(e)])

(* When a symbol is put away its saved state has seen every fill of every  *)
(* order: the fills that raced a cancel, a retry or a restart included.    *)
(* The notifications are made from these observations only.                *)
PutAwayFillsRecorded ==
    saved.phase \in {"complete", "stopped"} =>
        \A o \in OrderIds : saved.obs[o] = ord[o].filled

(* Whenever the monitor dies, assert_reconcilable accepts what it left at  *)
(* the venue: the lock-out is for orders and positions of somebody else.   *)
OwnTraceReconciles == assert_reconcilable

(* A working exit is never canceled by the monitor, not even when its      *)
(* point lookup fails or its POST was answered late.                       *)
LiveExitNotCanceled ==
    [][\A o \in ExitIds : ord[o].st \in {"new", "partially_filled"}
                           => ord'[o].st # "pending_cancel"]_vars

(* One symbol's day is a long-only trade: see LongOnlyTrade.               *)
BoughtIn(a) == FilledOf({e \in EntryIds : e[1] = a})
Trade == INSTANCE LongOnlyTrade WITH
    stage   <- CASE saved.phase = "none" -> "idle"
                 [] saved.phase = "stopped" -> "stopped"
                 [] saved.phase = "complete" -> "done"
                 [] OTHER -> "open",
    attempt <- saved.attempt,
    bought  <- [a \in 1..2 |-> BoughtIn(a)]
ImplementsLongOnlyTrade == Trade!TradeSpec

(* If the clock reaches flatten_at, the account ends flat with nothing     *)
(* working, whatever failed before.                                        *)
SessionEndsFlat == WF_vars(AdvanceClock) => <>[](held = 0 /\ OpenOrders = {})

(* A position whose stop and target do not both stand is closed, or they   *)
(* stand in the end, without waiting for flatten_at: the loop may not keep *)
(* a naked position.                                                       *)
BracketStands == \E e \in EntryIds : /\ ord[StopOf(e)].st = "new"
                                     /\ ord[TargetOf(e)].st = "new"
NakedPositionIsClosed == (held > 0 /\ ~BracketStands) ~> (held = 0 \/ BracketStands)
=============================================================================
