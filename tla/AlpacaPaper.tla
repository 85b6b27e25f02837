----------------------------- MODULE AlpacaPaper -----------------------------
(***************************************************************************)
(* The Alpaca paper account as the monitor sees it, for one symbol and one *)
(* trade date: the orders it knows by client order id, the bracket legs it *)
(* creates with an entry, asynchronous fills, cancels that are requests    *)
(* and not results, POSTs whose reply is lost or which arrive late, and a  *)
(* position endpoint that may trail the order endpoints.                   *)
(*                                                                         *)
(* The venue is outside the repository: it is modelled from what           *)
(* execution/alpaca_paper.py sends to it and what the monitor expects back.*)
(* canceled, expired and rejected are one status here, "canceled": the     *)
(* code only asks whether a status is terminal, and whether it is filled.  *)
(***************************************************************************)
EXTENDS Integers, FiniteSets, FiniteSetsExt, Functions

CONSTANTS
    Qty,          \* whole shares of every entry
    MaxAborts,    \* bound: entries of one attempt refused before their POST
    MaxGlitches,  \* bound: failures of any kind in one behaviour
    PositionLag,  \* TRUE: /v2/positions may trail the fills
    LatePosts,    \* TRUE: a POST whose reply was lost may still be travelling
    LookupGaps    \* TRUE: the lookup by client id may miss an order that exists

ASSUME QtyAssumption      == Qty \in Nat \ {0}
ASSUME AbortsAssumption   == MaxAborts \in Nat
ASSUME GlitchesAssumption == MaxGlitches \in Nat
ASSUME SwitchAssumption   == {PositionLag, LatePosts, LookupGaps} \subseteq BOOLEAN

VARIABLES
    ord,      \* client order id -> the order as the venue holds it
    wire,     \* POSTs still travelling after the client gave up on them
    held,     \* the shares in the account
    seen,     \* the shares the position endpoint reports
    glitches  \* failures still allowed

brokerVars == <<ord, wire, held, seen, glitches>>

(***************************************************************************)
(* Client order ids.  order_id() makes them from the attempt and the role; *)
(* a refused entry moves on to the suffix -rN, a terminal exit to -rN.     *)
(***************************************************************************)
Attempts == 1..2
Retries  == 0..2
EntryIds == Attempts \X {"entry"} \X (0..MaxAborts)
LegIds   == Attempts \X {"stop", "target"} \X (0..MaxAborts)
ExitIds  == Attempts \X {"exit"} \X Retries
OrderIds == EntryIds \cup LegIds \cup ExitIds
SellIds  == LegIds \cup ExitIds

StopOf(e)    == <<e[1], "stop", e[3]>>
TargetOf(e)  == <<e[1], "target", e[3]>>
EntryOfLeg(l) == <<l[1], "entry", l[3]>>
Sibling(l)   == IF l[2] = "stop" THEN <<l[1], "target", l[3]>>
                                 ELSE <<l[1], "stop", l[3]>>

Terminal   == {"filled", "canceled"}
Protective == {"new"}
Statuses   == Terminal \cup Protective
              \cup {"none", "held", "partially_filled", "pending_cancel"}

Order   == [st : Statuses, qty : 0..Qty, filled : 0..Qty]
NoOrder == [st |-> "none", qty |-> 0, filled |-> 0]
Request == [id : EntryIds \cup ExitIds, qty : 1..Qty]

Exists(o)    == ord[o].st # "none"
IsLive(x)    == x.st \notin Terminal \cup {"none"}
OpenOrders   == {o \in OrderIds : IsLive(ord[o])}
(* The entry with the legs the venue made for it: _order_tree((entry,)).   *)
OrderTree(e) == {e} \cup {l \in {StopOf(e), TargetOf(e)} : Exists(l)}

FilledOf(S) == SumFunctionOnSet([o \in OrderIds |-> ord[o].filled], S)

BrokerInit ==
    /\ ord = [o \in OrderIds |-> NoOrder]
    /\ wire = {}
    /\ held = 0 /\ seen = 0
    /\ glitches = MaxGlitches

Glitch == glitches > 0 /\ glitches' = glitches - 1

(* The position endpoint follows the fills at once unless it may lag.      *)
Settle(o, k) ==
    /\ held' = IF o \in EntryIds THEN held + k ELSE held - k
    /\ seen' = IF PositionLag THEN seen ELSE held'

-----------------------------------------------------------------------------
(* What the venue does with a request it receives.                         *)

Working(q) == [st |-> "new", qty |-> q, filled |-> 0]
Held(q)    == [st |-> "held", qty |-> q, filled |-> 0]

(* A new order; an entry brings its two protective legs, held until it is  *)
(* filled, unless the venue failed to create them.                         *)
Accepted(id, q, legs) ==
    [o \in OrderIds |->
        CASE o = id -> Working(q)
          [] legs /\ id \in EntryIds /\ o \in {StopOf(id), TargetOf(id)} -> Held(q)
          [] OTHER -> ord[o]]

Accept(id, q) ==
    \/ ord' = Accepted(id, q, TRUE) /\ UNCHANGED <<held, seen, glitches>>
    \/ id \in EntryIds /\ Glitch /\ ord' = Accepted(id, q, FALSE) /\ UNCHANGED <<held, seen>>

(* DELETE: 204 means the cancel was requested; 404 and 422 change nothing. *)
CancelRequested(o) ==
    IF IsLive(ord[o]) THEN [ord EXCEPT ![o].st = "pending_cancel"] ELSE ord

(* An entry that ends unfilled takes its held legs with it; one that ends  *)
(* partly filled may leave them standing.                                  *)
Ended(o) ==
    LET ended(legs) == [x \in OrderIds |->
            IF x = o \/ (x \in legs /\ IsLive(ord[x]))
            THEN [ord[x] EXCEPT !.st = "canceled"] ELSE ord[x]]
        family == IF o \in EntryIds THEN {StopOf(o), TargetOf(o)} ELSE {}
    IN  IF o \in EntryIds /\ ord[o].filled > 0 THEN {ended({}), ended(family)}
                                               ELSE {ended(family)}

-----------------------------------------------------------------------------
(* Events of the venue.                                                    *)

(* What can still fill: the legs of a bracket share one quantity.          *)
Room(o) == ord[o].qty - ord[o].filled - (IF o \in LegIds THEN ord[Sibling(o)].filled ELSE 0)

AfterFill(o, k) ==
    LET status == CASE ord[o].filled + k = ord[o].qty -> "filled"
                    [] ord[o].filled + k # ord[o].qty /\ k = Room(o) -> "canceled"
                    [] k # Room(o) /\ ord[o].st = "pending_cancel" -> "pending_cancel"
                    [] OTHER -> "partially_filled"
        cancels(x) == o \in LegIds /\ x = Sibling(o) /\ k = Room(o) /\ IsLive(ord[x])
    IN  [x \in OrderIds |->
            IF x = o THEN [ord[o] EXCEPT !.filled = @ + k, !.st = status]
            ELSE IF cancels(x) THEN [ord[x] EXCEPT !.st = "canceled"]
            ELSE ord[x]]

Fill(o) ==
    /\ ord[o].st \in {"new", "partially_filled", "pending_cancel"}
    /\ o \in LegIds => ord[EntryOfLeg(o)].st = "filled"
    /\ \E k \in 1..Room(o) : ord' = AfterFill(o, k) /\ Settle(o, k)
    /\ UNCHANGED <<wire, glitches>>

ActivateLegs(e) ==
    /\ ord[e].st = "filled"
    /\ \E l \in {StopOf(e), TargetOf(e)} : ord[l].st = "held"
    /\ ord' = [o \in OrderIds |->
                 IF o \in {StopOf(e), TargetOf(e)} /\ ord[o].st = "held"
                 THEN [ord[o] EXCEPT !.st = "new"] ELSE ord[o]]
    /\ UNCHANGED <<wire, held, seen, glitches>>

ConfirmCancel(o) ==
    /\ ord[o].st = "pending_cancel"
    /\ ord' \in Ended(o)
    /\ UNCHANGED <<wire, held, seen, glitches>>

(* The venue ends a working order itself: rejected, expired or canceled.   *)
VenueEnds(o) ==
    /\ ord[o].st \in {"new", "partially_filled"}
    /\ Glitch
    /\ ord' \in Ended(o)
    /\ UNCHANGED <<wire, held, seen>>

(* A duplicate client order id is refused by the venue.                    *)
DeliverLate(r) ==
    /\ wire' = wire \ {r}
    /\ ord' = IF Exists(r.id) THEN ord ELSE Accepted(r.id, r.qty, TRUE)
    /\ UNCHANGED <<held, seen, glitches>>

PublishPosition ==
    /\ PositionLag /\ seen # held
    /\ seen' = held
    /\ UNCHANGED <<ord, wire, held, glitches>>

BrokerNext ==
    \/ \E o \in OrderIds : Fill(o) \/ ConfirmCancel(o) \/ VenueEnds(o)
    \/ \E e \in EntryIds : ActivateLegs(e)
    \/ \E r \in wire : DeliverLate(r)
    \/ PublishPosition

BrokerTypeOK ==
    /\ ord \in [OrderIds -> Order]
    /\ wire \subseteq Request
    /\ held \in Int /\ seen \in Int
    /\ glitches \in 0..MaxGlitches
=============================================================================
