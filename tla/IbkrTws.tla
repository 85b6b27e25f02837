------------------------------ MODULE IbkrTws ------------------------------
(***************************************************************************)
(* The IBKR gateway (TWS) and the adapter in front of it, for one symbol:  *)
(* the account that is logged in, its position, the orders TWS was sent,   *)
(* and the one order request the adapter may be waiting for.  TWS answers  *)
(* through callbacks of a reader thread, so everything here may happen     *)
(* between two steps of the caller.  An order is named by its orderRef:    *)
(* the account and the client order id (mode and client id are fixed).     *)
(* What TWS says of an order is free text of which the adapter knows a few *)
(* words; every other word goes through it as it is.                       *)
(***************************************************************************)
EXTENDS Integers, FiniteSets, FiniteSetsExt, Functions

CONSTANTS
    Accounts,      \* accounts TWS can be logged in to
    Ids,           \* client order ids
    MaxQty,        \* bound on the quantity of an order, and of a first position
    SnapshotRaces, \* may an order fill between the two reads of a snapshot?
    OtherWords,    \* does TWS use words of orders that the adapter does not know?
    MaxErred,      \* bound on the orders TWS tells an error of although it has them
    MaxRows        \* bound on the rows of a position between those two reads

ASSUME QtyAssumption == MaxQty \in Nat \ {0}

VARIABLES
    login,  \* the account of managedAccounts
    pos,    \* position of each account
    tws,    \* what TWS has of each order
    erred,  \* orders it has, of which it has told an error all the same
    up,     \* OfficialIbapiAdapter.connected
    seen,   \* reqPositions answered, reqAllOpenOrders not yet: the account it is
            \* about, the sum of its long rows, and how many rows there are
    asked,  \* the order whose event the adapter waits for
    reply   \* order_results / errors_by_request of that order

gatewayVars == <<login, pos, tws, erred>>
adapterVars == <<up, seen, asked, reply>>

Keys == Accounts \X Ids
NoKey == <<>>
Sides == {"BUY", "SELL"}
Qtys == 1..MaxQty

NoOrder == [st |-> "none", side |-> "BUY", qty |-> 0, left |-> 0]
Taken == {"working", "filled", "cancelled"}
Completed == {"filled", "cancelled"}

(* _normalize_status: the words it knows of an order in each state, and    *)
(* "raw" for the many others TWS has (PendingCancel, ApiPending) or writes *)
(* (a completedStatus).  Inactive is read as a refusal.                    *)
Other(words) == IF OtherWords THEN words ELSE {}

Words == [working |-> {"submitted"} \cup Other({"raw"}), filled |-> {"filled"},
          cancelled |-> {"cancelled"}, refused |-> {"rejected"}]

(* A completed order is told in words of its own, if there are any.        *)
CompletedWords == [filled |-> {"filled"} \cup Other({"raw"}),
                   cancelled |-> {"cancelled"} \cup Other({"raw"}),
                   refused |-> {"rejected"} \cup Other({"raw refusal"})]

(* orderStatus and openOrder keep the last status of the order waited for, *)
(* but an error of its id beats them; callbacks of a connection that was   *)
(* dropped are not heard.                                                  *)
Hears(k) == up /\ asked = k

Tell(k, words) ==
    \E word \in words :
        reply' = IF Hears(k) /\ reply # "rejected" THEN word ELSE reply

(* TWS takes an order of the account that is logged in, ... *)
Accept(k) ==
    /\ tws[k].st = "inflight"
    /\ k[1] = login
    /\ tws' = [tws EXCEPT ![k].st = "working"]
    /\ Tell(k, Words.working)
    /\ UNCHANGED <<login, pos, erred, up, seen, asked>>

(* ... or refuses it, with an error message that carries its order id. *)
Refuse(k) ==
    /\ tws[k].st = "inflight"
    /\ tws' = [tws EXCEPT ![k].st = "refused"]
    /\ Tell(k, Words.refused)
    /\ UNCHANGED <<login, pos, erred, up, seen, asked>>

(* What was written to a socket that broke need not arrive. *)
Drop(k) ==
    /\ tws[k].st = "inflight"
    /\ ~up
    /\ tws' = [tws EXCEPT ![k] = NoOrder]
    /\ UNCHANGED <<login, pos, erred, adapterVars>>

(* One share of an order is executed. *)
Fill(k) ==
    /\ tws[k].st = "working"
    /\ SnapshotRaces \/ seen = NoKey
    /\ LET done == tws[k].left = 1 IN
         /\ tws' = [tws EXCEPT ![k].left = @ - 1,
                               ![k].st = IF done THEN "filled" ELSE @]
         /\ Tell(k, IF done THEN Words.filled ELSE Words.working)
    /\ pos' = [pos EXCEPT ![k[1]] = @ + (IF tws[k].side = "BUY" THEN 1 ELSE -1)]
    /\ UNCHANGED <<login, erred, up, seen, asked>>

(* The operator cancels in TWS, or the day order expires. *)
Cancel(k) ==
    /\ tws[k].st = "working"
    /\ tws' = [tws EXCEPT ![k].st = "cancelled"]
    /\ Tell(k, Words.cancelled)
    /\ UNCHANGED <<login, pos, erred, up, seen, asked>>

(* TWS tells an error about an order it has: 202 when it is cancelled, or  *)
(* any of the warnings that error() does not know as one.                  *)
Warn(k) ==
    /\ tws[k].st \in Taken
    /\ Hears(k)
    /\ Cardinality(erred) < MaxErred
    /\ erred' = erred \cup {k}
    /\ reply' = "rejected"
    /\ UNCHANGED <<login, pos, tws, up, seen, asked>>

(* reqPositions is a subscription nobody cancels: TWS reports a position   *)
(* again when it likes (a change that the batch already has, a new average *)
(* cost), and position() appends that row to the list, beside the first.   *)
Long(quantity) == IF quantity > 0 THEN quantity ELSE 0

RowAgain ==
    /\ up
    /\ seen # NoKey /\ seen[3] < MaxRows
    /\ seen' = <<seen[1], seen[2] + Long(pos[seen[1]]), seen[3] + 1>>
    /\ UNCHANGED <<gatewayVars, up, asked, reply>>

(* connectionClosed, or error 1100. *)
LoseConnection ==
    /\ up
    /\ up' = FALSE
    /\ UNCHANGED <<gatewayVars, seen, asked, reply>>

(* Another account is logged in at TWS. *)
Relogin(a) ==
    /\ a # login
    /\ login' = a
    /\ UNCHANGED <<pos, tws, erred, adapterVars>>

Gateway ==
    \/ \E k \in Keys :
          Accept(k) \/ Refuse(k) \/ Drop(k) \/ Fill(k) \/ Cancel(k) \/ Warn(k)
    \/ RowAgain
    \/ LoseConnection
    \/ \E a \in Accounts : Relogin(a)

-----------------------------------------------------------------------------
(* Calls of the adapter, as conjuncts of the caller's step.                *)

(* A call that raises.  Its answer times out, and the connection stays; or *)
(* the send does (_call_bounded), which drops the connection.              *)
CallFails == up' \in {up, FALSE}

(* reqPositions answered: what the first half of account_snapshot has.     *)
PositionsRead ==
    /\ up
    /\ seen' = <<login, Long(pos[login]), 1>>

LiveOrders(a, side) ==
    {k \in Keys : k[1] = a /\ tws[k].st = "working" /\ tws[k].side = side}

Whole == [k \in Keys |-> tws[k].qty]

(* The snapshot once reqAllOpenOrders is answered too: the long rows of    *)
(* the account, summed, and its working orders.  The rows of orders carry  *)
(* the whole quantity of an order, not what is left of it.                 *)
SnapshotOf(a) ==
    [long    |-> IF seen[1] = a THEN seen[2] ELSE 0,
     buying  |-> SumFunctionOnSet(Whole, LiveOrders(a, "BUY")),
     selling |-> SumFunctionOnSet(Whole, LiveOrders(a, "SELL"))]

(* placeOrder was called; whether TWS hears of it is another matter.       *)
OrderSent(k, side, qty) ==
    tws' = [tws EXCEPT ![k] = [st |-> "inflight", side |-> side,
                               qty |-> qty, left |-> qty]]
=============================================================================
