------------------------------ MODULE IbkrDesk ------------------------------
(***************************************************************************)
(* The manual IBKR execution desk (execution/ibkr_execution.py) over TWS.  *)
(* A lock makes its commands one at a time, but each is several calls of   *)
(* the adapter and several commits of the ledger: TWS moves, connections   *)
(* break and the process dies between any two of them.  The ledger is the  *)
(* only thing of the desk that survives; TWS never forgets an order.       *)
(***************************************************************************)
EXTENDS IbkrTws

VARIABLES
    conn,      \* ExecutionDesk.connected
    acct,      \* ExecutionDesk.account: whose the last snapshot is, if there is one
    bound,     \* live_account
    expected,  \* expected_account_id of the adapter: the binding it was built with
    armed,     \* writes_armed
    preview,   \* the preview the operator may confirm
    pc,        \* the next call of the command that holds the lock
    kind,      \* that command
    order,     \* the order it is about
    todo,      \* the uncertain orders it still has to look up
    key,       \* the one it looks for among the completed orders
    row,       \* ibkr_execution_orders
    placed     \* how often placeOrder was called for an order

deskVars == <<conn, acct, bound, expected, armed, preview>>
cmdVars == <<pc, kind, order, todo, key>>
vars == <<login, pos, tws, erred, up, seen, asked, reply,
          conn, acct, bound, expected, armed, preview,
          pc, kind, order, todo, key, row, placed>>

Nobody == "nobody"
Orders == [id : Ids, side : Sides, qty : Qtys]
NoIntent == <<>>
NoPreview == [id |-> Nobody, intent |-> NoIntent]
NoRow == [st |-> "none", intent |-> NoIntent]

Uncertain == {"submitting", "unknown"}
Certain == {"submitted", "raw", "filled", "cancelled", "rejected", "raw refusal"}

Init ==
    /\ login \in Accounts
    /\ pos \in [Accounts -> 0..MaxQty]
    /\ tws = [k \in Keys |-> NoOrder] /\ erred = {}
    /\ up = FALSE /\ seen = NoKey /\ asked = NoKey /\ reply = "none"
    /\ conn = FALSE /\ acct = Nobody
    /\ bound \in Accounts \cup {Nobody} /\ expected = bound
    /\ armed = FALSE /\ preview = NoPreview
    /\ pc = "idle" /\ kind = "none" /\ order = NoIntent /\ todo = {} /\ key = NoKey
    /\ row = [k \in Keys |-> NoRow]
    /\ placed = [k \in Keys |-> 0]

-----------------------------------------------------------------------------
AccountBound == acct # Nobody /\ bound = acct

(* Mutant: only the account that is connected is asked about.              *)
RecoveryRequiredHere == \E k \in Keys : k[1] = acct /\ row[k].st \in Uncertain

RecoveryRequired == \E k \in Keys : row[k].st \in Uncertain

(* _recover_uncertain_orders selects the rows of one account.              *)
UncertainOf(a) == {k \in Keys : k[1] = a /\ row[k].st \in Uncertain}

(* _sync_broker_health and _expire_arm, at the start of every command: the *)
(* connection may have gone, and the five minutes may have passed.         *)
Lost == conn /\ ~up
Synced ==
    /\ conn' = (conn /\ up)
    /\ armed' \in {armed /\ ~Lost, FALSE}
    /\ preview' = IF Lost THEN NoPreview ELSE preview

(* What a command asks for before it does anything.                        *)
Connected == pc = "idle" /\ conn /\ up /\ acct # Nobody
Ready == Connected /\ AccountBound /\ ~RecoveryRequired

(* The command is over, or raises.                                         *)
Return ==
    /\ pc' = "idle" /\ kind' = "none"
    /\ order' = NoIntent /\ todo' = {} /\ key' = NoKey

Goto(place) == pc' = place /\ UNCHANGED <<kind, order, todo, key>>

Start(place, command, o) ==
    /\ pc' = place /\ kind' = command
    /\ order' = o /\ todo' = {} /\ key' = NoKey

(* Look up each of the orders in ks.                                       *)
LookUp(ks) ==
    /\ pc' = "lookup" /\ kind' = "recover"
    /\ order' = NoIntent /\ todo' = ks /\ key' = NoKey

Disarmed == armed' = FALSE
PreviewDropped == preview' = NoPreview

(* A snapshot, or a command that fails before it calls the adapter.        *)
Look ==
    /\ pc = "idle"
    /\ Synced
    /\ UNCHANGED <<gatewayVars, adapterVars, acct, bound, expected, cmdVars,
                   row, placed>>

Disarm ==
    /\ pc = "idle"
    /\ conn' = (conn /\ up)
    /\ preview' = IF Lost THEN NoPreview ELSE preview
    /\ Disarmed
    /\ UNCHANGED <<gatewayVars, adapterVars, acct, bound, expected, cmdVars,
                   row, placed>>

Arm ==
    /\ Connected /\ AccountBound
    /\ armed' = TRUE
    /\ UNCHANGED <<gatewayVars, adapterVars, conn, acct, bound, expected,
                   preview, cmdVars, row, placed>>

(* The adapter forgets its connection and what it waited for.              *)
Forgotten == seen' = NoKey /\ asked' = NoKey /\ reply' = "none"
SocketClosed == up' = FALSE /\ Forgotten

Disconnect ==
    /\ pc = "idle"
    /\ SocketClosed
    /\ conn' = FALSE
    /\ Disarmed /\ PreviewDropped
    /\ UNCHANGED <<gatewayVars, acct, bound, expected, cmdVars, row, placed>>

(* _connect_live: everything is reset, then the socket is opened, or not.  *)
Connect ==
    /\ pc = "idle"
    /\ Forgotten
    /\ conn' = FALSE /\ acct' = Nobody
    /\ Disarmed /\ PreviewDropped
    /\ \/ up' = TRUE /\ Start("positions", "connect", NoIntent)
       \/ up' = FALSE /\ Return
    /\ UNCHANGED <<gatewayVars, bound, expected, row, placed>>

(* The first connection of an account, once the operator confirms it.      *)
Bind ==
    /\ Connected /\ ~AccountBound
    /\ bound' = acct
    /\ Disarmed /\ PreviewDropped
    /\ LookUp(UncertainOf(acct))
    /\ UNCHANGED <<gatewayVars, adapterVars, conn, acct, expected, row, placed>>

Recover ==
    /\ Connected /\ AccountBound
    /\ Disarmed /\ PreviewDropped
    /\ LookUp(UncertainOf(acct))
    /\ UNCHANGED <<gatewayVars, adapterVars, conn, acct, bound, expected,
                   row, placed>>

(* _preview and _submit up to their refresh.  The preview expires: the one *)
(* submitted may be found to be thirty seconds old.                        *)
Preview(o) ==
    /\ Ready
    /\ Synced
    /\ Start("positions", "preview", o)
    /\ UNCHANGED <<gatewayVars, adapterVars, acct, bound, expected, row, placed>>

Submit(o) ==
    /\ Ready
    /\ armed
    /\ preview # NoPreview /\ preview.id = acct
    /\ \/ PreviewDropped /\ UNCHANGED cmdVars
       \/ Start("positions", "submit", o) /\ UNCHANGED preview
    /\ UNCHANGED <<gatewayVars, adapterVars, conn, acct, bound, expected,
                   armed, row, placed>>

-----------------------------------------------------------------------------
(* account_snapshot, in two requests; then _refresh_account or _connect_live. *)
ReadPositions ==
    /\ pc = "positions"
    /\ PositionsRead
    /\ Goto("orders")
    /\ UNCHANGED <<gatewayVars, up, asked, reply, deskVars, row, placed>>

(* Mutant: sales that are still open are not deducted from the holding.    *)
NormalizesHolding(o, a) ==
    IF o.side = "BUY" THEN a.buying = 0 ELSE o.qty <= a.long

(* Mutant: an opening order is not compared with the open ones.            *)
NormalizesAnyBuy(o, a) ==
    o.side = "SELL" => o.qty <= a.long - a.selling

(* _normalize_order: no second opening order, no sale beyond the holding.  *)
Normalizes(o, a) ==
    IF o.side = "BUY" THEN a.buying = 0 ELSE o.qty <= a.long - a.selling

(* What follows a snapshot in each command.                                *)
ConnectGoesOn ==
    /\ kind = "connect"
    /\ conn' = TRUE
    /\ IF bound = login THEN LookUp(UncertainOf(login)) ELSE Return

OrderGoesOn(a) ==
    /\ kind \in {"preview", "submit"}
    /\ IF Normalizes(order, a) /\ (kind = "submit" => order = preview.intent)
       THEN Goto("what_if") ELSE Return
    /\ UNCHANGED conn

ReceiptReturned == kind = "receipt" /\ Return /\ UNCHANGED conn

ReadOrders ==
    /\ pc = "orders"
    /\ up
    /\ expected \in {Nobody, login}
    /\ bound \in {Nobody, login}
    /\ acct' = login
    /\ ConnectGoesOn \/ OrderGoesOn(SnapshotOf(login)) \/ ReceiptReturned
    /\ seen' = NoKey
    /\ UNCHANGED <<gatewayVars, up, asked, reply, bound, expected, armed,
                   preview, row, placed>>

(* The snapshot is of an account this desk is not bound to.                *)
AccountMismatch ==
    /\ pc = "orders"
    /\ up
    /\ expected \in {Nobody, login}
    /\ bound \notin {Nobody, login}
    /\ SocketClosed
    /\ conn' = FALSE /\ acct' = Nobody
    /\ Disarmed /\ PreviewDropped
    /\ Return
    /\ UNCHANGED <<gatewayVars, bound, expected, row, placed>>

(* It fails, or the adapter was built for another account.  _connect_live  *)
(* then disconnects; the other commands just raise.                        *)
SnapshotFails ==
    /\ pc \in {"positions", "orders"}
    /\ IF kind = "connect" THEN SocketClosed
       ELSE CallFails /\ seen' = NoKey /\ UNCHANGED <<asked, reply>>
    /\ Return
    /\ UNCHANGED <<gatewayVars, deskVars, row, placed>>

-----------------------------------------------------------------------------
(* what_if accepts the order, with the warning of the preview on a submit. *)
WhatIfAccepts ==
    /\ pc = "what_if"
    /\ up
    /\ IF kind = "preview"
       THEN /\ preview' = [id |-> acct, intent |-> order]
            /\ Return
       ELSE Goto("journal") /\ UNCHANGED preview
    /\ UNCHANGED <<gatewayVars, adapterVars, conn, acct, bound, expected,
                   armed, row, placed>>

(* It does not, or warns of something new, or the call fails.              *)
WhatIfRefuses ==
    /\ pc = "what_if"
    /\ CallFails
    /\ Return
    /\ UNCHANGED <<gatewayVars, seen, asked, reply, deskVars, row, placed>>

Key == <<acct, order.id>>

(* _update_order.                                                          *)
Stored(k, status) == row' = [row EXCEPT ![k].st = status]

(* _create_or_read_order finds no row and writes one, ...                  *)
Journalled ==
    /\ row[Key] = NoRow
    /\ row' = [row EXCEPT ![Key] = [st |-> "submitting", intent |-> order]]
    /\ Goto("place")
    /\ UNCHANGED <<armed, preview>>

(* ... or the id belongs to another intent, ...                            *)
IdTaken ==
    /\ row[Key] # NoRow /\ row[Key].intent # order
    /\ Return
    /\ UNCHANGED <<armed, preview, row>>

(* Mutant: an order whose receipt is known is submitted again all the same. *)
SubmittedAgain ==
    /\ row[Key].intent = order /\ row[Key].st \in Certain
    /\ Goto("place")
    /\ UNCHANGED <<armed, preview, row>>

(* ... or the order was submitted before: its receipt is returned, ...     *)
AlreadySubmitted ==
    /\ row[Key].intent = order /\ row[Key].st \in Certain
    /\ Disarmed /\ PreviewDropped
    /\ Start("positions", "receipt", NoIntent)
    /\ UNCHANGED row

(* ... or it may have been: it is looked up.                               *)
PerhapsSubmitted ==
    /\ row[Key].intent = order /\ row[Key].st \in Uncertain
    /\ LookUp({Key})
    /\ UNCHANGED <<armed, preview, row>>

Journal ==
    /\ pc = "journal"
    /\ Journalled \/ IdTaken \/ AlreadySubmitted \/ PerhapsSubmitted
    /\ UNCHANGED <<gatewayVars, adapterVars, conn, acct, bound, expected, placed>>

(* The order is handed to TWS.                                             *)
Place ==
    /\ pc = "place"
    /\ up
    /\ OrderSent(Key, order.side, order.qty)
    /\ asked' = Key /\ reply' = "none"
    /\ placed' = [placed EXCEPT ![Key] = @ + 1]
    /\ Disarmed
    /\ Goto("await")
    /\ UNCHANGED <<login, pos, erred, up, seen, conn, acct, bound, expected,
                   preview, row>>

(* The send raised: not connected, or too slow and perhaps sent all the same. *)
PlaceFails ==
    /\ pc = "place"
    /\ CallFails
    /\ \/ /\ up /\ ~up'
          /\ OrderSent(Key, order.side, order.qty)
          /\ placed' = [placed EXCEPT ![Key] = @ + 1]
       \/ UNCHANGED <<tws, placed>>
    /\ Stored(Key, "unknown")
    /\ Disarmed /\ PreviewDropped
    /\ Return
    /\ UNCHANGED <<login, pos, erred, seen, asked, reply, conn, acct, bound,
                   expected>>

(* The acknowledgement of the order waited for, and the receipt ...        *)
Acknowledged ==
    /\ pc = "await"
    /\ reply \notin {"none", "rejected"}
    /\ Stored(Key, reply)
    /\ asked' = NoKey /\ reply' = "none"
    /\ PreviewDropped
    /\ Start("positions", "receipt", NoIntent)
    /\ UNCHANGED <<gatewayVars, up, seen, conn, acct, bound, expected,
                   armed, placed>>

(* ... or its refusal: BrokerOrderRejected.                                *)
Rejected ==
    /\ pc = "await"
    /\ reply = "rejected"
    /\ Stored(Key, "rejected")
    /\ asked' = NoKey /\ reply' = "none"
    /\ PreviewDropped
    /\ Return
    /\ UNCHANGED <<gatewayVars, up, seen, conn, acct, bound, expected,
                   armed, placed>>

(* No event came in time: the order is left unknown, never sent again.     *)
AckTimesOut ==
    /\ pc = "await"
    /\ reply = "none"
    /\ Stored(Key, "unknown")
    /\ asked' = NoKey
    /\ PreviewDropped
    /\ Return
    /\ UNCHANGED <<gatewayVars, up, seen, reply, conn, acct, bound,
                   expected, armed, placed>>

-----------------------------------------------------------------------------
(* _recover_uncertain_orders: find_by_order_ref asks for the open orders,  *)
(* and if the order is not among them for the completed ones.              *)
LookedUp(k, status) ==
    /\ Stored(k, status)
    /\ PreviewDropped
    /\ pc' = "lookup" /\ todo' = todo \ {k} /\ key' = NoKey
    /\ UNCHANGED <<kind, order>>

(* Mutant: an order that is not found is taken for one never sent.         *)
NotFoundIsNone(k) == LookedUp(k, "none")

NotFound(k) == LookedUp(k, "unknown")

OpenOrder(k) == k[1] = login /\ tws[k].st = "working"
CompletedOrders == {k \in Keys : k[1] = login /\ tws[k].st \in DOMAIN CompletedWords}

(* The list of open orders may still carry one that has just ended, or     *)
(* that was refused: openOrder tells of those too.                         *)
FoundOpen ==
    /\ pc = "lookup"
    /\ up
    /\ \E k \in todo :
          /\ k[1] = login /\ tws[k].st \in DOMAIN Words
          /\ \E word \in Words[tws[k].st] : LookedUp(k, word)
    /\ UNCHANGED <<gatewayVars, adapterVars, conn, acct, bound, expected,
                   armed, placed>>

(* Mutant: the completed orders are not asked for.                         *)
NotOpenIsNotFound ==
    /\ pc = "lookup"
    /\ up
    /\ \E k \in todo : ~OpenOrder(k) /\ NotFound(k)
    /\ UNCHANGED <<gatewayVars, adapterVars, conn, acct, bound, expected,
                   armed, placed>>

NotOpen ==
    /\ pc = "lookup"
    /\ up
    /\ \E k \in todo : ~OpenOrder(k) /\ key' = k
    /\ pc' = "completed"
    /\ UNCHANGED <<gatewayVars, adapterVars, deskVars, kind, order, todo, row,
                   placed>>

(* Mutant: an order that is no longer open is taken for filled.            *)
FoundGone ==
    /\ pc = "completed"
    /\ up
    /\ key \in CompletedOrders
    /\ LookedUp(key, "filled")
    /\ UNCHANGED <<gatewayVars, adapterVars, conn, acct, bound, expected,
                   armed, placed>>

FoundCompleted ==
    /\ pc = "completed"
    /\ up
    /\ key \in CompletedOrders
    /\ \E word \in CompletedWords[tws[key].st] : LookedUp(key, word)
    /\ UNCHANGED <<gatewayVars, adapterVars, conn, acct, bound, expected,
                   armed, placed>>

(* TWS does not list it (it need not list what it refused), or lists       *)
(* another order under the same number: completed_orders is keyed by order *)
(* id, 0 where TWS names none.                                             *)
NotCompleted ==
    /\ pc = "completed"
    /\ up
    /\ CompletedOrders # {key} \/ tws[key].st = "refused"
    /\ NotFound(key)
    /\ UNCHANGED <<gatewayVars, adapterVars, conn, acct, bound, expected,
                   armed, placed>>

(* A lookup that times out, or whose connection goes, has found nothing.   *)
LookupTimesOut ==
    /\ \/ pc = "lookup" /\ up /\ \E k \in todo : NotFound(k)
       \/ pc = "completed" /\ NotFound(key)
    /\ CallFails
    /\ UNCHANGED <<gatewayVars, seen, asked, reply, conn, acct, bound,
                   expected, armed, placed>>

(* Without a connection it raises, the other orders as they were.          *)
LookupRaises ==
    /\ pc = "lookup" /\ todo # {}
    /\ ~up
    /\ Return
    /\ UNCHANGED <<gatewayVars, adapterVars, deskVars, row, placed>>

RecoveryEnds ==
    /\ pc = "lookup" /\ todo = {}
    /\ Return
    /\ UNCHANGED <<gatewayVars, adapterVars, deskVars, row, placed>>

(* The runtime dies, or is closed, and is started again: it knows the      *)
(* binding if the client stored it and the operator has not cleared it.    *)
Restart ==
    /\ SocketClosed
    /\ conn' = FALSE /\ acct' = Nobody
    /\ bound' \in {bound, Nobody} /\ expected' = bound'
    /\ Disarmed /\ PreviewDropped
    /\ Return
    /\ UNCHANGED <<gatewayVars, row, placed>>

-----------------------------------------------------------------------------
GatewayStep == Gateway /\ UNCHANGED <<deskVars, cmdVars, row, placed>>

Operator ==
    \/ Look \/ Disarm \/ Arm \/ Disconnect \/ Connect \/ Bind \/ Recover
    \/ \E o \in Orders : Preview(o) \/ Submit(o)

Work ==
    \/ ReadPositions \/ ReadOrders \/ AccountMismatch \/ SnapshotFails
    \/ WhatIfAccepts \/ WhatIfRefuses
    \/ Journal \/ Place \/ PlaceFails \/ Acknowledged \/ Rejected \/ AckTimesOut
    \/ FoundOpen \/ NotOpen \/ FoundCompleted \/ NotCompleted
    \/ LookupTimesOut \/ LookupRaises \/ RecoveryEnds

Next == GatewayStep \/ Operator \/ Work \/ Restart

Spec == Init /\ [][Next]_vars

(* The desk is a thread that runs, every call it makes is bounded; calls   *)
(* need not fail for ever, nor the operator give up connecting and binding. *)
Answered(place) ==
    pc = place /\ (FoundOpen \/ NotOpen \/ FoundCompleted \/ NotCompleted)

Fairness ==
    /\ WF_vars(Work)
    /\ SF_vars(Connect /\ up') /\ SF_vars(Bind)
    /\ SF_vars(ReadPositions) /\ SF_vars(ReadOrders)
    /\ SF_vars(Answered("lookup")) /\ SF_vars(Answered("completed"))

FairSpec == Spec /\ Fairness

-----------------------------------------------------------------------------
(* What the variables hold.                                                *)
Statuses == {"none", "inflight", "refused"} \cup Taken
Intents == Orders \cup {NoIntent}
AnyAccount == Accounts \cup {Nobody}

(* Every variable keeps to what the code can put into it; a row, once      *)
(* written, keeps an intent and a status other than none, whichever word   *)
(* of TWS that is.                                                         *)
TypeOK ==
    /\ login \in Accounts
    /\ pos \in [Accounts -> Int]
    /\ tws \in [Keys -> [st : Statuses, side : Sides, qty : Nat, left : Nat]]
    /\ erred \subseteq Keys
    /\ up \in BOOLEAN
    /\ seen \in (Accounts \X Nat \X Nat) \cup {NoKey}
    /\ asked \in Keys \cup {NoKey}
    /\ reply \in {"none", "submitted", "raw", "filled", "cancelled", "rejected"}
    /\ conn \in BOOLEAN
    /\ acct \in AnyAccount
    /\ bound \in AnyAccount /\ expected \in AnyAccount
    /\ armed \in BOOLEAN
    /\ preview \in [id : AnyAccount, intent : Intents]
    /\ pc \in {"idle", "positions", "orders", "what_if", "journal", "place",
               "await", "lookup", "completed"}
    /\ kind \in {"none", "connect", "recover", "preview", "submit", "receipt"}
    /\ order \in Intents
    /\ todo \in SUBSET Keys
    /\ key \in Keys \cup {NoKey}
    /\ row \in [Keys -> [st : {"none"} \cup Uncertain \cup Certain,
                         intent : Intents]]
    /\ \A k \in Keys : row[k].st = "none" <=> row[k].intent = NoIntent
    /\ placed \in [Keys -> Nat]

(* However calls fail and the process dies, an intent is journalled before *)
(* it is sent, is sent at most once, and is settled by something the broker*)
(* told of it: the desk is an order journal.  (An order TWS works may be   *)
(* settled as refused, by an error told of it: the row is never corrected.)*)
JournalOf(st) ==
    CASE st = "none" -> "none"
      [] st \in Uncertain -> "open"
      [] st \in {"rejected", "raw refusal"} -> "refused"
      [] OTHER -> "taken"

AnswersTo(k) ==
    {a \in {"taken", "refused"} :
        \/ a = "taken" /\ tws[k].st \in Taken
        \/ a = "refused" /\ (tws[k].st = "refused" \/ k \in erred)}

Desk == INSTANCE OrderJournal WITH
    Intents <- Keys,
    journal <- [k \in Keys |-> JournalOf(row[k].st)],
    sends <- placed,
    answers <- [k \in Keys |-> AnswersTo(k)]

ImplementsOrderJournal == Desk!Spec

(* At most one order of the whole ledger, of any account, has a fate that  *)
(* is not known: nothing is placed beside an order that may be working.    *)
OneUncertain ==
    \A j, k \in Keys :
        row[j].st \in Uncertain /\ row[k].st \in Uncertain => j = k

(* What the ledger calls over is over at TWS, and ended the same way.      *)
LedgerHonest ==
    \A k \in Keys : row[k].st \in Completed => tws[k].st = row[k].st

(* What is on its way or working of the sales of an account is covered by  *)
(* what it holds.                                                          *)
Open(a, side) ==
    {k \in Keys : k[1] = a /\ tws[k].side = side
                  /\ tws[k].st \in {"inflight", "working"}}

Left == [k \in Keys |-> tws[k].left]

SellsCovered ==
    \A a \in Accounts : SumFunctionOnSet(Left, Open(a, "SELL")) <= pos[a]

(* An account never has two opening orders at a time.                      *)
OneLiveBuy ==
    \A a \in Accounts : \A j, k \in Open(a, "BUY") : j = k

(* The desk sells what is held: no account is ever short.                  *)
NeverShort == \A a \in Accounts : pos[a] >= 0

(* An order of which the desk does not know whether TWS has it is found    *)
(* out about, if TWS has it and can name it among the completed ones.      *)
UncertainResolved ==
    \A k \in Keys :
        row[k].st \in Uncertain /\ tws[k].st \in Taken
        ~> \/ row[k].st \in Certain
           \/ CompletedOrders # {k} /\ tws[k].st \in Completed
=============================================================================
