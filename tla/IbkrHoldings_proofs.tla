------------------------ MODULE IbkrHoldings_proofs ------------------------
(***************************************************************************)
(* What IbkrDesk does to the holdings of an account, for any accounts, any *)
(* client order ids and any quantities:                                    *)
(*                                                                         *)
(*   OneLiveBuyCorrect   Spec => []OneLiveBuy                              *)
(*   SellsCoveredCorrect Spec => []SellsCovered                            *)
(*   NeverShortCorrect   Spec => []NeverShort                              *)
(*                                                                         *)
(* the last two if snapshots are whole: no order is executed between their *)
(* two requests, and TWS reports a position once between them.             *)
(* The argument is about the time between the snapshot an order was        *)
(* checked against and placeOrder: when it is read nothing of the account  *)
(* is on its way, because no row is uncertain, and until the order is sent *)
(* the working orders can only be executed or end.                         *)
(***************************************************************************)
EXTENDS IbkrDesk_proofs, SumTheorems

Live == {"inflight", "working"}
Known == {k \in Keys : tws[k].st # "none"}
WholeSnapshots == ~SnapshotRaces /\ MaxRows = 1
LeftOf(a, side) == SumFunctionOnSet(Left, Open(a, side))

(* The command has an order that its snapshot allows, and has not sent it. *)
Checked == kind = "submit" /\ pc \in {"what_if", "journal", "place"}

(* What TWS was sent is finite, is uncertain while it is on its way, and   *)
(* never has more left than its quantity; errors are told of orders that   *)
(* have arrived.                                                           *)
KnownInv ==
    /\ IsFiniteSet(Known)
    /\ \A k \in Keys : tws[k].st = "inflight" => row[k].st \in Uncertain
    /\ \A k \in Keys : tws[k].left <= tws[k].qty
    /\ \A k \in erred : tws[k].st \in Taken

(* An opening order that was checked has none beside it.                   *)
BuyInv ==
    /\ OneLiveBuy
    /\ Checked /\ order.side = "BUY" => Open(acct, "BUY") = {}

(* Positions that were read are those of the account, one row.             *)
SeenOnce == seen # NoKey => seen[2] = Long(pos[seen[1]]) /\ seen[3] = 1

(* A sale that was checked is covered together with the open ones.         *)
SellInv ==
    /\ SellsCovered
    /\ Checked /\ order.side = "SELL" =>
          order.qty + LeftOf(acct, "SELL") <= pos[acct]
    /\ SeenOnce
    /\ pc = "orders" => seen # NoKey

-----------------------------------------------------------------------------
(* The steps, by what they do to TWS.                                      *)
Answers(k) == DeskIdle /\ (Accept(k) \/ Refuse(k) \/ Drop(k) \/ Cancel(k))
Executes(k) == DeskIdle /\ Fill(k)
Sends ==
    /\ pc = "place" /\ pc' \in {"await", "idle"}
    /\ OrderSent(Key, order.side, order.qty)
    /\ UNCHANGED <<pos, erred, seen, acct>>
    /\ row' \in {row, [row EXCEPT ![Key].st = "unknown"]}
Elsewhere ==
    /\ UNCHANGED <<tws, pos>>
    /\ \A k \in erred' : k \in erred \/ tws[k].st \in Taken

LEMMA StepKinds ==
    ASSUME IInv, [Next]_vars
    PROVE  \/ \E k \in Keys : Answers(k) \/ Executes(k)
           \/ Sends
           \/ Elsewhere
<1> USE DEF Elsewhere
<1>1. CASE GatewayStep
  <2>1. DeskIdle /\ Gateway
    BY <1>1 DEF GatewayStep, DeskIdle
  <2>2. CASE \E k \in Keys : Accept(k) \/ Refuse(k) \/ Drop(k) \/ Fill(k) \/ Cancel(k)
    BY <2>1, <2>2 DEF Answers, Executes
  <2>3. CASE RowAgain \/ LoseConnection \/ \E a \in Accounts : Relogin(a)
    BY <2>3 DEF RowAgain, LoseConnection, Relogin, gatewayVars
  <2>4. CASE \E k \in Keys : Warn(k)
    BY <2>4 DEF Warn
  <2> QED
    BY <2>1, <2>2, <2>3, <2>4 DEF Gateway
<1>2. CASE Operator
  BY <1>2 DEF Operator, Look, Disarm, Arm, Disconnect, Connect, Bind, Recover,
     Preview, Submit, gatewayVars
<1>3. CASE Work
  <2>1. CASE Place
    BY <2>1 DEF Place, Sends, Goto
  <2>2. CASE PlaceFails
    BY <2>2 DEF PlaceFails, Sends, Stored, Return
  <2>3. CASE ~Place /\ ~PlaceFails
    BY <1>3, <2>3 DEF Work, ReadPositions, ReadOrders, AccountMismatch,
       SnapshotFails, WhatIfAccepts, WhatIfRefuses, Journal, Acknowledged,
       Rejected, AckTimesOut, FoundOpen, NotOpen, FoundCompleted, NotCompleted,
       LookupTimesOut, LookupRaises, RecoveryEnds, gatewayVars
  <2> QED
    BY <2>1, <2>2, <2>3
<1>4. CASE Restart
  BY <1>4 DEF Restart, gatewayVars
<1>5. CASE UNCHANGED vars
  BY <1>5 DEF vars
<1> QED
  BY <1>1, <1>2, <1>3, <1>4, <1>5 DEF Next

(* A step beside TWS has a checked order only if it had it before or reads *)
(* the orders of the snapshot, ...                                         *)
LEMMA CheckedSteps ==
    ASSUME IInv, [Next]_vars, Checked'
    PROVE  \/ Checked /\ UNCHANGED <<acct, order>>
           \/ ReadOrders
<1> USE DEF Checked
<1>1. CASE GatewayStep
  BY <1>1 DEF GatewayStep, deskVars, cmdVars
<1>2. CASE Operator
  BY <1>2 DEF Operator, Look, Disarm, Arm, Disconnect, Connect, Bind, Recover,
     Preview, Submit, cmdVars, Start, Return, LookUp, Connected, Ready
<1>3. CASE Work
  <2>1. CASE Journal
    BY <2>1 DEF Journal, Journalled, IdTaken, AlreadySubmitted,
       PerhapsSubmitted, Goto, Return, Start, LookUp
  <2>2. CASE \/ ReadPositions \/ AccountMismatch \/ SnapshotFails
             \/ WhatIfAccepts \/ WhatIfRefuses
    BY <2>2 DEF ReadPositions, AccountMismatch, SnapshotFails, WhatIfAccepts,
       WhatIfRefuses, Goto, Return, deskVars
  <2>3. CASE Place \/ PlaceFails \/ Acknowledged \/ Rejected \/ AckTimesOut
    BY <2>3 DEF Place, PlaceFails, Acknowledged, Rejected, AckTimesOut, Goto,
       Return, Start
  <2>4. CASE \/ FoundOpen \/ NotOpen \/ FoundCompleted \/ NotCompleted
             \/ LookupTimesOut \/ LookupRaises \/ RecoveryEnds
    BY <2>4 DEF FoundOpen, NotOpen, FoundCompleted, NotCompleted,
       LookupTimesOut, LookupRaises, RecoveryEnds, NotFound, LookedUp, Return
  <2> QED
    BY <1>3, <2>1, <2>2, <2>3, <2>4 DEF Work
<1>4. CASE Restart
  BY <1>4 DEF Restart, Return
<1>5. CASE UNCHANGED vars
  BY <1>5 DEF vars
<1> QED
  BY <1>1, <1>2, <1>3, <1>4, <1>5 DEF Next

(* ... and positions that were read are those of the account then, unless  *)
(* a position comes again.                                                 *)
LEMMA SeenSteps ==
    ASSUME IInv, [Next]_vars
    PROVE  RowAgain \/ seen' \in {seen, NoKey, <<login, Long(pos[login]), 1>>}
<1>1. CASE GatewayStep
  BY <1>1 DEF GatewayStep, Gateway, Accept, Refuse, Drop, Fill, Cancel, Warn,
     LoseConnection, Relogin, adapterVars
<1>2. CASE Operator
  BY <1>2 DEF Operator, Look, Disarm, Arm, Disconnect, Connect, Bind, Recover,
     Preview, Submit, adapterVars, SocketClosed, Forgotten
<1>3. CASE Work
  BY <1>3 DEF Work, ReadPositions, PositionsRead, ReadOrders, AccountMismatch,
     SnapshotFails, WhatIfAccepts, WhatIfRefuses, Journal, Place, PlaceFails,
     Acknowledged, Rejected, AckTimesOut, FoundOpen, NotOpen, FoundCompleted,
     NotCompleted, LookupTimesOut, LookupRaises, RecoveryEnds, adapterVars,
     SocketClosed, Forgotten
<1>4. CASE Restart
  BY <1>4 DEF Restart, SocketClosed, Forgotten
<1>5. CASE UNCHANGED vars
  BY <1>5 DEF vars
<1> QED
  BY <1>1, <1>2, <1>3, <1>4, <1>5 DEF Next

-----------------------------------------------------------------------------
(* What each kind of step makes of the orders.  An answer: no order becomes *)
(* open, and one that stays open has as much left as before.               *)
Kept ==
    \A j \in Keys : tws'[j].st \in Live =>
        /\ tws[j].st \in Live
        /\ tws'[j].side = tws[j].side /\ tws'[j].left = tws[j].left

LEMMA AnswerEffect ==
    ASSUME IInv, NEW k \in Keys, Answers(k)
    PROVE  /\ Kept /\ pos' = pos /\ seen' = seen /\ erred' = erred
           /\ tws[k].st \in Live /\ \A j \in Keys : j # k => tws'[j] = tws[j]
           /\ tws[k].st = "working" => tws'[k].st = "cancelled"
           /\ Known' \subseteq Known
           /\ \A j \in Keys : tws'[j].st = "inflight" => tws[j].st = "inflight"
           /\ (\A j \in Keys : tws[j].left <= tws[j].qty)
                => \A j \in Keys : tws'[j].left <= tws'[j].qty
<1>1. tws \in [Keys -> [st : Statuses, side : Sides, qty : Nat, left : Nat]]
  BY DEF IInv, TypeOK
<1>2. pos' = pos /\ seen' = seen /\ erred' = erred
  BY DEF Answers, Accept, Refuse, Drop, Cancel, adapterVars
<1>w. /\ tws[k].st = "working" => tws'[k].st = "cancelled"
      /\ \A j \in Keys : j # k => tws'[j] = tws[j]
  BY <1>1 DEF Answers, Accept, Refuse, Drop, Cancel
<1>3. tws[k].st \in Live
  BY DEF Answers, Accept, Refuse, Drop, Cancel, Live
<1>4. CASE tws' = [tws EXCEPT ![k] = NoOrder]
  BY <1>1, <1>2, <1>3, <1>w, <1>4 DEF Kept, Known, Live, NoOrder
<1>5. CASE \E s \in {"working", "refused", "cancelled"} :
              tws' = [tws EXCEPT ![k].st = s]
  <2>1. PICK s \in {"working", "refused", "cancelled"} :
           tws' = [tws EXCEPT ![k].st = s]
    BY <1>5
  <2>2. \A j \in Keys :
           /\ tws'[j].side = tws[j].side /\ tws'[j].left = tws[j].left
           /\ tws'[j].qty = tws[j].qty
           /\ tws'[j].st = IF j = k THEN s ELSE tws[j].st
    BY <1>1, <2>1
  <2>3. Known' \subseteq Known
    BY <1>3, <2>2 DEF Known, Live
  <2>4. Kept
    BY <1>3, <2>2 DEF Kept
  <2> QED
    BY <1>2, <1>3, <1>w, <2>2, <2>3, <2>4
<1> QED
  BY <1>4, <1>5 DEF Answers, Accept, Refuse, Drop, Cancel

(* An execution: one share less is left of an order that works.            *)
LEMMA ExecutionEffect ==
    ASSUME IInv, NEW k \in Keys, Executes(k)
    PROVE  /\ tws[k].st = "working" /\ tws[k].left \in Nat \ {0}
           /\ \A j \in Keys :
                /\ tws'[j].side = tws[j].side /\ tws'[j].qty = tws[j].qty
                /\ tws'[j].left = IF j = k THEN tws[j].left - 1 ELSE tws[j].left
                /\ j # k => tws'[j].st = tws[j].st
           /\ tws'[k].st = IF tws[k].left = 1 THEN "filled" ELSE "working"
           /\ pos' = [pos EXCEPT ![k[1]] =
                        @ + (IF tws[k].side = "BUY" THEN 1 ELSE -1)]
           /\ seen' = seen /\ erred' = erred
<1>1. tws \in [Keys -> [st : Statuses, side : Sides, qty : Nat, left : Nat]]
  BY DEF IInv, TypeOK
<1>2. tws[k].st = "working" /\ tws[k].left \in Nat \ {0}
  BY <1>1 DEF Executes, Fill, IInv, SentInv
<1>3. tws' = [tws EXCEPT ![k].left = @ - 1,
                         ![k].st = IF tws[k].left = 1 THEN "filled" ELSE @]
  BY DEF Executes, Fill
<1>4. /\ pos' = [pos EXCEPT ![k[1]] = @ + (IF tws[k].side = "BUY" THEN 1 ELSE -1)]
      /\ seen' = seen /\ erred' = erred
  BY DEF Executes, Fill
<1>5. \A j \in Keys :
         /\ tws'[j].side = tws[j].side /\ tws'[j].qty = tws[j].qty
         /\ tws'[j].left = IF j = k THEN tws[j].left - 1 ELSE tws[j].left
         /\ j # k => tws'[j].st = tws[j].st
  BY <1>1, <1>3
<1>6. tws'[k].st = IF tws[k].left = 1 THEN "filled" ELSE "working"
  BY <1>1, <1>2, <1>3
<1> QED
  BY <1>2, <1>4, <1>5, <1>6

(* A sending: the order the command is about is on its way, whole; TWS did *)
(* not know it.                                                            *)
LEMMA SendingEffect ==
    ASSUME IInv, Sends
    PROVE  /\ Key \in Keys /\ order \in Orders /\ kind = "submit"
           /\ tws[Key].st = "none"
           /\ tws' = [tws EXCEPT ![Key] = [st |-> "inflight", side |-> order.side,
                                           qty |-> order.qty, left |-> order.qty]]
           /\ row'[Key].st \in Uncertain
           /\ \A j \in Keys : j # Key => row'[j] = row[j]
<1>1. order \in Orders /\ kind = "submit" /\ acct \in Accounts
  BY DEF IInv, CommandInv, Sends
<1>2. Key \in Keys
  BY <1>1 DEF Key, Keys, Orders
<1>3. tws[Key].st = "none"
  BY <1>2 DEF IInv, CommandInv, SentInv, Sends
<1>4. row[Key].st = "submitting"
  BY DEF IInv, CommandInv, Sends
<1>5. row \in [Keys -> [st : {"none"} \cup Uncertain \cup Certain, intent : Intents]]
  BY DEF IInv, TypeOK
<1>6. PICK k \in Keys : k = Key
  BY <1>2
<1>7. row' = row \/ row' = [row EXCEPT ![k].st = "unknown"]
  BY <1>6 DEF Sends
<1>8. row'[k].st \in Uncertain /\ \A j \in Keys : j # k => row'[j] = row[j]
  BY <1>4, <1>5, <1>6, <1>7 DEF Uncertain
<1> QED
  BY <1>1, <1>2, <1>3, <1>6, <1>8 DEF Sends, OrderSent

(* The row of an order on its way stays uncertain: what settles a row is   *)
(* an event or a listing of an order that has arrived.                     *)
LEMMA RowSteps ==
    ASSUME IInv, KnownInv, [Next]_vars, Elsewhere
    PROVE  \A k \in Keys :
             tws[k].st = "inflight" /\ row[k].st \in Uncertain
                => row'[k].st \in Uncertain
<1> SUFFICES ASSUME NEW k \in Keys, tws[k].st = "inflight", row[k].st \in Uncertain
             PROVE  row'[k].st \in Uncertain
  OBVIOUS
<1>0. row \in [Keys -> [st : {"none"} \cup Uncertain \cup Certain, intent : Intents]]
  BY DEF IInv, TypeOK
<1>1. CASE row' = row
  BY <1>1
<1>2. ASSUME NEW j \in Keys, NEW s, Stored(j, s), s \in Uncertain \/ j # k
      PROVE  row'[k].st \in Uncertain
  BY <1>0, <1>2 DEF Stored
<1>3. CASE Journalled
  <2>1. Key # k
    BY <1>3 DEF Journalled, NoRow, Uncertain
  <2> QED
    BY <1>0, <1>3, <2>1 DEF Journalled
<1>4. CASE PlaceFails
  <2>1. Key \in Keys
    BY <1>4 DEF PlaceFails, IInv, CommandInv, Key, Keys, Orders
  <2> QED
    BY <1>2, <1>4, <2>1 DEF PlaceFails, Uncertain
<1>5. CASE Acknowledged \/ Rejected \/ AckTimesOut
  <2>1. pc = "await" /\ Key \in Keys /\ asked = Key
    BY <1>5 DEF Acknowledged, Rejected, AckTimesOut, IInv, CommandInv, Key,
       Keys, Orders
  <2>2. CASE AckTimesOut
    BY <1>2, <2>1, <2>2 DEF AckTimesOut, Uncertain
  <2>3. CASE Acknowledged \/ Rejected
    <3>1. reply # "none" /\ Stored(Key, reply)
      BY <2>3 DEF Acknowledged, Rejected
    <3>2. reply \in {"rejected", "submitted", "raw"} \cup Completed
      BY <3>1 DEF IInv, TypeOK, Completed
    <3>3. tws[Key].st \in Taken \cup {"refused"}
      BY <2>1, <3>1, <3>2 DEF IInv, HeardInv, KnownInv, Completed, Taken
    <3>4. Key # k
      BY <3>3 DEF Taken
    <3> QED
      BY <1>2, <2>1, <3>1, <3>4
  <2> QED
    BY <1>5, <2>2, <2>3
<1>6. CASE FoundOpen \/ FoundCompleted
  <2>1. PICK j \in Keys : /\ tws[j].st \in DOMAIN Words \cup DOMAIN CompletedWords
                          /\ \E s : Stored(j, s)
    BY <1>6 DEF FoundOpen, FoundCompleted, CompletedOrders, LookedUp, IInv, TypeOK
  <2>2. tws[j].st # "inflight"
    BY <2>1 DEF Words, CompletedWords
  <2> QED
    BY <1>2, <2>1, <2>2
<1>7. CASE NotCompleted \/ LookupTimesOut
  <2>1. PICK j \in Keys : Stored(j, "unknown")
    BY <1>7 DEF NotCompleted, LookupTimesOut, NotFound, LookedUp, IInv,
       CommandInv, TypeOK
  <2> QED
    BY <1>2, <2>1 DEF Uncertain
<1>8. row' = row \/ Journalled \/ PlaceFails \/ Acknowledged \/ Rejected
      \/ AckTimesOut \/ FoundOpen \/ FoundCompleted \/ NotCompleted
      \/ LookupTimesOut
  <2>1. CASE GatewayStep \/ Restart \/ UNCHANGED vars
    BY <2>1 DEF GatewayStep, Restart, vars
  <2>2. CASE Operator
    BY <2>2 DEF Operator, Look, Disarm, Arm, Disconnect, Connect, Bind, Recover,
       Preview, Submit
  <2>3. CASE Work
    BY <2>3 DEF Work, ReadPositions, ReadOrders, AccountMismatch, SnapshotFails,
       WhatIfAccepts, WhatIfRefuses, Journal, IdTaken, AlreadySubmitted,
       PerhapsSubmitted, Place, NotOpen, LookupRaises, RecoveryEnds, deskVars
  <2> QED
    BY <2>1, <2>2, <2>3 DEF Next
<1> QED
  BY <1>1, <1>3, <1>4, <1>5, <1>6, <1>7, <1>8

(* So what is said of the orders TWS knows is kept.                        *)
LEMMA KnownStep ==
    ASSUME IInv, [Next]_vars, KnownInv
    PROVE  KnownInv'
<1>1. CASE \E k \in Keys : Answers(k)
  <2>1. PICK k \in Keys : Answers(k)
    BY <1>1
  <2>2. row' = row
    BY <2>1 DEF Answers, DeskIdle
  <2>3. \A j \in erred' : tws'[j].st \in Taken
    <3>1. erred' \subseteq Keys /\ erred' = erred
      BY <2>1, AnswerEffect DEF IInv, TypeOK
    <3>2. k \in erred => tws'[k].st \in Taken
      BY <2>1, AnswerEffect DEF KnownInv, Live, Taken
    <3>3. \A j \in Keys : j # k => tws'[j] = tws[j]
      BY <2>1, AnswerEffect
    <3> QED
      BY <3>1, <3>2, <3>3 DEF KnownInv
  <2> QED
    BY <2>1, <2>2, <2>3, AnswerEffect, FS_Subset DEF KnownInv
<1>2. CASE \E k \in Keys : Executes(k)
  <2>1. PICK k \in Keys : Executes(k)
    BY <1>2
  <2>2. row' = row
    BY <2>1 DEF Executes, DeskIdle
  <2>3. Known' \subseteq Known
    BY <2>1, ExecutionEffect DEF Known
  <2>4. \A j \in Keys : tws'[j].st = "inflight" => tws[j].st = "inflight"
    BY <2>1, ExecutionEffect
  <2>5. \A j \in Keys : tws'[j].left <= tws'[j].qty
    <3>1. \A j \in Keys : tws[j].left \in Nat /\ tws[j].qty \in Nat
      BY DEF IInv, TypeOK
    <3> QED
      BY <2>1, <3>1, ExecutionEffect DEF KnownInv
  <2>6. \A j \in erred' : tws'[j].st \in Taken
    BY <2>1, ExecutionEffect DEF KnownInv, Taken, IInv, TypeOK
  <2> QED
    BY <2>2, <2>3, <2>4, <2>5, <2>6, FS_Subset DEF KnownInv
<1>3. CASE Sends
  <2>1. PICK k \in Keys : k = Key
    BY <1>3, SendingEffect
  <2>2. tws' = [tws EXCEPT ![k] = [st |-> "inflight", side |-> order.side,
                                   qty |-> order.qty, left |-> order.qty]]
    BY <1>3, <2>1, SendingEffect
  <2>3. \A j \in Keys : j # k => tws'[j] = tws[j]
    BY <2>2 DEF IInv, TypeOK
  <2>4. /\ tws'[k].left = order.qty /\ tws'[k].qty = order.qty
        /\ order.qty \in Nat
    BY <1>3, <2>2, SendingEffect, QtyAssumption DEF IInv, TypeOK, Orders, Qtys
  <2>5. Known' \subseteq Known \cup {k}
    BY <2>3 DEF Known
  <2>6. IsFiniteSet(Known')
    BY <2>5, FS_AddElement, FS_Subset DEF KnownInv
  <2>7. \A j \in Keys : tws'[j].st = "inflight" => row'[j].st \in Uncertain
    BY <1>3, <2>1, <2>3, SendingEffect DEF KnownInv
  <2>8. \A j \in Keys : tws'[j].left <= tws'[j].qty
    BY <2>3, <2>4 DEF KnownInv
  <2>9. \A j \in erred' : tws'[j].st \in Taken
    <3>1. erred' = erred /\ erred \subseteq Keys
      BY <1>3 DEF Sends, IInv, TypeOK
    <3>2. k \notin erred
      BY <1>3, <2>1, SendingEffect DEF KnownInv, Taken
    <3> QED
      BY <2>3, <3>1, <3>2 DEF KnownInv
  <2> QED
    BY <2>6, <2>7, <2>8, <2>9 DEF KnownInv
<1>4. CASE Elsewhere
  <2>1. \A k \in Keys : tws[k].st = "inflight" => row'[k].st \in Uncertain
    BY <1>4, RowSteps DEF KnownInv
  <2>2. \A k \in erred' : tws'[k].st \in Taken
    BY <1>4 DEF Elsewhere, KnownInv
  <2> QED
    BY <1>4, <2>1, <2>2 DEF Elsewhere, KnownInv, Known
<1> QED
  BY <1>1, <1>2, <1>3, <1>4, StepKinds

-----------------------------------------------------------------------------
(* The open orders of an account.                                          *)
LEMMA OpenFinite ==
    ASSUME KnownInv, NEW a, NEW side
    PROVE  IsFiniteSet(Open(a, side))
<1>1. Open(a, side) \subseteq Known
  BY DEF Open, Known
<1> QED
  BY <1>1, FS_Subset DEF KnownInv

LEMMA LeftTerms ==
    ASSUME IInv
    PROVE  \A k \in Keys : Left[k] = tws[k].left /\ Left[k] \in Nat
BY DEF IInv, TypeOK, Left

LEMMA OpenKept ==
    ASSUME Kept, NEW a, NEW side
    PROVE  Open(a, side)' \subseteq Open(a, side)
BY DEF Kept, Open, Live

(* When the snapshot of a submission is complete, no order is on its way.  *)
LEMMA NoneInflight ==
    ASSUME IInv, KnownInv, ReadOrders, Checked'
    PROVE  /\ \A k \in Keys : tws[k].st # "inflight"
           /\ acct' = login /\ order' = order /\ order \in Orders
           /\ Normalizes(order, SnapshotOf(login))
           /\ UNCHANGED <<tws, pos>>
<1>1. pc = "orders" /\ acct' = login /\ UNCHANGED <<tws, pos>>
  BY DEF ReadOrders, gatewayVars
<1>2. OrderGoesOn(SnapshotOf(login))
  BY DEF ReadOrders, ConnectGoesOn, ReceiptReturned, LookUp, Return, Checked
<1>3. kind = "submit" /\ order' = order /\ Normalizes(order, SnapshotOf(login))
  BY <1>2 DEF OrderGoesOn, Goto, Return, Checked
<1>4. \A k \in Keys : row[k].st \notin Uncertain
  BY <1>1, <1>3 DEF IInv, CommandInv
<1>5. order \in Orders
  BY <1>3 DEF IInv, CommandInv
<1> QED
  BY <1>1, <1>3, <1>4, <1>5 DEF KnownInv

(* Nothing at all is bought when the snapshot lists no quantity.           *)
LEMMA NoBuyListed ==
    ASSUME IInv, KnownInv, \A k \in Keys : tws[k].st # "inflight",
           SnapshotOf(login).buying = 0
    PROVE  Open(login, "BUY") = {}
<1>1. LiveOrders(login, "BUY") = Open(login, "BUY")
  BY DEF LiveOrders, Open
<1>2. SumFunctionOnSet(Whole, Open(login, "BUY")) = 0
  BY <1>1 DEF SnapshotOf
<1>3. \A k \in Open(login, "BUY") : Whole[k] \in Nat /\ Whole[k] > 0
  <2> SUFFICES ASSUME NEW k \in Open(login, "BUY")
               PROVE  Whole[k] \in Nat /\ Whole[k] > 0
    OBVIOUS
  <2>1. k \in Keys /\ tws[k].st \in {"inflight", "working"}
    BY DEF Open
  <2>2. tws[k].left \in Nat /\ tws[k].qty \in Nat
    BY <2>1 DEF IInv, TypeOK
  <2>3. tws[k].left > 0 /\ tws[k].left <= tws[k].qty
    BY <2>1 DEF IInv, SentInv, KnownInv
  <2>4. Whole[k] = tws[k].qty
    BY <2>1 DEF Whole
  <2> QED
    BY <2>2, <2>3, <2>4
<1>4. IsFiniteSet(Open(login, "BUY"))
  BY OpenFinite
<1>5. \A k \in Open(login, "BUY") :
         Whole[k] <= SumFunctionOnSet(Whole, Open(login, "BUY"))
  BY <1>3, <1>4, SumNat
<1> QED
  BY <1>2, <1>3, <1>5

LEMMA BuyStep ==
    ASSUME IInv, [Next]_vars, KnownInv, BuyInv
    PROVE  BuyInv'
<1>1. ASSUME Kept, UNCHANGED <<acct, order, kind, pc>>
      PROVE  BuyInv'
  <2>1. \A a \in Accounts : Open(a, "BUY")' \subseteq Open(a, "BUY")
    BY <1>1, OpenKept
  <2>2. OneLiveBuy'
    BY <2>1 DEF BuyInv, OneLiveBuy
  <2>3. Open(acct, "BUY")' \subseteq Open(acct, "BUY")
    BY <1>1 DEF Kept, Open, Live
  <2>4. (Checked /\ order.side = "BUY" => Open(acct, "BUY") = {})'
    BY <1>1, <2>3 DEF BuyInv, Checked
  <2> QED
    BY <2>2, <2>4 DEF BuyInv
<1>2. CASE \E k \in Keys : Answers(k)
  BY <1>1, <1>2, AnswerEffect DEF Answers, DeskIdle, deskVars, cmdVars
<1>3. CASE \E k \in Keys : Executes(k)
  <2>1. PICK k \in Keys : Executes(k)
    BY <1>3
  <2>2. \A j \in Keys : tws'[j].st \in Live =>
            tws[j].st \in Live /\ tws'[j].side = tws[j].side
    BY <2>1, ExecutionEffect DEF Live
  <2>3. UNCHANGED <<acct, order, kind, pc>>
    BY <2>1 DEF Executes, DeskIdle, deskVars, cmdVars
  <2>4. \A a : Open(a, "BUY")' \subseteq Open(a, "BUY")
    BY <2>2 DEF Open, Live
  <2>5. Open(acct, "BUY")' \subseteq Open(acct, "BUY")
    BY <2>2, <2>3 DEF Open, Live
  <2>6. OneLiveBuy'
    BY <2>4 DEF BuyInv, OneLiveBuy
  <2>7. (Checked /\ order.side = "BUY" => Open(acct, "BUY") = {})'
    BY <2>3, <2>5 DEF BuyInv, Checked
  <2> QED
    BY <2>6, <2>7 DEF BuyInv
<1>4. CASE Sends
  <2>1. PICK k \in Keys : k = Key
    BY <1>4, SendingEffect
  <2>2. tws' = [tws EXCEPT ![k] = [st |-> "inflight", side |-> order.side,
                                   qty |-> order.qty, left |-> order.qty]]
    BY <1>4, <2>1, SendingEffect
  <2>3. \A j \in Keys : j # k => tws'[j] = tws[j]
    BY <2>2 DEF IInv, TypeOK
  <2>4. k[1] = acct /\ tws'[k].side = order.side
    BY <2>1, <2>2 DEF Key, IInv, TypeOK
  <2>5. Checked /\ ~Checked'
    BY <1>4, SendingEffect DEF Sends, Checked
  <2>6. ASSUME NEW a \in Accounts, a # acct \/ order.side # "BUY"
        PROVE  Open(a, "BUY")' \subseteq Open(a, "BUY")
    BY <2>3, <2>4, <2>6 DEF Open
  <2>7. ASSUME order.side = "BUY"
        PROVE  Open(acct, "BUY")' \subseteq {k}
    <3>1. Open(acct, "BUY") = {}
      BY <2>5, <2>7 DEF BuyInv
    <3>2. acct' = acct
      BY <1>4 DEF Sends
    <3> QED
      BY <2>3, <3>1, <3>2 DEF Open
  <2>8. OneLiveBuy'
    <3> SUFFICES ASSUME NEW a \in Accounts, NEW i \in Open(a, "BUY")',
                        NEW j \in Open(a, "BUY")'
                 PROVE  i = j
      BY DEF OneLiveBuy
    <3>1. CASE a # acct \/ order.side # "BUY"
      BY <2>6, <3>1 DEF BuyInv, OneLiveBuy
    <3>2. CASE a = acct /\ order.side = "BUY"
      <4>1. acct' = acct
        BY <1>4 DEF Sends
      <4> QED
        BY <2>7, <3>2, <4>1
    <3> QED
      BY <3>1, <3>2
  <2> QED
    BY <2>5, <2>8 DEF BuyInv
<1>5. CASE Elsewhere
  <2>1. OneLiveBuy'
    BY <1>5 DEF BuyInv, OneLiveBuy, Open, Elsewhere
  <2>2. ASSUME Checked', order'.side = "BUY"
        PROVE  Open(acct, "BUY")' = {}
    <3>1. CASE Checked /\ UNCHANGED <<acct, order>>
      BY <1>5, <2>2, <3>1 DEF BuyInv, Elsewhere, Open
    <3>2. CASE ReadOrders
      <4>1. Open(login, "BUY") = {}
        BY <2>2, <3>2, NoneInflight, NoBuyListed DEF Normalizes
      <4>2. acct' = login /\ tws' = tws
        BY <2>2, <3>2, NoneInflight
      <4> QED
        BY <4>1, <4>2 DEF Open
    <3> QED
      BY <2>2, <3>1, <3>2, CheckedSteps
  <2> QED
    BY <2>1, <2>2 DEF BuyInv
<1> QED
  BY <1>2, <1>3, <1>4, <1>5, StepKinds

-----------------------------------------------------------------------------
(* What is left to sell does not grow by an answer, ...                    *)
LEMMA LeftKept ==
    ASSUME IInv, IInv', KnownInv, Kept, NEW a \in Accounts
    PROVE  LeftOf(a, "SELL")' <= LeftOf(a, "SELL") /\ LeftOf(a, "SELL") \in Nat
<1> DEFINE S == Open(a, "SELL")
           T == Open(a, "SELL")'
<1>1. T \in SUBSET S /\ IsFiniteSet(S) /\ IsFiniteSet(T)
  BY OpenKept, OpenFinite, FS_Subset
<1>2. \A k \in S : Left[k] \in Nat
  BY LeftTerms DEF Open
<1>3. \A k \in T : Left[k] \in Int /\ Left'[k] = Left[k]
  <2>1. \A k \in T : k \in Keys /\ tws'[k].left = tws[k].left
    BY DEF Kept, Open, Live
  <2> QED
    BY <2>1, LeftTerms DEF Left
<1>4. SumFunctionOnSet(Left, T) = SumFunctionOnSet(Left', T)
  <2> HIDE DEF S, T
  <2> QED
    BY <1>1, <1>3, SumSame
<1>5. SumFunctionOnSet(Left, T) <= SumFunctionOnSet(Left, S)
  <2> HIDE DEF S, T
  <2> QED
    BY <1>1, <1>2, SumSubset
<1>6. SumFunctionOnSet(Left, S) \in Nat
  <2> HIDE DEF S, T
  <2> QED
    BY <1>1, <1>2, SumNat
<1> QED
  BY <1>4, <1>5, <1>6 DEF LeftOf

(* ... and shrinks as the holding does by an execution.                    *)
LEMMA LeftExecuted ==
    ASSUME IInv, IInv', KnownInv, NEW k \in Keys, Executes(k), NEW a \in Accounts
    PROVE  /\ LeftOf(a, "SELL")' - pos'[a] <= LeftOf(a, "SELL") - pos[a]
           /\ LeftOf(a, "SELL")' \in Nat /\ LeftOf(a, "SELL") \in Nat
<1> DEFINE S == Open(a, "SELL")
           T == Open(a, "SELL")'
<1>0. /\ pos \in [Accounts -> Int] /\ pos' \in [Accounts -> Int]
      /\ k[1] \in Accounts
      /\ \A j \in Keys : tws[j].side \in {"BUY", "SELL"}
  BY DEF IInv, TypeOK, Keys, Sides
<1>1. T \in SUBSET S /\ IsFiniteSet(S) /\ IsFiniteSet(T)
  <2>1. T \in SUBSET S
    BY ExecutionEffect DEF Open
  <2> QED
    BY <2>1, OpenFinite, FS_Subset
<1>2. \A j \in Keys : /\ Left[j] \in Nat /\ Left'[j] \in Nat
                      /\ Left'[j] = IF j = k THEN Left[j] - 1 ELSE Left[j]
  <2>1. \A j \in Keys : Left[j] = tws[j].left /\ Left[j] \in Nat
    BY LeftTerms
  <2>2. \A j \in Keys : Left'[j] = tws'[j].left /\ Left'[j] \in Nat
    BY DEF IInv, TypeOK, Left
  <2> QED
    BY <2>1, <2>2, ExecutionEffect
<1>3. S \subseteq Keys
  BY DEF Open
<1>4. SumFunctionOnSet(Left', T) <= SumFunctionOnSet(Left', S)
  <2> HIDE DEF S, T
  <2> QED
    BY <1>1, <1>2, <1>3, SumSubset
<1>5. /\ SumFunctionOnSet(Left, S) \in Nat /\ SumFunctionOnSet(Left', S) \in Nat
      /\ SumFunctionOnSet(Left', T) \in Nat
  <2> HIDE DEF S, T
  <2> QED
    BY <1>1, <1>2, <1>3, SumNat
<1>6. CASE k \in S
  <2>1. SumFunctionOnSet(Left', S) = SumFunctionOnSet(Left, S) + (-1)
    <3>1. \A j \in S : Left[j] \in Int
      BY <1>2, <1>3
    <3>2. \A j \in S : Left'[j] = IF j = k THEN Left[j] + (-1) ELSE Left[j]
      BY <1>2, <1>3
    <3>3. PICK f : f = Left
      OBVIOUS
    <3>4. PICK g : g = Left'
      OBVIOUS
    <3>5. -1 \in Int
      OBVIOUS
    <3> HIDE DEF S, T
    <3>6. SumFunctionOnSet(g, S) = SumFunctionOnSet(f, S) + (-1)
      BY <1>1, <1>6, <3>1, <3>2, <3>3, <3>4, <3>5, SumChange
    <3> QED
      BY <3>3, <3>4, <3>6
  <2>2. k[1] = a /\ tws[k].side = "SELL"
    BY <1>6 DEF Open
  <2>3. pos'[a] = pos[a] - 1
    BY <1>0, <2>2, ExecutionEffect
  <2> QED
    BY <1>0, <1>4, <1>5, <2>1, <2>3 DEF LeftOf
<1>7. CASE k \notin S
  <2>1. SumFunctionOnSet(Left', S) = SumFunctionOnSet(Left, S)
    <3>1. \A j \in S : Left[j] \in Int /\ Left'[j] = Left[j]
      BY <1>2, <1>3, <1>7
    <3> HIDE DEF S, T
    <3> QED
      BY <1>1, <3>1, SumSame
  <2>2. k[1] # a \/ tws[k].side = "BUY"
    BY <1>0, <1>7, ExecutionEffect DEF Open
  <2>3. pos'[a] >= pos[a]
    BY <1>0, <2>2, ExecutionEffect
  <2> QED
    BY <1>0, <1>4, <1>5, <2>1, <2>3 DEF LeftOf
<1> QED
  BY <1>6, <1>7

(* A sale that was sent adds itself to what is open of its account.        *)
LEMMA LeftSent ==
    ASSUME IInv, IInv', KnownInv, Sends, NEW a \in Accounts
    PROVE  /\ LeftOf(a, "SELL") \in Nat
           /\ LeftOf(a, "SELL")' =
                IF a = acct /\ order.side = "SELL"
                THEN order.qty + LeftOf(a, "SELL") ELSE LeftOf(a, "SELL")
<1> DEFINE S == Open(a, "SELL")
           T == Open(a, "SELL")'
<1>1. PICK k \in Keys : k = Key
  BY SendingEffect
<1>2. tws' = [tws EXCEPT ![k] = [st |-> "inflight", side |-> order.side,
                                 qty |-> order.qty, left |-> order.qty]]
  BY <1>1, SendingEffect
<1>3. \A j \in Keys : j # k => tws'[j] = tws[j]
  BY <1>2 DEF IInv, TypeOK
<1>4. /\ k[1] = acct /\ tws'[k].side = order.side /\ tws'[k].left = order.qty
      /\ tws'[k].st = "inflight"
  BY <1>1, <1>2 DEF Key, IInv, TypeOK
<1>5. k \notin S /\ S \subseteq Keys /\ IsFiniteSet(S)
  <2>1. k \notin S
    BY <1>1, SendingEffect DEF Open
  <2>2. S \subseteq Keys
    BY DEF Open
  <2> QED
    BY <2>1, <2>2, OpenFinite
<1>6. T = IF a = acct /\ order.side = "SELL" THEN S \cup {k} ELSE S
  BY <1>3, <1>4, <1>5 DEF Open
<1>7. \A j \in Keys : Left[j] \in Nat /\ Left'[j] \in Nat
                      /\ (j # k => Left'[j] = Left[j])
  <2>1. \A j \in Keys : Left[j] = tws[j].left /\ Left[j] \in Nat
    BY LeftTerms
  <2>2. \A j \in Keys : Left'[j] = tws'[j].left /\ Left'[j] \in Nat
    BY DEF IInv, TypeOK, Left
  <2> QED
    BY <1>3, <2>1, <2>2
<1>8. Left'[k] = order.qty /\ order.qty \in Nat
  <2>1. Left'[k] = tws'[k].left
    BY DEF Left
  <2> QED
    BY <1>4, <1>7, <2>1
<1>9. SumFunctionOnSet(Left', S) = SumFunctionOnSet(Left, S)
  <2>1. \A j \in S : Left[j] \in Int /\ Left'[j] = Left[j]
    BY <1>5, <1>7
  <2> HIDE DEF S, T
  <2> QED
    BY <1>5, <2>1, SumSame
<1>10. SumFunctionOnSet(Left', S \cup {k}) = order.qty + SumFunctionOnSet(Left', S)
  <2>1. Left'[k] \in Int /\ \A j \in S : Left'[j] \in Int
    BY <1>5, <1>7, <1>8
  <2>2. SumFunctionOnSet(Left', S \cup {k})
          = Left'[k] + SumFunctionOnSet(Left', S)
    <3> HIDE DEF S, T
    <3> QED
      BY <1>5, <2>1, SumAdd
  <2> QED
    BY <1>8, <2>2
<1>11. SumFunctionOnSet(Left, S) \in Nat
  <2> HIDE DEF S, T
  <2> QED
    BY <1>5, <1>7, SumNat
<1> QED
  BY <1>6, <1>9, <1>10, <1>11 DEF LeftOf

(* A sale the snapshot allows is covered with what is open, if what the    *)
(* snapshot has of the position is still the position.                     *)
LEMMA SaleAllowed ==
    ASSUME IInv, KnownInv, \A k \in Keys : tws[k].st # "inflight",
           SeenOnce, seen # NoKey,
           SellsCovered,
           order \in Orders,
           order.qty <= SnapshotOf(login).long - SnapshotOf(login).selling
    PROVE  order.qty + LeftOf(login, "SELL") <= pos[login]
<1> DEFINE S == Open(login, "SELL")
<1>0. login \in Accounts /\ pos \in [Accounts -> Int] /\ order.qty \in Nat \ {0}
  BY QtyAssumption DEF IInv, TypeOK, Orders, Qtys
<1>1. LiveOrders(login, "SELL") = S
  BY DEF LiveOrders, Open
<1>2. \A k \in S : Left[k] \in Nat /\ Whole[k] \in Nat /\ Left[k] <= Whole[k]
  BY DEF Open, Left, Whole, IInv, TypeOK, KnownInv
<1>3. IsFiniteSet(S)
  BY OpenFinite
<1>4. SumFunctionOnSet(Left, S) <= SumFunctionOnSet(Whole, S)
  <2>1. \A k \in S : Left[k] \in Int /\ Whole[k] \in Int /\ Left[k] <= Whole[k]
    BY <1>2
  <2> HIDE DEF S
  <2> QED
    BY <1>3, <2>1, SumMonotone
<1>5. SumFunctionOnSet(Left, S) \in Nat /\ SumFunctionOnSet(Whole, S) \in Nat
  <2> HIDE DEF S
  <2> QED
    BY <1>2, <1>3, SumNat
<1>6. SnapshotOf(login).selling = SumFunctionOnSet(Whole, S)
  BY <1>1 DEF SnapshotOf
<1>7. pos[login] \in Int
  BY <1>0
<1>8. CASE seen[1] = login
  <2>1. SnapshotOf(login).long = Long(pos[login])
    BY <1>8 DEF SnapshotOf, SeenOnce
  <2> QED
    BY <1>0, <1>4, <1>5, <1>6, <1>7, <2>1 DEF LeftOf, Long
<1>9. CASE seen[1] # login
  <2>1. SnapshotOf(login).long = 0
    BY <1>9 DEF SnapshotOf
  <2> QED
    BY <1>0, <1>5, <1>6, <2>1
<1> QED
  BY <1>8, <1>9

(* The orders of a snapshot are read after its positions.                  *)
LEMMA OrdersAfterPositions ==
    ASSUME IInv, [Next]_vars, pc' = "orders", pc = "orders" => seen # NoKey
    PROVE  seen' # NoKey
<1>1. CASE GatewayStep
  <2>1. CASE RowAgain
    <3>1. seen' = <<seen[1], seen[2] + Long(pos[seen[1]]), seen[3] + 1>>
      BY <2>1 DEF RowAgain
    <3> QED
      BY <3>1 DEF NoKey
  <2>2. CASE ~RowAgain
    <3>1. seen' = seen
      BY <1>1, <2>2 DEF GatewayStep, Gateway, Accept, Refuse, Drop, Fill, Cancel,
         Warn, LoseConnection, Relogin, adapterVars
    <3>2. pc' = pc
      BY <1>1 DEF GatewayStep, cmdVars
    <3> QED
      BY <3>1, <3>2
  <2> QED
    BY <2>1, <2>2
<1>2. CASE Operator
  BY <1>2 DEF Operator, Look, Disarm, Arm, Disconnect, Connect, Bind, Recover,
     Preview, Submit, Start, Return, LookUp, Connected, Ready, cmdVars
<1>3. CASE ReadPositions
  <2>1. seen' = <<login, Long(pos[login]), 1>>
    BY <1>3 DEF ReadPositions, PositionsRead
  <2> QED
    BY <2>1 DEF NoKey
<1>4. CASE Work /\ ~ReadPositions
  <2>1. pc' # "orders"
    BY <1>4 DEF Work, ReadOrders, ConnectGoesOn, OrderGoesOn, ReceiptReturned,
       AccountMismatch, SnapshotFails, WhatIfAccepts, WhatIfRefuses, Journal,
       Journalled, IdTaken, AlreadySubmitted, PerhapsSubmitted, Place,
       PlaceFails, Acknowledged, Rejected, AckTimesOut, FoundOpen, NotOpen,
       FoundCompleted, NotCompleted, LookupTimesOut, LookupRaises,
       RecoveryEnds, NotFound, LookedUp, Goto, Return, Start, LookUp
  <2> QED
    BY <2>1
<1>5. CASE Restart
  BY <1>5 DEF Restart, Return
<1>6. CASE UNCHANGED vars
  BY <1>6 DEF vars
<1> QED
  BY <1>1, <1>2, <1>3, <1>4, <1>5, <1>6 DEF Next

LEMMA SellStep ==
    ASSUME WholeSnapshots, IInv, IInv', [Next]_vars, KnownInv, SellInv
    PROVE  SellInv'
<1>0. pos \in [Accounts -> Int] /\ order \in Intents /\ acct \in AnyAccount
  BY DEF IInv, TypeOK
<1>1. (pc = "orders" => seen # NoKey)'
  BY OrdersAfterPositions DEF SellInv
<1>2. ASSUME Checked
      PROVE  acct \in Accounts /\ order \in Orders /\ order.qty \in Nat
  <2>1. acct \in Accounts /\ order \in Orders
    BY <1>2 DEF Checked, IInv, CommandInv
  <2> QED
    BY <2>1, QtyAssumption DEF Orders, Qtys
<1>3. \A a \in Accounts : LeftOf(a, "SELL") <= pos[a]
  BY DEF SellInv, SellsCovered, LeftOf
<1>4. ASSUME UNCHANGED <<acct, order, kind, pc, seen>>,
             \A a \in Accounts :
                /\ LeftOf(a, "SELL")' - pos'[a] <= LeftOf(a, "SELL") - pos[a]
                /\ LeftOf(a, "SELL")' \in Int /\ LeftOf(a, "SELL") \in Int,
             seen # NoKey => pos' = pos
      PROVE  SellInv'
  <2>0. pos' \in [Accounts -> Int]
    BY DEF IInv, TypeOK
  <2>1. \A a \in Accounts : LeftOf(a, "SELL")' <= pos'[a]
    BY <1>0, <1>3, <1>4, <2>0
  <2>2. SellsCovered'
    BY <2>1 DEF SellsCovered, LeftOf
  <2>3. SeenOnce'
    BY <1>4 DEF SellInv, SeenOnce
  <2>4. ASSUME Checked', order'.side = "SELL"
        PROVE  order'.qty + LeftOf(acct, "SELL")' <= pos'[acct']
    <3>1. Checked /\ order.side = "SELL"
      BY <1>4, <2>4 DEF Checked
    <3>2. order.qty + LeftOf(acct, "SELL") <= pos[acct] /\ acct \in Accounts
      BY <1>2, <3>1 DEF SellInv
    <3>3. PICK a \in Accounts : a = acct
      BY <3>2
    <3>4. acct' = a
      BY <1>4, <3>3
    <3>5. LeftOf(acct, "SELL")' = LeftOf(a, "SELL")'
      BY <3>4 DEF LeftOf, Open
    <3>6. LeftOf(acct, "SELL") = LeftOf(a, "SELL")
      BY <3>3
    <3>7. order.qty + LeftOf(a, "SELL") <= pos[a]
      BY <3>2, <3>3
    <3>8. /\ LeftOf(a, "SELL")' - pos'[a] <= LeftOf(a, "SELL") - pos[a]
          /\ LeftOf(a, "SELL")' \in Int /\ LeftOf(a, "SELL") \in Int
          /\ pos[a] \in Int /\ pos'[a] \in Int /\ order.qty \in Int
      BY <1>0, <1>2, <1>4, <2>0, <3>1
    <3>9. order.qty + LeftOf(a, "SELL")' <= pos'[a]
      BY <3>7, <3>8
    <3> QED
      BY <1>4, <3>4, <3>5, <3>9
  <2> QED
    BY <1>1, <2>2, <2>3, <2>4 DEF SellInv
<1>5. CASE \E k \in Keys : Answers(k)
  <2>1. PICK k \in Keys : Answers(k)
    BY <1>5
  <2>2. Kept /\ pos' = pos /\ seen' = seen
    BY <2>1, AnswerEffect
  <2>3. UNCHANGED <<acct, order, kind, pc>>
    BY <2>1 DEF Answers, DeskIdle, deskVars, cmdVars
  <2>4. ASSUME NEW a \in Accounts
        PROVE  /\ LeftOf(a, "SELL")' - pos'[a] <= LeftOf(a, "SELL") - pos[a]
               /\ LeftOf(a, "SELL")' \in Int /\ LeftOf(a, "SELL") \in Int
    <3>1. LeftOf(a, "SELL")' <= LeftOf(a, "SELL") /\ LeftOf(a, "SELL") \in Nat
      BY <2>2, LeftKept
    <3>2. LeftOf(a, "SELL")' \in Int
      <4>1. KnownInv'
        BY KnownStep
      <4>2. IsFiniteSet(Open(a, "SELL")')
        <5>1. Open(a, "SELL")' \subseteq Known'
          BY DEF Open, Known
        <5> QED
          BY <4>1, <5>1, FS_Subset DEF KnownInv
      <4>3. \A j \in Open(a, "SELL")' : Left'[j] \in Int
        BY DEF Open, Left, IInv, TypeOK
      <4> QED
        BY <4>2, <4>3, SumInt DEF LeftOf
    <3>3. pos[a] \in Int
      BY <1>0
    <3> QED
      BY <2>2, <3>1, <3>2, <3>3
  <2> QED
    BY <1>4, <2>2, <2>3, <2>4
<1>6. CASE \E k \in Keys : Executes(k)
  <2>1. PICK k \in Keys : Executes(k)
    BY <1>6
  <2>2. seen = NoKey /\ seen' = seen
    BY <2>1 DEF Executes, Fill, WholeSnapshots
  <2>3. UNCHANGED <<acct, order, kind, pc>>
    BY <2>1 DEF Executes, DeskIdle, deskVars, cmdVars
  <2>4. \A a \in Accounts :
          /\ LeftOf(a, "SELL")' - pos'[a] <= LeftOf(a, "SELL") - pos[a]
          /\ LeftOf(a, "SELL")' \in Int /\ LeftOf(a, "SELL") \in Int
    BY <2>1, LeftExecuted
  <2> QED
    BY <1>4, <2>2, <2>3, <2>4
<1>7. CASE Sends
  <2>1. Checked /\ ~Checked' /\ pos' = pos /\ seen' = seen /\ acct' = acct
    BY <1>7, SendingEffect DEF Sends, Checked
  <2>2. ASSUME NEW a \in Accounts
        PROVE  LeftOf(a, "SELL")' <= pos'[a]
    <3>1. CASE a = acct /\ order.side = "SELL"
      <4>1. order.qty + LeftOf(acct, "SELL") <= pos[acct]
        BY <2>1, <3>1 DEF SellInv
      <4>2. LeftOf(a, "SELL")' = order.qty + LeftOf(a, "SELL")
        BY <1>7, <3>1, LeftSent
      <4> QED
        BY <2>1, <3>1, <4>1, <4>2
    <3>2. CASE ~(a = acct /\ order.side = "SELL")
      <4>1. LeftOf(a, "SELL")' = LeftOf(a, "SELL")
        BY <1>7, <3>2, LeftSent
      <4> QED
        BY <1>3, <2>1, <4>1
    <3> QED
      BY <3>1, <3>2
  <2>3. SellsCovered'
    BY <2>2 DEF SellsCovered, LeftOf
  <2>4. SeenOnce'
    BY <2>1 DEF SellInv, SeenOnce
  <2> QED
    BY <1>1, <2>1, <2>3, <2>4 DEF SellInv
<1>8. CASE Elsewhere
  <2>1. SellsCovered'
    BY <1>8 DEF SellInv, SellsCovered, Elsewhere, Left, Open
  <2>2. SeenOnce'
    <3>1. pos' = pos
      BY <1>8 DEF Elsewhere
    <3>2. CASE seen' = seen \/ seen' = NoKey
      BY <3>1, <3>2 DEF SellInv, SeenOnce
    <3>3. CASE seen' = <<login, Long(pos[login]), 1>>
      BY <3>1, <3>3 DEF SeenOnce
    <3>4. ~RowAgain
      BY DEF RowAgain, SellInv, SeenOnce, WholeSnapshots
    <3> QED
      BY <3>2, <3>3, <3>4, SeenSteps
  <2>3. ASSUME Checked', order'.side = "SELL"
        PROVE  order'.qty + LeftOf(acct, "SELL")' <= pos'[acct']
    <3>1. CASE Checked /\ UNCHANGED <<acct, order>>
      <4>1. order.qty + LeftOf(acct, "SELL") <= pos[acct]
        BY <2>3, <3>1 DEF SellInv
      <4>2. LeftOf(acct, "SELL")' = LeftOf(acct, "SELL")
        BY <1>8, <3>1 DEF LeftOf, Left, Open, Elsewhere
      <4> QED
        BY <1>8, <3>1, <4>1, <4>2 DEF Elsewhere
    <3>2. CASE ReadOrders
      <4>1. /\ \A k \in Keys : tws[k].st # "inflight"
            /\ acct' = login /\ order' = order /\ order \in Orders
            /\ Normalizes(order, SnapshotOf(login))
        BY <2>3, <3>2, NoneInflight
      <4>2. order.qty <= SnapshotOf(login).long - SnapshotOf(login).selling
        BY <2>3, <4>1 DEF Normalizes
      <4>3. seen # NoKey /\ SeenOnce
        BY <3>2 DEF ReadOrders, SellInv
      <4>4. order.qty + LeftOf(login, "SELL") <= pos[login]
        <5>1. SellsCovered
          BY DEF SellInv
        <5> QED
          BY <4>1, <4>2, <4>3, <5>1, SaleAllowed
      <4>5. LeftOf(acct, "SELL")' = LeftOf(login, "SELL")
        BY <1>8, <4>1 DEF LeftOf, Left, Open, Elsewhere
      <4> QED
        BY <1>8, <4>1, <4>4, <4>5 DEF Elsewhere
    <3> QED
      BY <2>3, <3>1, <3>2, CheckedSteps
  <2> QED
    BY <1>1, <2>1, <2>2, <2>3 DEF SellInv
<1> QED
  BY <1>5, <1>6, <1>7, <1>8, StepKinds

-----------------------------------------------------------------------------
LEMMA InitHoldings == Init => KnownInv /\ BuyInv /\ SellInv
<1> SUFFICES ASSUME Init PROVE KnownInv /\ BuyInv /\ SellInv
  OBVIOUS
<1>1. /\ \A k \in Keys : tws[k].st = "none" /\ tws[k].left = 0 /\ tws[k].qty = 0
      /\ erred = {} /\ pc = "idle" /\ seen = NoKey
      /\ pos \in [Accounts -> 0..MaxQty]
  BY DEF Init, NoOrder
<1>2. Known = {} /\ \A a, side : Open(a, side) = {}
  BY <1>1 DEF Known, Open
<1>3. KnownInv
  BY <1>1, <1>2, FS_EmptySet DEF KnownInv
<1>4. BuyInv
  BY <1>1, <1>2 DEF BuyInv, OneLiveBuy, Checked
<1>5. SellInv
  <2>1. \A a \in Accounts : SumFunctionOnSet(Left, Open(a, "SELL")) = 0
    BY <1>2, SumEmpty
  <2>2. \A a \in Accounts : pos[a] \in Int /\ 0 <= pos[a]
    BY <1>1, QtyAssumption
  <2>3. SellsCovered
    BY <2>1, <2>2 DEF SellsCovered
  <2> QED
    BY <1>1, <2>3 DEF SellInv, SeenOnce, Checked
<1> QED
  BY <1>3, <1>4, <1>5

LEMMA KnownCorrect == Spec => [](KnownInv /\ BuyInv)
<1>1. Init => KnownInv /\ BuyInv
  BY InitHoldings
<1>2. IInv /\ KnownInv /\ BuyInv /\ [Next]_vars => (KnownInv /\ BuyInv)'
  BY KnownStep, BuyStep
<1> QED
  BY <1>1, <1>2, InvCorrect, PTL DEF Spec

(* An account never has two opening orders at a time: _normalize_order     *)
(* refuses the second one, however calls fail and the process dies.        *)
THEOREM OneLiveBuyCorrect == Spec => []OneLiveBuy
<1>1. BuyInv => OneLiveBuy
  BY DEF BuyInv
<1> QED
  BY <1>1, KnownCorrect, PTL

LEMMA SellCorrect ==
    ASSUME WholeSnapshots
    PROVE  Spec => []SellInv
<1>1. Init => SellInv
  BY InitHoldings
<1>2. IInv /\ IInv' /\ KnownInv /\ SellInv /\ [Next]_vars => SellInv'
  BY SellStep
<1> QED
  BY <1>1, <1>2, InvCorrect, KnownCorrect, PTL DEF Spec

(* What is on its way or working of the sales of an account is covered by  *)
(* what it holds, if snapshots are whole: account_snapshot is two requests, *)
(* between which an execution or a position row that TWS sends again makes *)
(* the holding look larger than what is not yet on sale.                   *)
THEOREM SellsCoveredCorrect ==
    ASSUME ~SnapshotRaces, MaxRows = 1
    PROVE  Spec => []SellsCovered
<1>1. SellInv => SellsCovered
  BY DEF SellInv
<1>2. Spec => []SellInv
  BY SellCorrect DEF WholeSnapshots
<1> QED
  BY <1>1, <1>2, PTL

(* No account is ever short then: a short account, as the run ibkr_short    *)
(* finds one, takes a snapshot that is not whole.                          *)
THEOREM NeverShortCorrect ==
    ASSUME ~SnapshotRaces, MaxRows = 1
    PROVE  Spec => []NeverShort
<1>1. IInv /\ KnownInv /\ SellInv => NeverShort
  <2> SUFFICES ASSUME IInv, KnownInv, SellInv, NEW a \in Accounts
               PROVE  pos[a] >= 0
    BY DEF NeverShort
  <2>1. SumFunctionOnSet(Left, Open(a, "SELL")) <= pos[a]
    BY DEF SellInv, SellsCovered
  <2>2. \A k \in Open(a, "SELL") : Left[k] \in Nat
    BY LeftTerms DEF Open
  <2>3. SumFunctionOnSet(Left, Open(a, "SELL")) \in Nat
    BY <2>2, OpenFinite, SumNat
  <2>4. pos[a] \in Int
    BY DEF IInv, TypeOK
  <2> QED
    BY <2>1, <2>3, <2>4
<1>2. Spec => []SellInv
  BY SellCorrect DEF WholeSnapshots
<1> QED
  BY <1>1, <1>2, KnownCorrect, InvCorrect, PTL
=============================================================================
