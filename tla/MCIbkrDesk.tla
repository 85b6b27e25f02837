----------------------------- MODULE MCIbkrDesk -----------------------------
(* The IBKR desk for TLC.                                                  *)
EXTENDS IbkrDesk, FiniteSets, TLC

CONSTANTS live, other, o1, o2, o3

Symmetry == Permutations(Ids)

(* The first start of an installation whose account holds a position.      *)
FirstStart ==
    /\ Init
    /\ login = live
    /\ pos = [a \in Accounts |-> IF a = live THEN MaxQty ELSE 0]
    /\ bound = Nobody

MCSpec == FirstStart /\ [][Next]_vars
MCFairSpec == MCSpec /\ Fairness

(* Two orders are placed, of either account.                               *)
TwoOrders == Cardinality({k \in Keys : row[k] # NoRow}) <= 2

(* TWS tells of one order in words the adapter does not know, or of an     *)
(* error although it has it; both orders are of one account then.          *)
Odd == erred \cup {k \in Keys : row[k].st \in {"raw", "raw refusal"}
                               \/ (asked = k /\ reply = "raw")}

OneOddity ==
    /\ Cardinality(Odd) <= 1
    /\ Odd # {} => login = live /\ \A k \in Keys : k[1] # live => row[k] = NoRow

(* The operator opens positions only.                                      *)
Opening == order # NoIntent => order.side = "BUY"

(* An undisturbed connection, over which single shares are sold.           *)
Undisturbed ==
    /\ up \/ (pc = "idle" /\ ~conn)
    /\ order # NoIntent => order.side = "SELL" /\ order.qty = 1
    /\ \A k \in Keys : row[k].st # "unknown" /\ tws[k].st \notin {"refused", "cancelled"}
=============================================================================
