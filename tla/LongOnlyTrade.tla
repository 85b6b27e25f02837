---------------------------- MODULE LongOnlyTrade ----------------------------
(***************************************************************************)
(* What the monitor promises for one symbol and one trade date, without    *)
(* orders, calls or crashes: at most two attempts, each buying at most Qty *)
(* shares; shares change hands only while an attempt is open on the books; *)
(* nothing is sold that is not held; an attempt is put away only flat; the *)
(* second attempt follows a first one that was stopped out; done is final. *)
(***************************************************************************)
EXTENDS Integers

CONSTANT Qty  \* shares of an entry

VARIABLES
    stage,    \* idle, open, stopped (first attempt over), done
    attempt,  \* the attempt that is open or was the last one
    bought,   \* attempt -> shares bought
    held      \* shares held

tradeVars == <<stage, attempt, bought, held>>

Stages == {"idle", "open", "stopped", "done"}

TradeInit ==
    /\ stage = "idle" /\ attempt = 0 /\ held = 0
    /\ bought = [a \in 1..2 |-> 0]

Open ==
    /\ \/ stage = "idle" /\ attempt = 0
       \/ stage = "stopped" /\ attempt = 1
    /\ stage' = "open" /\ attempt' = attempt + 1
    /\ UNCHANGED <<bought, held>>

(* The entry was refused before it reached the venue.                      *)
Withdraw ==
    /\ stage = "open" /\ bought[attempt] = 0
    /\ stage' = IF attempt = 1 THEN "idle" ELSE "stopped"
    /\ attempt' = attempt - 1
    /\ UNCHANGED <<bought, held>>

Buy ==
    /\ stage = "open"
    /\ \E k \in 1..(Qty - bought[attempt]) :
          /\ bought' = [bought EXCEPT ![attempt] = @ + k]
          /\ held' = held + k
    /\ UNCHANGED <<stage, attempt>>

Sell ==
    /\ stage = "open"
    /\ \E k \in 1..held : held' = held - k
    /\ UNCHANGED <<stage, attempt, bought>>

Stop ==
    /\ stage = "open" /\ attempt = 1 /\ bought[1] > 0 /\ held = 0
    /\ stage' = "stopped"
    /\ UNCHANGED <<attempt, bought, held>>

Finish ==
    /\ stage = "open" /\ held = 0
    /\ stage' = "done"
    /\ UNCHANGED <<attempt, bought, held>>

TradeNext == Open \/ Withdraw \/ Buy \/ Sell \/ Stop \/ Finish

TradeSpec == TradeInit /\ [][TradeNext]_tradeVars
=============================================================================
