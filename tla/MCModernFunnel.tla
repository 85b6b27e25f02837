--------------------------- MODULE MCModernFunnel ---------------------------
(* ModernFunnel on a small instance: see the .cfg file.                    *)
EXTENDS ModernFunnel

CONSTANTS t1, t2, none, some

(* Whatever the waves find is followed to 9:35; from there on only days    *)
(* whose first two waves found some, the final rank and the decision still *)
(* turning out either way.                                                 *)
FollowedDays == \A s \in {"first_wave", "second_wave"} :
    phase >= 4 /\ file[s].frozen => file[s].pool = some

(* A stage process that lingers is followed one phase past its last window. *)
FollowedStages == \A p \in Ticks : work[p].pc # "idle" =>
    /\ work[p].stage = "first_wave" => phase <= 3
    /\ work[p].stage # Open => phase <= Session
=============================================================================
