--------------------------- MODULE MCModernMonitor ---------------------------
(***************************************************************************)
(* ModernMonitor for TLC.  The constants come from the .cfg files; here    *)
(* are the statements that only a small instance is asked about.           *)
(***************************************************************************)
EXTENDS ModernMonitor

(* An explicit quantity cannot open a short: the account is never negative.*)
NeverShort == held >= 0

(* "confirmed filled inventory disagrees with flat position lookup" is     *)
(* raised only when they disagree, that is when shares are still held.     *)
FlatDisagreementIsReal == fault = "disagree" => held # 0
=============================================================================
