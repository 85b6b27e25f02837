-------------------------- MODULE IbkrDesk_proofs --------------------------
(***************************************************************************)
(* What holds of IbkrDesk for any accounts, any client order ids and any   *)
(* quantities, whether or not a snapshot races with a fill:                *)
(*                                                                         *)
(*   DeskTypeCorrect       Spec => []TypeOK                                *)
(*   OneUncertainCorrect   Spec => []OneUncertain                          *)
(*   LedgerHonestCorrect   Spec => []LedgerHonest                          *)
(*   DeskIsAnOrderJournal  Spec => ImplementsOrderJournal                  *)
(***************************************************************************)
EXTENDS IbkrDesk, TLAPS

(* What the command that holds the lock knows about its order: a submission *)
(* reaches the ledger only if no order was uncertain when it started, and   *)
(* from the row on it is itself the uncertain one.                          *)
CommandInv ==
    /\ kind \in {"preview", "submit"} => order \in Orders
    /\ pc \in {"what_if", "journal", "place", "await"} =>
          acct \in Accounts /\ kind \in {"preview", "submit"}
    /\ pc \in {"journal", "place", "await"} => kind = "submit"
    /\ kind = "submit" /\ pc \notin {"place", "await"} =>
          \A k \in Keys : row[k].st \notin Uncertain
    /\ pc \in {"place", "await"} => row[Key].st = "submitting"
    /\ pc = "place" => placed[Key] = 0
    /\ pc = "await" => asked = Key
    /\ pc = "completed" => key \in todo
    /\ \A k \in todo : row[k].st \in Uncertain

(* An order was sent once if TWS knows it, and only after it had a row.    *)
SentInv ==
    \A k \in Keys :
        /\ placed[k] \in {0, 1}
        /\ row[k].st = "none" => placed[k] = 0
        /\ placed[k] = 0 => tws[k].st = "none"
        /\ tws[k].st \in {"inflight", "working"} => tws[k].left > 0

(* The event that was heard is of the order waited for, and is what TWS    *)
(* made of it; a refusal may also be an error told of an order it has.     *)
HeardInv ==
    reply # "none" =>
        /\ asked \in Keys
        /\ reply = "rejected" => tws[asked].st = "refused" \/ asked \in erred
        /\ reply \in {"submitted", "raw"} => tws[asked].st \in Taken
        /\ reply \in Completed => tws[asked].st = reply

IInv ==
    /\ TypeOK
    /\ CommandInv
    /\ SentInv
    /\ HeardInv
    /\ OneUncertain
    /\ LedgerHonest

(* A row that was written has an intent and a status other than none.      *)
Written == \A k \in Keys : row[k].st = "none" <=> row[k].intent = NoIntent

(* The first state of the desk satisfies the invariant. *)
LEMMA InitInv == Init => IInv
<1> SUFFICES ASSUME Init PROVE IInv
  OBVIOUS
<1> USE DEF Init, NoRow, NoOrder
<1>1. TypeOK
  <2>1. pos \in [Accounts -> Int]
    BY QtyAssumption
  <2>2. tws \in [Keys -> [st : Statuses, side : Sides, qty : Nat, left : Nat]]
    BY DEF Statuses, Taken, Sides
  <2>3. row \in [Keys -> [st : {"none"} \cup Uncertain \cup Certain,
                          intent : Intents]]
    BY DEF Intents
  <2>4. placed \in [Keys -> Nat]
    OBVIOUS
  <2>5. preview \in [id : AnyAccount, intent : Intents]
    BY DEF NoPreview, AnyAccount, Intents
  <2>6. QED
    BY <2>1, <2>2, <2>3, <2>4, <2>5 DEF TypeOK, AnyAccount, Intents
<1>2. CommandInv
  BY DEF CommandInv, Uncertain
<1>3. SentInv
  BY DEF SentInv
<1>4. HeardInv
  BY DEF HeardInv
<1>5. OneUncertain /\ LedgerHonest
  BY DEF OneUncertain, LedgerHonest, Uncertain, Completed
<1>6. QED
  BY <1>1, <1>2, <1>3, <1>4, <1>5 DEF IInv

-----------------------------------------------------------------------------
SeenType == (Accounts \X Nat \X Nat) \cup {NoKey}

(* Steps that leave the ledger and TWS alone keep what is said of them.    *)
LEMMA QuietFrame ==
    ASSUME SentInv, HeardInv, OneUncertain, LedgerHonest,
           UNCHANGED <<tws, erred, row, placed>>,
           UNCHANGED <<asked, reply>> \/ reply' = "none"
    PROVE  SentInv' /\ HeardInv' /\ OneUncertain' /\ LedgerHonest'
<1>1. SentInv'
  BY DEF SentInv
<1>2. HeardInv'
  BY DEF HeardInv
<1>3. OneUncertain' /\ LedgerHonest'
  BY DEF OneUncertain, LedgerHonest
<1>4. QED
  BY <1>1, <1>2, <1>3

(* A look at the desk, or a command that is turned down, sends nothing.    *)
LEMMA LookStep == ASSUME IInv, Look PROVE IInv'
<1> USE DEF gatewayVars, adapterVars, cmdVars, deskVars, IInv
<1>1. TypeOK'
  <2>1. conn' \in BOOLEAN
    BY Zenon DEF TypeOK, Look, Synced
  <2>2. armed' \in BOOLEAN
    BY Zenon DEF TypeOK, Look, Synced, Lost
  <2>3. QED
    BY <2>1, <2>2 DEF TypeOK, Look, Synced, Lost, AnyAccount, Intents,
       NoPreview, Nobody, CommandInv
<1>2. CommandInv'
  BY DEF TypeOK, CommandInv, Look, Synced, Lost, Key
<1>3. SentInv' /\ HeardInv' /\ OneUncertain' /\ LedgerHonest'
  BY QuietFrame DEF Look, Synced, Lost
<1>4. QED
  BY <1>1, <1>2, <1>3

(* Disarming sends nothing.                                                *)
LEMMA DisarmStep == ASSUME IInv, Disarm PROVE IInv'
<1> USE DEF gatewayVars, adapterVars, cmdVars, deskVars, IInv
<1>1. TypeOK'
  <2>1. conn' \in BOOLEAN
    <3>1. conn \in BOOLEAN /\ up \in BOOLEAN
      BY DEF TypeOK
    <3>2. conn' = (conn /\ up)
      BY Zenon DEF Disarm
    <3>3. QED
      BY Zenon, <3>1, <3>2
  <2>2. armed' \in BOOLEAN
    BY Zenon DEF Disarm, Disarmed
  <2>3. preview' \in {NoPreview, preview}
    BY Zenon DEF Disarm
  <2>4. QED
    BY <2>1, <2>2, <2>3 DEF TypeOK, Disarm, Disarmed, Lost, AnyAccount,
       Intents, NoPreview, Nobody, CommandInv
<1>2. CommandInv'
  BY DEF TypeOK, CommandInv, Disarm, Disarmed, Lost, Key
<1>3. SentInv' /\ HeardInv' /\ OneUncertain' /\ LedgerHonest'
  BY QuietFrame DEF Disarm, Disarmed, Lost
<1>4. QED
  BY <1>1, <1>2, <1>3

(* Arming sends nothing by itself.                                         *)
LEMMA ArmStep == ASSUME IInv, Arm PROVE IInv'
<1> USE DEF gatewayVars, adapterVars, cmdVars, deskVars, IInv
<1>1. TypeOK'
  BY DEF TypeOK, Arm, Connected, AnyAccount, Intents, NoPreview, Nobody,
     CommandInv
<1>2. CommandInv'
  BY DEF TypeOK, CommandInv, Arm, Connected, Key
<1>3. SentInv' /\ HeardInv' /\ OneUncertain' /\ LedgerHonest'
  BY QuietFrame DEF Arm, Connected
<1>4. QED
  BY <1>1, <1>2, <1>3

(* A disconnection leaves the ledger as it is.                             *)
LEMMA DisconnectStep == ASSUME IInv, Disconnect PROVE IInv'
<1> USE DEF gatewayVars, adapterVars, cmdVars, deskVars, IInv
<1>1. TypeOK'
  BY DEF TypeOK, Disconnect, SocketClosed, Forgotten, Disarmed, PreviewDropped,
     AnyAccount, Intents, NoPreview, Nobody, CommandInv
<1>2. CommandInv'
  BY DEF TypeOK, CommandInv, Disconnect, SocketClosed, Forgotten, Disarmed,
     PreviewDropped, Key
<1>3. SentInv' /\ HeardInv' /\ OneUncertain' /\ LedgerHonest'
  BY QuietFrame DEF Disconnect, SocketClosed, Forgotten, Disarmed, PreviewDropped
<1>4. QED
  BY <1>1, <1>2, <1>3

(* A connection starts with everything but the ledger forgotten.           *)
LEMMA ConnectStep == ASSUME IInv, Connect PROVE IInv'
<1> USE DEF gatewayVars, adapterVars, cmdVars, deskVars, IInv
<1>1. TypeOK'
  BY DEF TypeOK, Connect, Forgotten, Disarmed, PreviewDropped, Start, Return, AnyAccount,
     Intents, NoPreview, Nobody, CommandInv
<1>2. CommandInv'
  BY DEF TypeOK, CommandInv, Connect, Forgotten, Disarmed, PreviewDropped, Start, Return,
     Key
<1>3. SentInv' /\ HeardInv' /\ OneUncertain' /\ LedgerHonest'
  BY QuietFrame DEF Connect, Forgotten, Disarmed, PreviewDropped, Start, Return
<1>4. QED
  BY <1>1, <1>2, <1>3

(* Binding looks up uncertain orders only.                                 *)
LEMMA BindStep == ASSUME IInv, Bind PROVE IInv'
<1> USE DEF gatewayVars, adapterVars, cmdVars, deskVars, IInv
<1>1. TypeOK'
  BY DEF TypeOK, Bind, Connected, Disarmed, PreviewDropped, LookUp,
     UncertainOf, AnyAccount, Intents, NoPreview, Nobody, CommandInv
<1>2. CommandInv'
  BY DEF TypeOK, CommandInv, Bind, Connected, Disarmed, PreviewDropped, LookUp,
     UncertainOf, Key
<1>3. SentInv' /\ HeardInv' /\ OneUncertain' /\ LedgerHonest'
  BY QuietFrame DEF Bind, Connected, Disarmed, PreviewDropped, LookUp,
     UncertainOf
<1>4. QED
  BY <1>1, <1>2, <1>3

(* A recovery looks up uncertain orders only.                              *)
LEMMA RecoverStep == ASSUME IInv, Recover PROVE IInv'
<1> USE DEF gatewayVars, adapterVars, cmdVars, deskVars, IInv
<1>1. TypeOK'
  BY DEF TypeOK, Recover, Connected, Disarmed, PreviewDropped, LookUp,
     UncertainOf, AnyAccount, Intents, NoPreview, Nobody, CommandInv
<1>2. CommandInv'
  BY DEF TypeOK, CommandInv, Recover, Connected, Disarmed, PreviewDropped,
     LookUp, UncertainOf, Key
<1>3. SentInv' /\ HeardInv' /\ OneUncertain' /\ LedgerHonest'
  BY QuietFrame DEF Recover, Connected, Disarmed, PreviewDropped, LookUp,
     UncertainOf
<1>4. QED
  BY <1>1, <1>2, <1>3

(* A preview starts with no order uncertain.                               *)
LEMMA PreviewOrderStep == ASSUME NEW o \in Orders, IInv, Preview(o) PROVE IInv'
<1> USE DEF gatewayVars, adapterVars, cmdVars, deskVars, IInv
<1>1. TypeOK'
  BY DEF TypeOK, Preview, Ready, Connected, Synced, Lost, Start, AnyAccount,
     Intents, NoPreview, Nobody, CommandInv
<1>2. CommandInv'
  BY DEF TypeOK, CommandInv, Preview, Ready, Connected, Synced, Lost, Start,
     Key
<1>3. SentInv' /\ HeardInv' /\ OneUncertain' /\ LedgerHonest'
  BY QuietFrame DEF Preview, Ready, Connected, Synced, Lost, Start
<1>4. QED
  BY <1>1, <1>2, <1>3

(* A submission starts with no order uncertain.                            *)
LEMMA SubmitOrderStep == ASSUME NEW o \in Orders, IInv, Submit(o) PROVE IInv'
<1> USE DEF gatewayVars, adapterVars, cmdVars, deskVars, IInv
<1>1. TypeOK'
  BY DEF TypeOK, Submit, Ready, Connected, RecoveryRequired, Start,
     PreviewDropped, AnyAccount, Intents, NoPreview, Nobody, CommandInv
<1>2. CommandInv'
  BY DEF TypeOK, CommandInv, Submit, Ready, Connected, RecoveryRequired, Start,
     PreviewDropped, Key
<1>3. SentInv' /\ HeardInv' /\ OneUncertain' /\ LedgerHonest'
  BY QuietFrame DEF Submit, Ready, Connected, RecoveryRequired, Start,
     PreviewDropped
<1>4. QED
  BY <1>1, <1>2, <1>3

(* The first half of a snapshot.                                           *)
LEMMA ReadPositionsStep == ASSUME IInv, ReadPositions PROVE IInv'
<1> USE DEF gatewayVars, adapterVars, cmdVars, deskVars, IInv
<1>1. TypeOK'
  <2>1. seen' \in SeenType
    <3>1. login \in Accounts /\ Long(pos[login]) \in Nat
      BY DEF TypeOK, Long
    <3>2. QED
      BY <3>1 DEF ReadPositions, PositionsRead, SeenType
  <2>2. QED
    BY <2>1 DEF TypeOK, ReadPositions, Goto, SeenType
<1>2. CommandInv'
  BY DEF TypeOK, CommandInv, ReadPositions, PositionsRead, Goto, Key
<1>3. SentInv' /\ HeardInv' /\ OneUncertain' /\ LedgerHonest'
  BY QuietFrame DEF ReadPositions, PositionsRead, Goto
<1>4. QED
  BY <1>1, <1>2, <1>3

(* The second half of a snapshot, and what the command does with it.       *)
LEMMA ReadOrdersStep == ASSUME IInv, ReadOrders PROVE IInv'
<1> USE DEF gatewayVars, adapterVars, cmdVars, deskVars, IInv
<1>1. TypeOK'
  <2> USE DEF ReadOrders, TypeOK
  <2>1. CASE kind = "connect" /\ bound = login
    BY <2>1 DEF ConnectGoesOn, OrderGoesOn, ReceiptReturned, LookUp,
       UncertainOf, AnyAccount, Intents
  <2>2. CASE kind = "connect" /\ bound # login
    BY <2>2 DEF ConnectGoesOn, OrderGoesOn, ReceiptReturned, Return,
       AnyAccount, Intents
  <2>3. CASE kind # "connect"
    <3>1. Return \/ Goto("what_if")
      BY <2>3 DEF ConnectGoesOn, OrderGoesOn, ReceiptReturned
    <3>2. conn' = conn
      BY <2>3 DEF ConnectGoesOn, OrderGoesOn, ReceiptReturned
    <3>3. QED
      BY <3>1, <3>2 DEF Return, Goto, AnyAccount, Intents
  <2>4. QED
    BY <2>1, <2>2, <2>3
<1>2. CommandInv'
  BY DEF TypeOK, CommandInv, ReadOrders, ConnectGoesOn, OrderGoesOn,
     ReceiptReturned, LookUp, UncertainOf, Return, Goto, Key
<1>3. SentInv' /\ HeardInv' /\ OneUncertain' /\ LedgerHonest'
  BY QuietFrame DEF ReadOrders, ConnectGoesOn, OrderGoesOn, ReceiptReturned,
     LookUp, UncertainOf, Return, Goto
<1>4. QED
  BY <1>1, <1>2, <1>3

(* A snapshot of another account ends the command.                         *)
LEMMA AccountMismatchStep == ASSUME IInv, AccountMismatch PROVE IInv'
<1> USE DEF gatewayVars, adapterVars, cmdVars, deskVars, IInv
<1>1. TypeOK'
  BY DEF TypeOK, AccountMismatch, SocketClosed, Forgotten, Disarmed, PreviewDropped,
     Return, AnyAccount, Intents, NoPreview, Nobody, CommandInv
<1>2. CommandInv'
  BY DEF TypeOK, CommandInv, AccountMismatch, SocketClosed, Forgotten, Disarmed,
     PreviewDropped, Return, Key
<1>3. SentInv' /\ HeardInv' /\ OneUncertain' /\ LedgerHonest'
  BY QuietFrame DEF AccountMismatch, SocketClosed, Forgotten, Disarmed, PreviewDropped,
     Return
<1>4. QED
  BY <1>1, <1>2, <1>3

(* A snapshot that fails ends the command.                                 *)
LEMMA SnapshotFailsStep == ASSUME IInv, SnapshotFails PROVE IInv'
<1> USE DEF gatewayVars, adapterVars, cmdVars, deskVars, IInv
<1>1. TypeOK'
  <2>1. up' \in BOOLEAN
    <3>1. up \in BOOLEAN
      BY DEF TypeOK
    <3>2. up' = up \/ up' = FALSE
      BY Zenon DEF SnapshotFails, SocketClosed, Forgotten, CallFails
    <3>3. QED
      BY Zenon, <3>1, <3>2
  <2>2. seen' = NoKey /\ asked' \in {asked, NoKey} /\ reply' \in {reply, "none"}
    BY Zenon DEF SnapshotFails, SocketClosed, Forgotten
  <2>3. QED
    BY <2>1, <2>2 DEF TypeOK, SnapshotFails, SocketClosed, Forgotten, CallFails, Return,
       AnyAccount, Intents, NoPreview, Nobody, CommandInv
<1>2. CommandInv'
  BY DEF TypeOK, CommandInv, SnapshotFails, SocketClosed, Forgotten, CallFails, Return,
     Key
<1>3. SentInv' /\ HeardInv' /\ OneUncertain' /\ LedgerHonest'
  BY QuietFrame DEF SnapshotFails, SocketClosed, Forgotten, CallFails, Return
<1>4. QED
  BY <1>1, <1>2, <1>3

(* A simulated order leaves the ledger as it is.                           *)
LEMMA WhatIfAcceptsStep == ASSUME IInv, WhatIfAccepts PROVE IInv'
<1> USE DEF gatewayVars, adapterVars, cmdVars, deskVars, IInv
<1>1. TypeOK'
  BY DEF TypeOK, WhatIfAccepts, Return, Goto, AnyAccount, Intents, NoPreview,
     Nobody, CommandInv
<1>2. CommandInv'
  BY DEF TypeOK, CommandInv, WhatIfAccepts, Return, Goto, Key
<1>3. SentInv' /\ HeardInv' /\ OneUncertain' /\ LedgerHonest'
  BY QuietFrame DEF WhatIfAccepts, Return, Goto
<1>4. QED
  BY <1>1, <1>2, <1>3

(* A simulated order that is refused ends the command.                     *)
LEMMA WhatIfRefusesStep == ASSUME IInv, WhatIfRefuses PROVE IInv'
<1> USE DEF gatewayVars, adapterVars, cmdVars, deskVars, IInv
<1>1. TypeOK'
  <2>1. up' \in BOOLEAN
    BY Zenon DEF TypeOK, WhatIfRefuses, CallFails
  <2>2. QED
    BY <2>1 DEF TypeOK, WhatIfRefuses, CallFails, Return, AnyAccount, Intents,
       NoPreview, Nobody, CommandInv
<1>2. CommandInv'
  BY DEF TypeOK, CommandInv, WhatIfRefuses, CallFails, Return, Key
<1>3. SentInv' /\ HeardInv' /\ OneUncertain' /\ LedgerHonest'
  BY QuietFrame DEF WhatIfRefuses, CallFails, Return
<1>4. QED
  BY <1>1, <1>2, <1>3

(* An order that is not open is looked for among the completed ones.       *)
LEMMA NotOpenStep == ASSUME IInv, NotOpen PROVE IInv'
<1> USE DEF gatewayVars, adapterVars, cmdVars, deskVars, IInv
<1>1. TypeOK'
  BY DEF TypeOK, NotOpen, AnyAccount, Intents, NoPreview, Nobody, CommandInv
<1>2. CommandInv'
  BY DEF TypeOK, CommandInv, NotOpen, Key
<1>3. SentInv' /\ HeardInv' /\ OneUncertain' /\ LedgerHonest'
  BY QuietFrame DEF NotOpen
<1>4. QED
  BY <1>1, <1>2, <1>3

(* A lookup that raises leaves the orders as they were.                    *)
LEMMA LookupRaisesStep == ASSUME IInv, LookupRaises PROVE IInv'
<1> USE DEF gatewayVars, adapterVars, cmdVars, deskVars, IInv
<1>1. TypeOK'
  BY DEF TypeOK, LookupRaises, Return, AnyAccount, Intents, NoPreview, Nobody,
     CommandInv
<1>2. CommandInv'
  BY DEF TypeOK, CommandInv, LookupRaises, Return, Key
<1>3. SentInv' /\ HeardInv' /\ OneUncertain' /\ LedgerHonest'
  BY QuietFrame DEF LookupRaises, Return
<1>4. QED
  BY <1>1, <1>2, <1>3

(* A recovery ends when every order was looked up.                         *)
LEMMA RecoveryEndsStep == ASSUME IInv, RecoveryEnds PROVE IInv'
<1> USE DEF gatewayVars, adapterVars, cmdVars, deskVars, IInv
<1>1. TypeOK'
  BY DEF TypeOK, RecoveryEnds, Return, AnyAccount, Intents, NoPreview, Nobody,
     CommandInv
<1>2. CommandInv'
  BY DEF TypeOK, CommandInv, RecoveryEnds, Return, Key
<1>3. SentInv' /\ HeardInv' /\ OneUncertain' /\ LedgerHonest'
  BY QuietFrame DEF RecoveryEnds, Return
<1>4. QED
  BY <1>1, <1>2, <1>3

(* A restart leaves the ledger as it is.                                   *)
LEMMA RestartStep == ASSUME IInv, Restart PROVE IInv'
<1> USE DEF gatewayVars, adapterVars, cmdVars, deskVars, IInv
<1>1. TypeOK'
  BY DEF TypeOK, Restart, SocketClosed, Forgotten, Disarmed, PreviewDropped, Return,
     AnyAccount, Intents, NoPreview, Nobody, CommandInv
<1>2. CommandInv'
  BY DEF TypeOK, CommandInv, Restart, SocketClosed, Forgotten, Disarmed, PreviewDropped,
     Return, Key
<1>3. SentInv' /\ HeardInv' /\ OneUncertain' /\ LedgerHonest'
  BY QuietFrame DEF Restart, SocketClosed, Forgotten, Disarmed, PreviewDropped, Return
<1>4. QED
  BY <1>1, <1>2, <1>3

-----------------------------------------------------------------------------
(* Steps of TWS: the desk does not notice them.                            *)
DeskIdle == UNCHANGED <<deskVars, cmdVars, row, placed>>

(* What TWS does leaves what the command knows as it is. *)
LEMMA GatewayFrame ==
    ASSUME CommandInv, OneUncertain, DeskIdle, UNCHANGED asked
    PROVE  CommandInv' /\ OneUncertain'
  BY DEF CommandInv, OneUncertain, DeskIdle, deskVars, cmdVars, Key

Replies == {"none", "submitted", "raw", "filled", "cancelled", "rejected"}
TwsOrder == [st : Statuses, side : Sides, qty : Nat, left : Nat]

(* It leaves the types of the variables of the desk as they are. *)
LEMMA GatewayTypes ==
    ASSUME TypeOK, DeskIdle, seen' \in SeenType, UNCHANGED asked,
           erred' \subseteq Keys, login' \in Accounts, pos' \in [Accounts -> Int],
           tws' \in [Keys -> TwsOrder], up' \in BOOLEAN, reply' \in Replies
    PROVE  TypeOK'
  BY DEF TypeOK, DeskIdle, deskVars, cmdVars, TwsOrder, Replies, SeenType

(* What the words TWS uses of an order say of it.                          *)
LEMMA WordsHonest ==
    ASSUME NEW s \in DOMAIN Words, NEW word \in Words[s]
    PROVE  /\ s \in {"working", "filled", "cancelled", "refused"}
           /\ word \in Certain /\ word \in Replies
           /\ word \in Completed => s = word
           /\ word = "rejected" => s = "refused"
           /\ JournalOf(word) = (IF s = "refused" THEN "refused" ELSE "taken")
<1>1. s \in {"working", "filled", "cancelled", "refused"}
  BY DEF Words
<1>2. CASE s = "working"
  <2>1. word \in Words.working
    BY <1>2
  <2>2. QED
    BY <1>2, <2>1 DEF Words, Other, Certain, Uncertain, Completed, Replies, JournalOf
<1>3. CASE s = "filled"
  <2>1. word \in Words.filled
    BY <1>3
  <2>2. QED
    BY <1>3, <2>1 DEF Words, Other, Certain, Uncertain, Completed, Replies, JournalOf
<1>4. CASE s = "cancelled"
  <2>1. word \in Words.cancelled
    BY <1>4
  <2>2. QED
    BY <1>4, <2>1 DEF Words, Other, Certain, Uncertain, Completed, Replies, JournalOf
<1>5. CASE s = "refused"
  <2>1. word \in Words.refused
    BY <1>5
  <2>2. QED
    BY <1>5, <2>1 DEF Words, Other, Certain, Uncertain, Completed, Replies, JournalOf
<1>6. QED
  BY <1>1, <1>2, <1>3, <1>4, <1>5

LEMMA CompletedWordsHonest ==
    ASSUME NEW s \in DOMAIN CompletedWords, NEW word \in CompletedWords[s]
    PROVE  /\ s \in {"filled", "cancelled", "refused"}
           /\ word \in Certain
           /\ word \in Completed => s = word
           /\ JournalOf(word) = (IF s = "refused" THEN "refused" ELSE "taken")
<1>1. s \in {"filled", "cancelled", "refused"}
  BY DEF CompletedWords
<1>2. CASE s = "filled"
  <2>1. word \in CompletedWords.filled
    BY <1>2
  <2>2. QED
    BY <1>2, <2>1 DEF CompletedWords, Other, Certain, Uncertain, Completed, JournalOf
<1>3. CASE s = "cancelled"
  <2>1. word \in CompletedWords.cancelled
    BY <1>3
  <2>2. QED
    BY <1>3, <2>1 DEF CompletedWords, Other, Certain, Uncertain, Completed, JournalOf
<1>4. CASE s = "refused"
  <2>1. word \in CompletedWords.refused
    BY <1>4
  <2>2. QED
    BY <1>4, <2>1 DEF CompletedWords, Other, Certain, Uncertain, Completed, JournalOf
<1>5. QED
  BY <1>1, <1>2, <1>3, <1>4

(* An order TWS tells of is heard of with one of those words, or not.      *)
LEMMA Told ==
    ASSUME NEW k \in Keys, NEW s \in {"working", "filled", "cancelled", "refused"},
           Tell(k, Words[s]), reply \in Replies
    PROVE  /\ reply' \in Replies
           /\ \/ reply' = reply
              \/ /\ asked = k
                 /\ reply' \in Completed => s = reply'
                 /\ reply' = "rejected" => s = "refused"
                 /\ reply' \in {"submitted", "raw"} => s = "working"
                 /\ reply' # "none"
  BY DEF Tell, Hears, Words, Other, Replies, Completed

(* The status of an order becomes another one. *)
LEMMA StatusType ==
    ASSUME tws \in [Keys -> TwsOrder], NEW k \in Keys, NEW s \in Statuses,
           tws' = [tws EXCEPT ![k].st = s]
    PROVE  tws' \in [Keys -> TwsOrder]
  BY DEF TwsOrder

(* An order is taken: it was sent, and its event is the one heard.         *)
LEMMA AcceptStep == ASSUME NEW k \in Keys, IInv, Accept(k), DeskIdle PROVE IInv'
<1> USE DEF IInv
<1>0. /\ reply' \in Replies
      /\ \/ reply' = reply
         \/ /\ asked = k
            /\ reply' \in Completed => "working" = reply'
            /\ reply' = "rejected" => "working" = "refused"
            /\ reply' \in {"submitted", "raw"} => "working" = "working"
            /\ reply' # "none"
  <2>1. Tell(k, Words["working"]) /\ reply \in Replies
    BY DEF Accept, TypeOK, Replies
  <2>2. QED
    BY <2>1, Told
<1>1. TypeOK'
  <2>1. tws' \in [Keys -> TwsOrder]
    <3>1. tws \in [Keys -> TwsOrder]
      BY DEF TypeOK, TwsOrder
    <3>2. "working" \in Statuses /\ tws' = [tws EXCEPT ![k].st = "working"]
      BY DEF Accept, Statuses, Taken
    <3>3. QED
      BY <3>1, <3>2, StatusType
  <2>2. seen' \in SeenType /\ UNCHANGED asked /\ erred' \subseteq Keys /\ login' \in Accounts
    BY DEF TypeOK, SeenType, Accept, Tell
  <2>3. pos' \in [Accounts -> Int]
    BY DEF TypeOK, Accept, Tell
  <2>4. reply' \in Replies
    BY <1>0
  <2>5. up' \in BOOLEAN
    BY Zenon DEF TypeOK, Accept, Tell
  <2>6. QED
    BY <2>1, <2>2, <2>3, <2>4, <2>5, GatewayTypes
<1>2. CommandInv' /\ OneUncertain'
  BY GatewayFrame DEF Accept, Tell
<1>3. SentInv'
  BY DEF TypeOK, Accept, Tell, DeskIdle, SentInv, Statuses
<1>4. HeardInv'
  BY <1>0 DEF TypeOK, Accept, HeardInv, Completed, Taken
<1>5. LedgerHonest'
  BY DEF TypeOK, Accept, Tell, DeskIdle, LedgerHonest, Completed
<1>6. QED
  BY <1>1, <1>2, <1>3, <1>4, <1>5

(* An order is refused, for good.                                          *)
LEMMA RefuseStep == ASSUME NEW k \in Keys, IInv, Refuse(k), DeskIdle PROVE IInv'
<1> USE DEF IInv
<1>0. /\ reply' \in Replies
      /\ \/ reply' = reply
         \/ /\ asked = k
            /\ reply' \in Completed => "refused" = reply'
            /\ reply' = "rejected" => "refused" = "refused"
            /\ reply' \in {"submitted", "raw"} => "refused" = "working"
            /\ reply' # "none"
  <2>1. Tell(k, Words["refused"]) /\ reply \in Replies
    BY DEF Refuse, TypeOK, Replies
  <2>2. QED
    BY <2>1, Told
<1>1. TypeOK'
  <2>1. tws' \in [Keys -> TwsOrder]
    <3>1. tws \in [Keys -> TwsOrder]
      BY DEF TypeOK, TwsOrder
    <3>2. "refused" \in Statuses /\ tws' = [tws EXCEPT ![k].st = "refused"]
      BY DEF Refuse, Statuses, Taken
    <3>3. QED
      BY <3>1, <3>2, StatusType
  <2>2. seen' \in SeenType /\ UNCHANGED asked /\ erred' \subseteq Keys /\ login' \in Accounts
    BY DEF TypeOK, SeenType, Refuse, Tell
  <2>3. pos' \in [Accounts -> Int]
    BY DEF TypeOK, Refuse, Tell
  <2>4. reply' \in Replies
    BY <1>0
  <2>5. up' \in BOOLEAN
    BY Zenon DEF TypeOK, Refuse, Tell
  <2>6. QED
    BY <2>1, <2>2, <2>3, <2>4, <2>5, GatewayTypes
<1>2. CommandInv' /\ OneUncertain'
  BY GatewayFrame DEF Refuse, Tell
<1>3. SentInv'
  BY DEF TypeOK, Refuse, Tell, DeskIdle, SentInv, Statuses
<1>4. HeardInv'
  BY <1>0 DEF TypeOK, Refuse, HeardInv, Completed, Taken
<1>5. LedgerHonest'
  BY DEF TypeOK, Refuse, Tell, DeskIdle, LedgerHonest, Completed
<1>6. QED
  BY <1>1, <1>2, <1>3, <1>4, <1>5

(* An order that is lost was never answered.                               *)
LEMMA DropStep == ASSUME NEW k \in Keys, IInv, Drop(k), DeskIdle PROVE IInv'
<1> USE DEF IInv
<1>1. TypeOK'
  <2>1. tws' \in [Keys -> TwsOrder]
    BY DEF TypeOK, TwsOrder, Drop, NoOrder, Statuses, Sides
  <2>2. seen' \in SeenType /\ UNCHANGED asked /\ erred' \subseteq Keys /\ login' \in Accounts
    BY DEF TypeOK, SeenType, Drop, NoOrder, adapterVars
  <2>3. pos' \in [Accounts -> Int]
    BY DEF TypeOK, Drop, NoOrder, adapterVars
  <2>4. reply' \in Replies
    BY DEF TypeOK, Drop, NoOrder, adapterVars, Replies
  <2>5. up' \in BOOLEAN
    BY Zenon DEF TypeOK, Drop, NoOrder, adapterVars
  <2>6. QED
    BY <2>1, <2>2, <2>3, <2>4, <2>5, GatewayTypes
<1>2. CommandInv' /\ OneUncertain'
  BY GatewayFrame DEF Drop, NoOrder, adapterVars
<1>3. SentInv'
  BY DEF TypeOK, Drop, NoOrder, adapterVars, DeskIdle, SentInv, Statuses
<1>4. HeardInv'
  BY DEF TypeOK, Drop, NoOrder, adapterVars, HeardInv, Completed, Taken
<1>5. LedgerHonest'
  BY DEF TypeOK, Drop, NoOrder, adapterVars, DeskIdle, LedgerHonest, Completed
<1>6. QED
  BY <1>1, <1>2, <1>3, <1>4, <1>5

(* A share is executed; the last one fills the order.                      *)
LEMMA FillStep == ASSUME NEW k \in Keys, IInv, Fill(k), DeskIdle PROVE IInv'
<1> USE DEF IInv
<1>0. /\ reply' \in Replies
      /\ \/ reply' = reply
         \/ /\ asked = k
            /\ reply' \in Completed => tws'[k].st = reply'
            /\ reply' # "rejected"
            /\ reply' \in {"submitted", "raw"} => tws'[k].st = "working"
            /\ reply' # "none"
  <2>1. reply \in Replies /\ tws \in [Keys -> TwsOrder]
    BY DEF TypeOK, Replies, TwsOrder
  <2>2. CASE tws[k].left = 1
    <3>1. Tell(k, Words["filled"]) /\ tws'[k].st = "filled"
      BY <2>1, <2>2 DEF Fill, TwsOrder
    <3>2. QED
      BY <2>1, <3>1, Told DEF Replies
  <2>3. CASE tws[k].left # 1
    <3>1. Tell(k, Words["working"]) /\ tws'[k].st = "working"
      BY <2>1, <2>3 DEF Fill, TwsOrder
    <3>2. QED
      BY <2>1, <3>1, Told DEF Replies
  <2>4. QED
    BY <2>2, <2>3
<1>1. TypeOK'
  <2>1. tws' \in [Keys -> TwsOrder]
    <3>1. tws \in [Keys -> TwsOrder] /\ tws[k].left - 1 \in Nat
      BY DEF TypeOK, TwsOrder, Fill, SentInv
    <3>2. PICK s \in Statuses : tws' = [tws EXCEPT ![k].left = @ - 1, ![k].st = s]
      BY <3>1 DEF Fill, Statuses, Taken, TwsOrder
    <3>3. QED
      BY <3>1, <3>2 DEF TwsOrder
  <2>2. seen' \in SeenType /\ UNCHANGED asked /\ erred' \subseteq Keys /\ login' \in Accounts
    BY DEF TypeOK, SeenType, Fill, Tell
  <2>3. pos' \in [Accounts -> Int]
    <3>1. k[1] \in Accounts /\ pos \in [Accounts -> Int]
      BY DEF Keys, TypeOK
    <3>2. CASE tws[k].side = "BUY"
      BY <3>1, <3>2 DEF Fill
    <3>3. CASE tws[k].side # "BUY"
      BY <3>1, <3>3 DEF Fill
    <3>4. QED
      BY <3>2, <3>3
  <2>4. reply' \in Replies
    BY <1>0
  <2>5. up' \in BOOLEAN
    BY Zenon DEF TypeOK, Fill, Tell
  <2>6. QED
    BY <2>1, <2>2, <2>3, <2>4, <2>5, GatewayTypes
<1>2. CommandInv' /\ OneUncertain'
  BY GatewayFrame DEF Fill, Tell
<1>3. SentInv'
  BY DEF TypeOK, Fill, Tell, DeskIdle, SentInv, Statuses
<1>4. HeardInv'
  BY <1>0 DEF TypeOK, Fill, HeardInv, Completed, Taken
<1>5. LedgerHonest'
  BY DEF TypeOK, Fill, Tell, DeskIdle, LedgerHonest, Completed
<1>6. QED
  BY <1>1, <1>2, <1>3, <1>4, <1>5

(* An order is cancelled, for good.                                        *)
LEMMA CancelStep == ASSUME NEW k \in Keys, IInv, Cancel(k), DeskIdle PROVE IInv'
<1> USE DEF IInv
<1>0. /\ reply' \in Replies
      /\ \/ reply' = reply
         \/ /\ asked = k
            /\ reply' \in Completed => "cancelled" = reply'
            /\ reply' = "rejected" => "cancelled" = "refused"
            /\ reply' \in {"submitted", "raw"} => "cancelled" = "working"
            /\ reply' # "none"
  <2>1. Tell(k, Words["cancelled"]) /\ reply \in Replies
    BY DEF Cancel, TypeOK, Replies
  <2>2. QED
    BY <2>1, Told
<1>1. TypeOK'
  <2>1. tws' \in [Keys -> TwsOrder]
    <3>1. tws \in [Keys -> TwsOrder]
      BY DEF TypeOK, TwsOrder
    <3>2. "cancelled" \in Statuses /\ tws' = [tws EXCEPT ![k].st = "cancelled"]
      BY DEF Cancel, Statuses, Taken
    <3>3. QED
      BY <3>1, <3>2, StatusType
  <2>2. seen' \in SeenType /\ UNCHANGED asked /\ erred' \subseteq Keys /\ login' \in Accounts
    BY DEF TypeOK, SeenType, Cancel, Tell
  <2>3. pos' \in [Accounts -> Int]
    BY DEF TypeOK, Cancel, Tell
  <2>4. reply' \in Replies
    BY <1>0
  <2>5. up' \in BOOLEAN
    BY Zenon DEF TypeOK, Cancel, Tell
  <2>6. QED
    BY <2>1, <2>2, <2>3, <2>4, <2>5, GatewayTypes
<1>2. CommandInv' /\ OneUncertain'
  BY GatewayFrame DEF Cancel, Tell
<1>3. SentInv'
  BY DEF TypeOK, Cancel, Tell, DeskIdle, SentInv, Statuses
<1>4. HeardInv'
  BY <1>0 DEF TypeOK, Cancel, HeardInv, Completed, Taken
<1>5. LedgerHonest'
  BY DEF TypeOK, Cancel, Tell, DeskIdle, LedgerHonest, Completed
<1>6. QED
  BY <1>1, <1>2, <1>3, <1>4, <1>5

(* An error is told of an order TWS has: a refusal is heard.               *)
LEMMA WarnStep == ASSUME NEW k \in Keys, IInv, Warn(k), DeskIdle PROVE IInv'
<1> USE DEF IInv
<1>1. TypeOK'
  <2>1. /\ seen' \in SeenType /\ UNCHANGED asked /\ erred' \subseteq Keys
        /\ login' \in Accounts /\ pos' \in [Accounts -> Int]
        /\ tws' \in [Keys -> TwsOrder] /\ reply' \in Replies
    BY DEF TypeOK, SeenType, TwsOrder, Replies, Warn
  <2>2. up' \in BOOLEAN
    BY Zenon DEF TypeOK, Warn
  <2>3. QED
    BY <2>1, <2>2, GatewayTypes
<1>2. CommandInv' /\ OneUncertain'
  BY GatewayFrame DEF Warn
<1>3. SentInv' /\ LedgerHonest'
  BY DEF Warn, DeskIdle, SentInv, LedgerHonest
<1>4. HeardInv'
  BY DEF Warn, Hears, HeardInv, Completed
<1>5. QED
  BY <1>1, <1>2, <1>3, <1>4

(* One more row of a position changes no order.                            *)
LEMMA RowAgainStep == ASSUME IInv, RowAgain, DeskIdle PROVE IInv'
<1> USE DEF IInv
<1>1. TypeOK'
  <2>1. seen' \in SeenType
    <3>1. seen \in Accounts \X Nat \X Nat
      BY DEF TypeOK, RowAgain
    <3>2. seen[1] \in Accounts /\ seen[2] \in Nat /\ seen[3] \in Nat
      BY <3>1
    <3>3. Long(pos[seen[1]]) \in Nat
      BY <3>2 DEF TypeOK, Long
    <3>4. seen[2] + Long(pos[seen[1]]) \in Nat /\ seen[3] + 1 \in Nat
      BY <3>2, <3>3
    <3>5. QED
      BY <3>2, <3>4 DEF RowAgain, SeenType
  <2>2. /\ UNCHANGED asked /\ erred' \subseteq Keys
        /\ login' \in Accounts /\ pos' \in [Accounts -> Int]
        /\ tws' \in [Keys -> TwsOrder] /\ reply' \in Replies
    BY DEF TypeOK, TwsOrder, Replies, RowAgain, gatewayVars
  <2>3. up' \in BOOLEAN
    BY Zenon DEF TypeOK, RowAgain
  <2>4. QED
    BY <2>1, <2>2, <2>3, GatewayTypes
<1>2. CommandInv' /\ OneUncertain'
  BY GatewayFrame DEF RowAgain, gatewayVars
<1>3. SentInv' /\ LedgerHonest'
  BY DEF RowAgain, gatewayVars, DeskIdle, SentInv, LedgerHonest
<1>4. HeardInv'
  BY DEF RowAgain, gatewayVars, HeardInv
<1>5. QED
  BY <1>1, <1>2, <1>3, <1>4

(* A connection that goes changes no order.                                *)
LEMMA LoseConnectionStep == ASSUME IInv, LoseConnection, DeskIdle PROVE IInv'
<1> USE DEF IInv
<1>1. TypeOK'
  <2>1. tws' \in [Keys -> TwsOrder]
    BY DEF TypeOK, TwsOrder, LoseConnection, gatewayVars
  <2>2. seen' \in SeenType /\ UNCHANGED asked /\ erred' \subseteq Keys /\ login' \in Accounts
    BY DEF TypeOK, SeenType, LoseConnection, gatewayVars
  <2>3. pos' \in [Accounts -> Int]
    BY DEF TypeOK, LoseConnection, gatewayVars
  <2>4. reply' \in Replies
    BY DEF TypeOK, LoseConnection, gatewayVars, Replies
  <2>5. up' \in BOOLEAN
    BY DEF TypeOK, LoseConnection, gatewayVars
  <2>6. QED
    BY <2>1, <2>2, <2>3, <2>4, <2>5, GatewayTypes
<1>2. CommandInv' /\ OneUncertain'
  BY GatewayFrame DEF LoseConnection, gatewayVars
<1>3. SentInv'
  BY DEF TypeOK, LoseConnection, gatewayVars, DeskIdle, SentInv, Statuses
<1>4. HeardInv'
  BY DEF TypeOK, LoseConnection, gatewayVars, HeardInv, Completed
<1>5. LedgerHonest'
  BY DEF TypeOK, LoseConnection, gatewayVars, DeskIdle, LedgerHonest, Completed
<1>6. QED
  BY <1>1, <1>2, <1>3, <1>4, <1>5

(* Another account at TWS changes no order.                                *)
LEMMA ReloginStep == ASSUME NEW a \in Accounts, IInv, Relogin(a), DeskIdle PROVE IInv'
<1> USE DEF IInv
<1>1. TypeOK'
  <2>1. tws' \in [Keys -> TwsOrder]
    BY DEF TypeOK, TwsOrder, Relogin, adapterVars
  <2>2. seen' \in SeenType /\ UNCHANGED asked /\ erred' \subseteq Keys /\ login' \in Accounts
    BY DEF TypeOK, SeenType, Relogin, adapterVars
  <2>3. pos' \in [Accounts -> Int]
    BY DEF TypeOK, Relogin, adapterVars
  <2>4. reply' \in Replies
    BY DEF TypeOK, Relogin, adapterVars, Replies
  <2>5. up' \in BOOLEAN
    BY Zenon DEF TypeOK, Relogin, adapterVars
  <2>6. QED
    BY <2>1, <2>2, <2>3, <2>4, <2>5, GatewayTypes
<1>2. CommandInv' /\ OneUncertain'
  BY GatewayFrame DEF Relogin, adapterVars
<1>3. SentInv'
  BY DEF TypeOK, Relogin, adapterVars, DeskIdle, SentInv, Statuses
<1>4. HeardInv'
  BY DEF TypeOK, Relogin, adapterVars, HeardInv, Completed
<1>5. LedgerHonest'
  BY DEF TypeOK, Relogin, adapterVars, DeskIdle, LedgerHonest, Completed
<1>6. QED
  BY <1>1, <1>2, <1>3, <1>4, <1>5

-----------------------------------------------------------------------------
(* Steps that write the ledger or place the order.                         *)
RowType == [st : {"none"} \cup Uncertain \cup Certain, intent : Intents]

(* A new status for an uncertain order makes no other order uncertain.     *)
LEMMA StoredRow ==
    ASSUME TypeOK, OneUncertain, NEW k \in Keys, row[k].st \in Uncertain,
           NEW s \in Uncertain \cup Certain, Stored(k, s)
    PROVE  /\ row' \in [Keys -> RowType] /\ Written'
           /\ OneUncertain'
           /\ row'[k].st = s
           /\ \A j \in Keys \ {k} : row'[j] = row[j] /\ row[j].st \notin Uncertain
<1>1. row \in [Keys -> RowType]
  BY DEF TypeOK, RowType
<1>2. row' = [row EXCEPT ![k].st = s]
  BY DEF Stored
<1>3. row' \in [Keys -> RowType]
  BY <1>1, <1>2 DEF RowType
<1>w. Written'
  BY <1>1, <1>2 DEF TypeOK, Written, RowType, Uncertain, Certain
<1>4. row'[k].st = s /\ \A j \in Keys \ {k} : row'[j] = row[j]
  BY <1>1, <1>2 DEF RowType
<1>5. \A j \in Keys \ {k} : row[j].st \notin Uncertain
  BY DEF OneUncertain
<1>6. OneUncertain'
  BY <1>4, <1>5 DEF OneUncertain
<1>7. QED
  BY <1>3, <1>w, <1>4, <1>5, <1>6

(* A command in progress keeps the types if what it touches has them.      *)
LEMMA CommandTypes ==
    ASSUME TypeOK, UNCHANGED <<login, pos, erred, seen, conn, acct, bound, expected>>,
           row' \in [Keys -> RowType], Written', tws' \in [Keys -> TwsOrder],
           placed' \in [Keys -> Nat], up' \in BOOLEAN,
           asked' \in Keys \cup {NoKey}, reply' \in Replies,
           armed' \in BOOLEAN, preview' \in {preview, NoPreview},
           Return \/ Start("positions", "receipt", NoIntent)
           \/ Goto("place") \/ Goto("await")
           \/ (\E j \in Keys : LookUp({j}))
           \/ (pc' = "lookup" /\ todo' \in SUBSET todo /\ key' = NoKey
               /\ UNCHANGED <<kind, order>>)
    PROVE  TypeOK'
<1>1. /\ pc' \in {"idle", "positions", "place", "await", "lookup"}
      /\ kind' \in {kind, "none", "receipt", "recover"}
      /\ order' \in {order, NoIntent}
      /\ todo' \in SUBSET Keys
      /\ key' \in Keys \cup {NoKey}
  BY DEF TypeOK, Return, Start, Goto, LookUp
<1>2. QED
  BY <1>1 DEF TypeOK, RowType, Written, TwsOrder, Replies, NoPreview,
     AnyAccount, Intents

(* A row is written before the order is placed, and only where no order of  *)
(* the ledger is uncertain.                                                 *)
LEMMA JournalledStep == ASSUME IInv, Journal, Journalled PROVE IInv'
<1> USE DEF IInv
<1>0. Key \in Keys /\ order \in Orders /\ \A j \in Keys : row[j].st \notin Uncertain
  BY DEF CommandInv, Keys, Key, Orders, Journal
<1>r. row' = [row EXCEPT ![Key] = [st |-> "submitting", intent |-> order]]
  BY DEF Journalled
<1>s. row'[Key].st = "submitting" /\ \A j \in Keys \ {Key} : row'[j] = row[j]
  BY <1>0, <1>r DEF TypeOK
<1>1. TypeOK'
  <2>1. row' \in [Keys -> RowType] /\ Written'
    <3>1. row \in [Keys -> RowType]
      BY DEF TypeOK, RowType
    <3>2. [st |-> "submitting", intent |-> order] \in RowType
      BY <1>0 DEF RowType, Intents, Uncertain
    <3>3. order # NoIntent
      BY <1>0 DEF Orders, NoIntent
    <3>4. Written'
      BY <1>0, <1>s, <1>r, <3>1, <3>3 DEF TypeOK, Written
    <3>5. QED
      BY <1>0, <1>r, <3>1, <3>2, <3>4
  <2>2. tws' \in [Keys -> TwsOrder]
    BY DEF TypeOK, TwsOrder, Journal, Journalled, gatewayVars, adapterVars,
       Goto
  <2>3. placed' \in [Keys -> Nat]
    BY DEF TypeOK, Journal, Journalled, gatewayVars, adapterVars, Goto
  <2>4. up' \in BOOLEAN
    BY DEF TypeOK, Journal, Journalled, gatewayVars, adapterVars, Goto
  <2>5. armed' \in BOOLEAN
    BY DEF TypeOK, Journal, Journalled, gatewayVars, adapterVars, Goto
  <2>6. /\ UNCHANGED <<login, pos, erred, seen, conn, acct, bound, expected>>
        /\ asked' \in Keys \cup {NoKey} /\ reply' \in Replies
        /\ preview' \in {preview, NoPreview}
    BY DEF TypeOK, Replies, Journal, Journalled, gatewayVars, adapterVars, Goto
  <2>7. \/ Return \/ Start("positions", "receipt", NoIntent)
        \/ Goto("place") \/ Goto("await")
        \/ (\E j \in Keys : LookUp({j}))
        \/ (pc' = "lookup" /\ todo' \in SUBSET todo /\ key' = NoKey
            /\ UNCHANGED <<kind, order>>)
    BY DEF Journal, Journalled, gatewayVars, adapterVars, Goto
  <2>8. QED
    BY <2>1, <2>2, <2>3, <2>4, <2>5, <2>6, <2>7, CommandTypes
<1>2. CommandInv'
  <2>1. Key' = Key /\ UNCHANGED <<placed, asked, acct, kind, order, key, todo>> /\ pc' = "place"
    BY DEF Journal, Journalled, Goto, adapterVars, Key
  <2>2. kind = "submit" /\ acct \in Accounts /\ todo = {}
    BY <1>0 DEF CommandInv, Journal, TypeOK
  <2>3. placed[Key] = 0
    BY <1>0 DEF SentInv, Journalled, NoRow
  <2>4. QED
    BY <1>0, <1>s, <2>1, <2>2, <2>3 DEF CommandInv
<1>3. SentInv'
  BY <1>0, <1>s DEF SentInv, Journal, gatewayVars
<1>4. HeardInv'
  BY DEF HeardInv, Journal, gatewayVars, adapterVars
<1>5. OneUncertain' /\ LedgerHonest'
  BY <1>0, <1>s DEF OneUncertain, LedgerHonest, Completed, Journal, gatewayVars
<1>6. QED
  BY <1>1, <1>2, <1>3, <1>4, <1>5

(* An id that belongs to another intent ends the command.                  *)
LEMMA IdTakenStep == ASSUME IInv, Journal, IdTaken PROVE IInv'
<1> USE DEF IInv
<1>0. Key \in Keys
  BY DEF CommandInv, Keys, Key, Orders, Journal
<1>1. TypeOK'
  <2>1. row' \in [Keys -> RowType] /\ Written'
    BY DEF TypeOK, RowType, Written, Journal, IdTaken, gatewayVars, adapterVars, Return,
       Start, Disarmed, PreviewDropped
  <2>2. tws' \in [Keys -> TwsOrder]
    BY DEF TypeOK, TwsOrder, Journal, IdTaken, gatewayVars, adapterVars,
       Return, Start, Disarmed, PreviewDropped
  <2>3. placed' \in [Keys -> Nat]
    BY DEF TypeOK, Journal, IdTaken, gatewayVars, adapterVars, Return, Start,
       Disarmed, PreviewDropped
  <2>4. up' \in BOOLEAN
    BY DEF TypeOK, Journal, IdTaken, gatewayVars, adapterVars, Return, Start,
       Disarmed, PreviewDropped
  <2>5. armed' \in BOOLEAN
    BY DEF TypeOK, Journal, IdTaken, gatewayVars, adapterVars, Return, Start,
       Disarmed, PreviewDropped
  <2>6. /\ UNCHANGED <<login, pos, erred, seen, conn, acct, bound, expected>>
        /\ asked' \in Keys \cup {NoKey} /\ reply' \in Replies
        /\ preview' \in {preview, NoPreview}
    BY DEF TypeOK, Replies, Journal, IdTaken, gatewayVars, adapterVars, Return,
       Start, Disarmed, PreviewDropped
  <2>7. \/ Return \/ Start("positions", "receipt", NoIntent)
        \/ Goto("place") \/ Goto("await")
        \/ (\E j \in Keys : LookUp({j}))
        \/ (pc' = "lookup" /\ todo' \in SUBSET todo /\ key' = NoKey
            /\ UNCHANGED <<kind, order>>)
    BY <1>0 DEF Journal, IdTaken, gatewayVars, adapterVars
  <2>8. QED
    BY <2>1, <2>2, <2>3, <2>4, <2>5, <2>6, <2>7, CommandTypes
<1>2. CommandInv'
  BY <1>0 DEF CommandInv, Journal, IdTaken, gatewayVars, adapterVars, Return,
     Start, LookUp, Key
<1>3. SentInv' /\ HeardInv' /\ OneUncertain' /\ LedgerHonest'
  BY QuietFrame DEF Journal, IdTaken, gatewayVars, adapterVars
<1>4. QED
  BY <1>1, <1>2, <1>3

(* An order that has an answer is not placed again.                        *)
LEMMA AlreadySubmittedStep == ASSUME IInv, Journal, AlreadySubmitted PROVE IInv'
<1> USE DEF IInv
<1>0. Key \in Keys
  BY DEF CommandInv, Keys, Key, Orders, Journal
<1>1. TypeOK'
  <2>1. row' \in [Keys -> RowType] /\ Written'
    BY DEF TypeOK, RowType, Written, Journal, AlreadySubmitted, gatewayVars,
       adapterVars, Return, Start, Disarmed, PreviewDropped
  <2>2. tws' \in [Keys -> TwsOrder]
    BY DEF TypeOK, TwsOrder, Journal, AlreadySubmitted, gatewayVars,
       adapterVars, Return, Start, Disarmed, PreviewDropped
  <2>3. placed' \in [Keys -> Nat]
    BY DEF TypeOK, Journal, AlreadySubmitted, gatewayVars, adapterVars, Return,
       Start, Disarmed, PreviewDropped
  <2>4. up' \in BOOLEAN
    BY DEF TypeOK, Journal, AlreadySubmitted, gatewayVars, adapterVars, Return,
       Start, Disarmed, PreviewDropped
  <2>5. armed' \in BOOLEAN
    BY DEF TypeOK, Journal, AlreadySubmitted, gatewayVars, adapterVars, Return,
       Start, Disarmed, PreviewDropped
  <2>6. /\ UNCHANGED <<login, pos, erred, seen, conn, acct, bound, expected>>
        /\ asked' \in Keys \cup {NoKey} /\ reply' \in Replies
        /\ preview' \in {preview, NoPreview}
    BY DEF TypeOK, Replies, Journal, AlreadySubmitted, gatewayVars,
       adapterVars, Return, Start, Disarmed, PreviewDropped
  <2>7. \/ Return \/ Start("positions", "receipt", NoIntent)
        \/ Goto("place") \/ Goto("await")
        \/ (\E j \in Keys : LookUp({j}))
        \/ (pc' = "lookup" /\ todo' \in SUBSET todo /\ key' = NoKey
            /\ UNCHANGED <<kind, order>>)
    BY <1>0 DEF Journal, AlreadySubmitted, gatewayVars, adapterVars
  <2>8. QED
    BY <2>1, <2>2, <2>3, <2>4, <2>5, <2>6, <2>7, CommandTypes
<1>2. CommandInv'
  BY <1>0 DEF CommandInv, Journal, AlreadySubmitted, gatewayVars, adapterVars,
     Return, Start, LookUp, Key
<1>3. SentInv' /\ HeardInv' /\ OneUncertain' /\ LedgerHonest'
  BY QuietFrame DEF Journal, AlreadySubmitted, gatewayVars, adapterVars
<1>4. QED
  BY <1>1, <1>2, <1>3

(* An order that may have been submitted is looked up.                     *)
LEMMA PerhapsSubmittedStep == ASSUME IInv, Journal, PerhapsSubmitted PROVE IInv'
<1> USE DEF IInv
<1>0. Key \in Keys
  BY DEF CommandInv, Keys, Key, Orders, Journal
<1>1. TypeOK'
  <2>1. row' \in [Keys -> RowType] /\ Written'
    BY DEF TypeOK, RowType, Written, Journal, PerhapsSubmitted, gatewayVars,
       adapterVars, Return, Start, Disarmed, PreviewDropped
  <2>2. tws' \in [Keys -> TwsOrder]
    BY DEF TypeOK, TwsOrder, Journal, PerhapsSubmitted, gatewayVars,
       adapterVars, Return, Start, Disarmed, PreviewDropped
  <2>3. placed' \in [Keys -> Nat]
    BY DEF TypeOK, Journal, PerhapsSubmitted, gatewayVars, adapterVars, Return,
       Start, Disarmed, PreviewDropped
  <2>4. up' \in BOOLEAN
    BY DEF TypeOK, Journal, PerhapsSubmitted, gatewayVars, adapterVars, Return,
       Start, Disarmed, PreviewDropped
  <2>5. armed' \in BOOLEAN
    BY DEF TypeOK, Journal, PerhapsSubmitted, gatewayVars, adapterVars, Return,
       Start, Disarmed, PreviewDropped
  <2>6. /\ UNCHANGED <<login, pos, erred, seen, conn, acct, bound, expected>>
        /\ asked' \in Keys \cup {NoKey} /\ reply' \in Replies
        /\ preview' \in {preview, NoPreview}
    BY DEF TypeOK, Replies, Journal, PerhapsSubmitted, gatewayVars,
       adapterVars, Return, Start, Disarmed, PreviewDropped
  <2>7. \/ Return \/ Start("positions", "receipt", NoIntent)
        \/ Goto("place") \/ Goto("await")
        \/ (\E j \in Keys : LookUp({j}))
        \/ (pc' = "lookup" /\ todo' \in SUBSET todo /\ key' = NoKey
            /\ UNCHANGED <<kind, order>>)
    BY <1>0 DEF Journal, PerhapsSubmitted, gatewayVars, adapterVars
  <2>8. QED
    BY <2>1, <2>2, <2>3, <2>4, <2>5, <2>6, <2>7, CommandTypes
<1>2. CommandInv'
  BY <1>0 DEF CommandInv, Journal, PerhapsSubmitted, gatewayVars, adapterVars,
     Return, Start, LookUp, Key
<1>3. SentInv' /\ HeardInv' /\ OneUncertain' /\ LedgerHonest'
  BY QuietFrame DEF Journal, PerhapsSubmitted, gatewayVars, adapterVars
<1>4. QED
  BY <1>1, <1>2, <1>3

(* The order is placed for the first time: until now it had a row only.    *)
LEMMA PlaceStep == ASSUME IInv, Place PROVE IInv'
<1> USE DEF IInv
<1>0. Key \in Keys /\ order \in Orders /\ row[Key].st = "submitting" /\ placed[Key] = 0
  BY DEF CommandInv, Keys, Key, Orders, Place
<1>t. /\ placed' = [placed EXCEPT ![Key] = 1]
      /\ tws' = [tws EXCEPT ![Key] = [st |-> "inflight", side |-> order.side,
                                      qty |-> order.qty, left |-> order.qty]]
  BY <1>0 DEF Place, OrderSent
<1>1. TypeOK'
  <2>1. row' \in [Keys -> RowType] /\ Written'
    BY DEF TypeOK, RowType, Written, Place, Goto, Disarmed
  <2>2. tws' \in [Keys -> TwsOrder]
    <3>1. order.side \in Sides /\ order.qty \in Nat
      BY <1>0, QtyAssumption DEF Orders, Qtys
    <3>2. tws \in [Keys -> TwsOrder]
      BY DEF TypeOK, TwsOrder
    <3>3. QED
      BY <1>0, <1>t, <3>1, <3>2 DEF TwsOrder, Statuses
  <2>3. placed' \in [Keys -> Nat]
    BY <1>t DEF TypeOK
  <2>4. up' \in BOOLEAN
    BY DEF TypeOK, Place, Goto, Disarmed
  <2>5. armed' \in BOOLEAN
    BY DEF TypeOK, Place, Goto, Disarmed
  <2>6. /\ UNCHANGED <<login, pos, erred, seen, conn, acct, bound, expected>>
        /\ asked' \in Keys \cup {NoKey} /\ reply' \in Replies
        /\ preview' \in {preview, NoPreview}
    BY <1>0 DEF TypeOK, Replies, Place
  <2>7. \/ Return \/ Start("positions", "receipt", NoIntent)
        \/ Goto("place") \/ Goto("await")
        \/ (\E j \in Keys : LookUp({j}))
        \/ (pc' = "lookup" /\ todo' \in SUBSET todo /\ key' = NoKey
            /\ UNCHANGED <<kind, order>>)
    BY DEF Place, Goto, Disarmed
  <2>8. QED
    BY <2>1, <2>2, <2>3, <2>4, <2>5, <2>6, <2>7, CommandTypes
<1>2. CommandInv'
  <2>1. /\ Key' = Key /\ asked' = Key /\ pc' = "await"
        /\ UNCHANGED <<row, acct, kind, order, key, todo>>
    BY DEF Place, Goto, Key
  <2>2. kind = "submit" /\ acct \in Accounts
    BY DEF CommandInv, Place
  <2>3. QED
    BY <1>0, <2>1, <2>2 DEF CommandInv
<1>3. SentInv'
  <2>1. order.qty > 0 /\ UNCHANGED row
    BY <1>0, QtyAssumption DEF Orders, Qtys, Place
  <2>2. /\ placed'[Key] = 1 /\ tws'[Key].st = "inflight" /\ tws'[Key].left = order.qty
        /\ \A j \in Keys \ {Key} : tws'[j] = tws[j] /\ placed'[j] = placed[j]
    BY <1>0, <1>t DEF TypeOK
  <2>3. QED
    BY <1>0, <2>1, <2>2 DEF SentInv
<1>4. HeardInv'
  BY DEF HeardInv, Place
<1>5. OneUncertain'
  BY DEF OneUncertain, Place
<1>6. LedgerHonest'
  BY <1>0, <1>t DEF LedgerHonest, Place, Completed, TypeOK
<1>7. QED
  BY <1>1, <1>2, <1>3, <1>4, <1>5, <1>6

-----------------------------------------------------------------------------
(* What an answer does: the order waited for, or looked up, is uncertain   *)
(* until it is stored, and only it was.                                    *)

(* The acknowledgement is stored as TWS gave it.                           *)
LEMMA AcknowledgedStep == ASSUME IInv, Acknowledged PROVE IInv'
<1> USE DEF IInv
<1>0. /\ Key \in Keys /\ row[Key].st \in Uncertain
      /\ reply \in Uncertain \cup Certain /\ Stored(Key, reply)
      /\ asked = Key
  BY DEF CommandInv, Keys, Key, Orders, Acknowledged, Uncertain, Certain,
     TypeOK
<1>s. /\ row' \in [Keys -> RowType]
      /\ Written' /\ OneUncertain'
      /\ row'[Key].st = reply
      /\ \A j \in Keys \ {Key} : row'[j] = row[j] /\ row[j].st \notin Uncertain
  BY <1>0, StoredRow
<1>1. TypeOK'
  <2>1. row' \in [Keys -> RowType] /\ Written'
    BY <1>s
  <2>2. tws' \in [Keys -> TwsOrder]
    BY DEF TypeOK, TwsOrder, Acknowledged, gatewayVars, PreviewDropped
  <2>3. placed' \in [Keys -> Nat]
    BY DEF TypeOK, Acknowledged, gatewayVars, PreviewDropped
  <2>4. up' \in BOOLEAN
    BY DEF TypeOK, Acknowledged, gatewayVars, PreviewDropped
  <2>5. armed' \in BOOLEAN
    BY DEF TypeOK, Acknowledged, gatewayVars, PreviewDropped
  <2>6. /\ UNCHANGED <<login, pos, erred, seen, conn, acct, bound, expected>>
        /\ asked' \in Keys \cup {NoKey} /\ reply' \in Replies
        /\ preview' \in {preview, NoPreview}
    BY DEF TypeOK, Replies, Acknowledged, gatewayVars, PreviewDropped
  <2>7. \/ Return \/ Start("positions", "receipt", NoIntent)
        \/ Goto("place") \/ Goto("await")
        \/ (\E j \in Keys : LookUp({j}))
        \/ (pc' = "lookup" /\ todo' \in SUBSET todo /\ key' = NoKey
            /\ UNCHANGED <<kind, order>>)
    BY DEF Acknowledged, gatewayVars, PreviewDropped
  <2>8. QED
    BY <2>1, <2>2, <2>3, <2>4, <2>5, <2>6, <2>7, CommandTypes
<1>2. CommandInv'
  BY <1>0, <1>s DEF CommandInv, Acknowledged, Start, TypeOK, Uncertain
<1>3. SentInv'
  BY <1>0, <1>s DEF SentInv, Uncertain, Acknowledged, gatewayVars,
     PreviewDropped
<1>4. HeardInv'
  BY DEF HeardInv, Acknowledged, gatewayVars, PreviewDropped
<1>5. LedgerHonest'
  BY <1>0, <1>s DEF LedgerHonest, HeardInv, Completed, Acknowledged,
     gatewayVars, PreviewDropped
<1>6. QED
  BY <1>1, <1>2, <1>3, <1>4, <1>5, <1>s

(* A refusal is stored.                                                    *)
LEMMA RejectedStep == ASSUME IInv, Rejected PROVE IInv'
<1> USE DEF IInv
<1>0. /\ Key \in Keys /\ row[Key].st \in Uncertain
      /\ "rejected" \in Uncertain \cup Certain /\ Stored(Key, "rejected")
  BY DEF CommandInv, Keys, Key, Orders, Rejected, Uncertain, Certain
<1>s. /\ row' \in [Keys -> RowType]
      /\ Written' /\ OneUncertain'
      /\ row'[Key].st = "rejected"
      /\ \A j \in Keys \ {Key} : row'[j] = row[j] /\ row[j].st \notin Uncertain
  BY <1>0, StoredRow
<1>1. TypeOK'
  <2>1. row' \in [Keys -> RowType] /\ Written'
    BY <1>s
  <2>2. tws' \in [Keys -> TwsOrder]
    BY DEF TypeOK, TwsOrder, Rejected, gatewayVars, PreviewDropped
  <2>3. placed' \in [Keys -> Nat]
    BY DEF TypeOK, Rejected, gatewayVars, PreviewDropped
  <2>4. up' \in BOOLEAN
    BY DEF TypeOK, Rejected, gatewayVars, PreviewDropped
  <2>5. armed' \in BOOLEAN
    BY DEF TypeOK, Rejected, gatewayVars, PreviewDropped
  <2>6. /\ UNCHANGED <<login, pos, erred, seen, conn, acct, bound, expected>>
        /\ asked' \in Keys \cup {NoKey} /\ reply' \in Replies
        /\ preview' \in {preview, NoPreview}
    BY DEF TypeOK, Replies, Rejected, gatewayVars, PreviewDropped
  <2>7. \/ Return \/ Start("positions", "receipt", NoIntent)
        \/ Goto("place") \/ Goto("await")
        \/ (\E j \in Keys : LookUp({j}))
        \/ (pc' = "lookup" /\ todo' \in SUBSET todo /\ key' = NoKey
            /\ UNCHANGED <<kind, order>>)
    BY DEF Rejected, gatewayVars, PreviewDropped
  <2>8. QED
    BY <2>1, <2>2, <2>3, <2>4, <2>5, <2>6, <2>7, CommandTypes
<1>2. CommandInv'
  BY <1>0, <1>s DEF CommandInv, Rejected, Return, TypeOK, Uncertain
<1>3. SentInv'
  BY <1>0, <1>s DEF SentInv, Uncertain, Rejected, gatewayVars, PreviewDropped
<1>4. HeardInv'
  BY DEF HeardInv, Rejected, gatewayVars, PreviewDropped
<1>5. LedgerHonest'
  BY <1>0, <1>s DEF LedgerHonest, Completed, Rejected, gatewayVars,
     PreviewDropped
<1>6. QED
  BY <1>1, <1>2, <1>3, <1>4, <1>5, <1>s

(* An order that was not acknowledged in time is kept as unknown.          *)
LEMMA AckTimesOutStep == ASSUME IInv, AckTimesOut PROVE IInv'
<1> USE DEF IInv
<1>0. /\ Key \in Keys /\ row[Key].st \in Uncertain
      /\ "unknown" \in Uncertain \cup Certain /\ Stored(Key, "unknown")
  BY DEF CommandInv, Keys, Key, Orders, AckTimesOut, Uncertain
<1>s. /\ row' \in [Keys -> RowType]
      /\ Written' /\ OneUncertain'
      /\ row'[Key].st = "unknown"
      /\ \A j \in Keys \ {Key} : row'[j] = row[j] /\ row[j].st \notin Uncertain
  BY <1>0, StoredRow
<1>1. TypeOK'
  <2>1. row' \in [Keys -> RowType] /\ Written'
    BY <1>s
  <2>2. tws' \in [Keys -> TwsOrder]
    BY DEF TypeOK, TwsOrder, AckTimesOut, gatewayVars, PreviewDropped
  <2>3. placed' \in [Keys -> Nat]
    BY DEF TypeOK, AckTimesOut, gatewayVars, PreviewDropped
  <2>4. up' \in BOOLEAN
    BY DEF TypeOK, AckTimesOut, gatewayVars, PreviewDropped
  <2>5. armed' \in BOOLEAN
    BY DEF TypeOK, AckTimesOut, gatewayVars, PreviewDropped
  <2>6. /\ UNCHANGED <<login, pos, erred, seen, conn, acct, bound, expected>>
        /\ asked' \in Keys \cup {NoKey} /\ reply' \in Replies
        /\ preview' \in {preview, NoPreview}
    BY DEF TypeOK, Replies, AckTimesOut, gatewayVars, PreviewDropped
  <2>7. \/ Return \/ Start("positions", "receipt", NoIntent)
        \/ Goto("place") \/ Goto("await")
        \/ (\E j \in Keys : LookUp({j}))
        \/ (pc' = "lookup" /\ todo' \in SUBSET todo /\ key' = NoKey
            /\ UNCHANGED <<kind, order>>)
    BY DEF AckTimesOut, gatewayVars, PreviewDropped
  <2>8. QED
    BY <2>1, <2>2, <2>3, <2>4, <2>5, <2>6, <2>7, CommandTypes
<1>2. CommandInv'
  BY <1>0, <1>s DEF CommandInv, AckTimesOut, Return, TypeOK
<1>3. SentInv'
  BY <1>0, <1>s DEF SentInv, Uncertain, AckTimesOut, gatewayVars,
     PreviewDropped
<1>4. HeardInv'
  BY DEF HeardInv, AckTimesOut, gatewayVars, PreviewDropped
<1>5. LedgerHonest'
  BY <1>0, <1>s DEF LedgerHonest, Completed, AckTimesOut, gatewayVars,
     PreviewDropped
<1>6. QED
  BY <1>1, <1>2, <1>3, <1>4, <1>5, <1>s

(* An order found among the open ones is stored as submitted.              *)
LEMMA FoundOpenStep == ASSUME IInv, FoundOpen PROVE IInv'
<1> USE DEF IInv
<1>0. PICK k \in Keys, word \in Certain :
                       /\ k \in todo /\ row[k].st \in Uncertain
                       /\ LookedUp(k, word) /\ Stored(k, word)
                       /\ word \in Completed => tws[k].st = word
  <2>1. PICK k \in todo : /\ tws[k].st \in DOMAIN Words
                         /\ \E word \in Words[tws[k].st] : LookedUp(k, word)
    BY DEF FoundOpen
  <2>2. PICK word \in Words[tws[k].st] : LookedUp(k, word)
    BY <2>1
  <2>3. k \in Keys /\ row[k].st \in Uncertain
    BY DEF CommandInv, TypeOK
  <2>4. QED
    BY <2>1, <2>2, <2>3, WordsHonest DEF LookedUp
<1>s. /\ row' \in [Keys -> RowType]
      /\ Written' /\ OneUncertain'
      /\ row'[k].st = word
      /\ \A j \in Keys \ {k} : row'[j] = row[j] /\ row[j].st \notin Uncertain
  BY <1>0, StoredRow
<1>1. TypeOK'
  <2>1. row' \in [Keys -> RowType] /\ Written'
    BY <1>s
  <2>2. tws' \in [Keys -> TwsOrder]
    BY DEF TypeOK, TwsOrder, FoundOpen, LookedUp, PreviewDropped, gatewayVars,
       adapterVars
  <2>3. placed' \in [Keys -> Nat]
    BY DEF TypeOK, FoundOpen, LookedUp, PreviewDropped, gatewayVars,
       adapterVars
  <2>4. up' \in BOOLEAN
    BY DEF TypeOK, FoundOpen, LookedUp, PreviewDropped, gatewayVars,
       adapterVars
  <2>5. armed' \in BOOLEAN
    BY DEF TypeOK, FoundOpen, LookedUp, PreviewDropped, gatewayVars,
       adapterVars
  <2>6. /\ UNCHANGED <<login, pos, erred, seen, conn, acct, bound, expected>>
        /\ asked' \in Keys \cup {NoKey} /\ reply' \in Replies
        /\ preview' \in {preview, NoPreview}
    BY DEF TypeOK, Replies, FoundOpen, LookedUp, PreviewDropped, gatewayVars,
       adapterVars
  <2>7. \/ Return \/ Start("positions", "receipt", NoIntent)
        \/ Goto("place") \/ Goto("await")
        \/ (\E j \in Keys : LookUp({j}))
        \/ (pc' = "lookup" /\ todo' \in SUBSET todo /\ key' = NoKey
            /\ UNCHANGED <<kind, order>>)
    BY DEF FoundOpen, LookedUp, PreviewDropped, gatewayVars, adapterVars
  <2>8. QED
    BY <2>1, <2>2, <2>3, <2>4, <2>5, <2>6, <2>7, CommandTypes
<1>2. CommandInv'
  BY <1>0, <1>s DEF CommandInv, FoundOpen, LookedUp, TypeOK, adapterVars, Key,
     Uncertain
<1>3. SentInv'
  BY <1>0, <1>s DEF SentInv, Uncertain, Certain, FoundOpen, LookedUp, PreviewDropped,
     gatewayVars, adapterVars
<1>4. HeardInv'
  BY DEF HeardInv, FoundOpen, LookedUp, PreviewDropped, gatewayVars,
     adapterVars
<1>5. LedgerHonest'
  BY <1>0, <1>s DEF LedgerHonest, Completed, FoundOpen, LookedUp,
     PreviewDropped, gatewayVars, adapterVars
<1>6. QED
  BY <1>1, <1>2, <1>3, <1>4, <1>5, <1>s

(* An order found among the completed ones is stored as it ended.          *)
LEMMA FoundCompletedStep == ASSUME IInv, FoundCompleted PROVE IInv'
<1> USE DEF IInv
<1>0. PICK k \in Keys, word \in Certain :
                       /\ k \in todo /\ row[k].st \in Uncertain
                       /\ LookedUp(k, word) /\ Stored(k, word)
                       /\ word \in Completed => tws[k].st = word
  <2>1. /\ key \in todo /\ key \in Keys /\ row[key].st \in Uncertain
        /\ tws[key].st \in DOMAIN CompletedWords
    BY DEF CommandInv, TypeOK, FoundCompleted, CompletedOrders
  <2>2. PICK word \in CompletedWords[tws[key].st] : LookedUp(key, word)
    BY DEF FoundCompleted
  <2>3. QED
    BY <2>1, <2>2, CompletedWordsHonest DEF LookedUp
<1>s. /\ row' \in [Keys -> RowType]
      /\ Written' /\ OneUncertain'
      /\ row'[k].st = word
      /\ \A j \in Keys \ {k} : row'[j] = row[j] /\ row[j].st \notin Uncertain
  BY <1>0, StoredRow
<1>1. TypeOK'
  <2>1. row' \in [Keys -> RowType] /\ Written'
    BY <1>s
  <2>2. tws' \in [Keys -> TwsOrder]
    BY DEF TypeOK, TwsOrder, FoundCompleted, LookedUp, PreviewDropped,
       gatewayVars, adapterVars
  <2>3. placed' \in [Keys -> Nat]
    BY DEF TypeOK, FoundCompleted, LookedUp, PreviewDropped, gatewayVars,
       adapterVars
  <2>4. up' \in BOOLEAN
    BY DEF TypeOK, FoundCompleted, LookedUp, PreviewDropped, gatewayVars,
       adapterVars
  <2>5. armed' \in BOOLEAN
    BY DEF TypeOK, FoundCompleted, LookedUp, PreviewDropped, gatewayVars,
       adapterVars
  <2>6. /\ UNCHANGED <<login, pos, erred, seen, conn, acct, bound, expected>>
        /\ asked' \in Keys \cup {NoKey} /\ reply' \in Replies
        /\ preview' \in {preview, NoPreview}
    BY DEF TypeOK, Replies, FoundCompleted, LookedUp, PreviewDropped,
       gatewayVars, adapterVars
  <2>7. \/ Return \/ Start("positions", "receipt", NoIntent)
        \/ Goto("place") \/ Goto("await")
        \/ (\E j \in Keys : LookUp({j}))
        \/ (pc' = "lookup" /\ todo' \in SUBSET todo /\ key' = NoKey
            /\ UNCHANGED <<kind, order>>)
    BY DEF FoundCompleted, LookedUp, PreviewDropped, gatewayVars, adapterVars
  <2>8. QED
    BY <2>1, <2>2, <2>3, <2>4, <2>5, <2>6, <2>7, CommandTypes
<1>2. CommandInv'
  BY <1>0, <1>s DEF CommandInv, FoundCompleted, LookedUp, TypeOK, adapterVars,
     Key
<1>3. SentInv'
  BY <1>0, <1>s DEF SentInv, Uncertain, Certain, FoundCompleted, LookedUp,
     PreviewDropped, gatewayVars, adapterVars
<1>4. HeardInv'
  BY DEF HeardInv, FoundCompleted, LookedUp, PreviewDropped, gatewayVars,
     adapterVars
<1>5. LedgerHonest'
  BY <1>0, <1>s DEF LedgerHonest, Completed, FoundCompleted, LookedUp,
     PreviewDropped, gatewayVars, adapterVars
<1>6. QED
  BY <1>1, <1>2, <1>3, <1>4, <1>5, <1>s

(* An order that was not found stays unknown.                              *)
LEMMA NotCompletedStep == ASSUME IInv, NotCompleted PROVE IInv'
<1> USE DEF IInv
<1>0. PICK k \in Keys : /\ k \in todo /\ row[k].st \in Uncertain
                       /\ "unknown" \in Uncertain \cup Certain
                       /\ LookedUp(k, "unknown") /\ Stored(k, "unknown")
                      
  BY DEF CommandInv, TypeOK, Uncertain, Certain, NotCompleted, NotFound,
     LookedUp
<1>s. /\ row' \in [Keys -> RowType]
      /\ Written' /\ OneUncertain'
      /\ row'[k].st = "unknown"
      /\ \A j \in Keys \ {k} : row'[j] = row[j] /\ row[j].st \notin Uncertain
  BY <1>0, StoredRow
<1>1. TypeOK'
  <2>1. row' \in [Keys -> RowType] /\ Written'
    BY <1>s
  <2>2. tws' \in [Keys -> TwsOrder]
    BY DEF TypeOK, TwsOrder, NotCompleted, NotFound, LookedUp, PreviewDropped,
       gatewayVars, adapterVars
  <2>3. placed' \in [Keys -> Nat]
    BY DEF TypeOK, NotCompleted, NotFound, LookedUp, PreviewDropped,
       gatewayVars, adapterVars
  <2>4. up' \in BOOLEAN
    BY DEF TypeOK, NotCompleted, NotFound, LookedUp, PreviewDropped,
       gatewayVars, adapterVars
  <2>5. armed' \in BOOLEAN
    BY DEF TypeOK, NotCompleted, NotFound, LookedUp, PreviewDropped,
       gatewayVars, adapterVars
  <2>6. /\ UNCHANGED <<login, pos, erred, seen, conn, acct, bound, expected>>
        /\ asked' \in Keys \cup {NoKey} /\ reply' \in Replies
        /\ preview' \in {preview, NoPreview}
    BY DEF TypeOK, Replies, NotCompleted, NotFound, LookedUp, PreviewDropped,
       gatewayVars, adapterVars
  <2>7. \/ Return \/ Start("positions", "receipt", NoIntent)
        \/ Goto("place") \/ Goto("await")
        \/ (\E j \in Keys : LookUp({j}))
        \/ (pc' = "lookup" /\ todo' \in SUBSET todo /\ key' = NoKey
            /\ UNCHANGED <<kind, order>>)
    BY DEF NotCompleted, NotFound, LookedUp, PreviewDropped, gatewayVars,
       adapterVars
  <2>8. QED
    BY <2>1, <2>2, <2>3, <2>4, <2>5, <2>6, <2>7, CommandTypes
<1>2. CommandInv'
  BY <1>0, <1>s DEF CommandInv, NotCompleted, NotFound, LookedUp, TypeOK,
     adapterVars, Key
<1>3. SentInv'
  BY <1>0, <1>s DEF SentInv, Uncertain, NotCompleted, NotFound, LookedUp,
     PreviewDropped, gatewayVars, adapterVars
<1>4. HeardInv'
  BY DEF HeardInv, NotCompleted, NotFound, LookedUp, PreviewDropped,
     gatewayVars, adapterVars
<1>5. LedgerHonest'
  BY <1>0, <1>s DEF LedgerHonest, Completed, NotCompleted, NotFound, LookedUp,
     PreviewDropped, gatewayVars, adapterVars
<1>6. QED
  BY <1>1, <1>2, <1>3, <1>4, <1>5, <1>s

(* An order whose lookup failed stays unknown.                             *)
LEMMA LookupTimesOutStep == ASSUME IInv, LookupTimesOut PROVE IInv'
<1> USE DEF IInv
<1>0. PICK k \in Keys : /\ k \in todo /\ row[k].st \in Uncertain
                       /\ "unknown" \in Uncertain \cup Certain
                       /\ LookedUp(k, "unknown") /\ Stored(k, "unknown")
                      
  BY DEF CommandInv, TypeOK, Uncertain, Certain, LookupTimesOut, NotFound,
     LookedUp
<1>u. up' \in {up, FALSE}
  BY DEF LookupTimesOut, CallFails
<1>s. /\ row' \in [Keys -> RowType]
      /\ Written' /\ OneUncertain'
      /\ row'[k].st = "unknown"
      /\ \A j \in Keys \ {k} : row'[j] = row[j] /\ row[j].st \notin Uncertain
  BY <1>0, StoredRow
<1>1. TypeOK'
  <2>1. row' \in [Keys -> RowType] /\ Written'
    BY <1>s
  <2>2. tws' \in [Keys -> TwsOrder]
    BY DEF TypeOK, TwsOrder, LookupTimesOut, NotFound, LookedUp,
       PreviewDropped, gatewayVars
  <2>3. placed' \in [Keys -> Nat]
    BY DEF TypeOK, LookupTimesOut, NotFound, LookedUp, PreviewDropped,
       gatewayVars
  <2>4. up' \in BOOLEAN
    BY Zenon, <1>u DEF TypeOK
  <2>5. armed' \in BOOLEAN
    BY DEF TypeOK, LookupTimesOut, NotFound, LookedUp, PreviewDropped,
       gatewayVars
  <2>6. /\ UNCHANGED <<login, pos, erred, seen, conn, acct, bound, expected>>
        /\ asked' \in Keys \cup {NoKey} /\ reply' \in Replies
        /\ preview' \in {preview, NoPreview}
    BY DEF TypeOK, Replies, LookupTimesOut, NotFound, LookedUp, PreviewDropped,
       gatewayVars
  <2>7. \/ Return \/ Start("positions", "receipt", NoIntent)
        \/ Goto("place") \/ Goto("await")
        \/ (\E j \in Keys : LookUp({j}))
        \/ (pc' = "lookup" /\ todo' \in SUBSET todo /\ key' = NoKey
            /\ UNCHANGED <<kind, order>>)
    BY DEF LookupTimesOut, NotFound, LookedUp, PreviewDropped, gatewayVars
  <2>8. QED
    BY <2>1, <2>2, <2>3, <2>4, <2>5, <2>6, <2>7, CommandTypes
<1>2. CommandInv'
  BY <1>0, <1>s DEF CommandInv, LookupTimesOut, NotFound, LookedUp, TypeOK, Key
<1>3. SentInv'
  BY <1>0, <1>s DEF SentInv, Uncertain, LookupTimesOut, NotFound, LookedUp,
     PreviewDropped, gatewayVars
<1>4. HeardInv'
  BY DEF HeardInv, LookupTimesOut, NotFound, LookedUp, PreviewDropped,
     gatewayVars
<1>5. LedgerHonest'
  BY <1>0, <1>s DEF LedgerHonest, Completed, LookupTimesOut, NotFound,
     LookedUp, PreviewDropped, gatewayVars
<1>6. QED
  BY <1>1, <1>2, <1>3, <1>4, <1>5, <1>s

(* A send that failed may have reached TWS; the order is kept as unknown.  *)
LEMMA PlaceFailsStep == ASSUME IInv, PlaceFails PROVE IInv'
<1> USE DEF IInv
<1>0. /\ Key \in Keys /\ order \in Orders
      /\ row[Key].st \in Uncertain /\ placed[Key] = 0
      /\ "unknown" \in Uncertain \cup Certain /\ Stored(Key, "unknown")
  BY DEF CommandInv, Keys, Key, Orders, PlaceFails, Uncertain
<1>s. /\ row' \in [Keys -> RowType]
      /\ Written' /\ OneUncertain'
      /\ row'[Key].st = "unknown"
      /\ \A j \in Keys \ {Key} : row'[j] = row[j] /\ row[j].st \notin Uncertain
  BY <1>0, StoredRow
<1>u. up' \in {up, FALSE}
  BY DEF PlaceFails, CallFails
<1>n. tws[Key].st = "none"
  BY <1>0 DEF SentInv
<1>t. \/ /\ placed' = [placed EXCEPT ![Key] = 1]
         /\ tws' = [tws EXCEPT ![Key] = [st |-> "inflight", side |-> order.side,
                                         qty |-> order.qty, left |-> order.qty]]
      \/ tws' = tws /\ placed' = placed
  BY <1>0 DEF PlaceFails, OrderSent
<1>q. order.side \in Sides /\ order.qty \in Nat /\ order.qty > 0
  BY <1>0, QtyAssumption DEF Orders, Qtys
<1>v. \/ /\ placed'[Key] = 1 /\ tws'[Key].st = "inflight" /\ tws'[Key].left = order.qty
         /\ \A j \in Keys \ {Key} : tws'[j] = tws[j] /\ placed'[j] = placed[j]
      \/ UNCHANGED <<tws, placed>>
  BY <1>0, <1>t DEF TypeOK
<1>1. TypeOK'
  <2>1. row' \in [Keys -> RowType] /\ Written'
    BY <1>s
  <2>2. tws' \in [Keys -> TwsOrder]
    <3>1. tws \in [Keys -> TwsOrder]
      BY DEF TypeOK, TwsOrder
    <3>2. [st |-> "inflight", side |-> order.side, qty |-> order.qty,
           left |-> order.qty] \in TwsOrder
      BY <1>q DEF TwsOrder, Statuses
    <3>3. CASE tws' = tws
      BY <3>1, <3>3
    <3>4. CASE tws' = [tws EXCEPT ![Key] = [st |-> "inflight", side |-> order.side,
                                           qty |-> order.qty, left |-> order.qty]]
      BY <1>0, <3>1, <3>2, <3>4
    <3>5. QED
      BY Zenon, <1>t, <3>3, <3>4
  <2>3. placed' \in [Keys -> Nat]
    <3>1. placed \in [Keys -> Nat]
      BY DEF TypeOK
    <3>2. placed' = [placed EXCEPT ![Key] = 1] \/ placed' = placed
      BY Zenon, <1>t
    <3>3. QED
      BY <3>1, <3>2
  <2>4. up' \in BOOLEAN
    BY Zenon, <1>u DEF TypeOK
  <2>5. armed' \in BOOLEAN
    BY DEF PlaceFails, Disarmed
  <2>6. /\ UNCHANGED <<login, pos, erred, seen, conn, acct, bound, expected>>
        /\ asked' \in Keys \cup {NoKey} /\ reply' \in Replies
        /\ preview' \in {preview, NoPreview}
    BY DEF TypeOK, Replies, PlaceFails, Disarmed, PreviewDropped
  <2>7. \/ Return \/ Start("positions", "receipt", NoIntent)
        \/ Goto("place") \/ Goto("await")
        \/ (\E j \in Keys : LookUp({j}))
        \/ (pc' = "lookup" /\ todo' \in SUBSET todo /\ key' = NoKey
            /\ UNCHANGED <<kind, order>>)
    BY DEF PlaceFails, Disarmed, PreviewDropped
  <2>8. QED
    BY <2>1, <2>2, <2>3, <2>4, <2>5, <2>6, <2>7, CommandTypes
<1>2. CommandInv'
  BY <1>0, <1>s DEF CommandInv, PlaceFails, Return
<1>3. SentInv'
  BY <1>0, <1>q, <1>s, <1>v DEF SentInv
<1>4. HeardInv'
  BY <1>0, <1>n, <1>v DEF HeardInv, PlaceFails, Completed, Taken, TypeOK
<1>5. LedgerHonest'
  BY <1>0, <1>s, <1>v DEF LedgerHonest, Completed
<1>6. QED
  BY <1>1, <1>2, <1>3, <1>4, <1>5, <1>s

-----------------------------------------------------------------------------
(* Every step of the desk, of the operator, of TWS and of the clock keeps  *)
(* the invariant.                                                          *)
LEMMA StepInv == ASSUME IInv, [Next]_vars PROVE IInv'
<1>1. CASE GatewayStep
  <2>1. DeskIdle
    BY <1>1 DEF GatewayStep, DeskIdle
  <2>2. QED
    BY <1>1, <2>1, AcceptStep, RefuseStep, DropStep, FillStep, CancelStep,
       WarnStep, RowAgainStep, LoseConnectionStep, ReloginStep DEF GatewayStep, Gateway
<1>2. CASE Operator
  <2>1. CASE Look
    BY <2>1, LookStep
  <2>2. CASE Disarm
    BY <2>2, DisarmStep
  <2>3. CASE Arm
    BY <2>3, ArmStep
  <2>4. CASE Disconnect
    BY <2>4, DisconnectStep
  <2>5. CASE Connect
    BY <2>5, ConnectStep
  <2>6. CASE Bind
    BY <2>6, BindStep
  <2>7. CASE Recover
    BY <2>7, RecoverStep
  <2>8. ASSUME NEW o \in Orders, Preview(o) \/ Submit(o) PROVE IInv'
    BY <2>8, PreviewOrderStep, SubmitOrderStep
  <2>9. QED
    BY <1>2, <2>1, <2>2, <2>3, <2>4, <2>5, <2>6, <2>7, <2>8 DEF Operator
<1>3. CASE Work
  <2>1. CASE ReadPositions
    BY <2>1, ReadPositionsStep
  <2>2. CASE ReadOrders
    BY <2>2, ReadOrdersStep
  <2>3. CASE AccountMismatch
    BY <2>3, AccountMismatchStep
  <2>4. CASE SnapshotFails
    BY <2>4, SnapshotFailsStep
  <2>5. CASE WhatIfAccepts
    BY <2>5, WhatIfAcceptsStep
  <2>6. CASE WhatIfRefuses
    BY <2>6, WhatIfRefusesStep
  <2>7. CASE Place
    BY <2>7, PlaceStep
  <2>8. CASE PlaceFails
    BY <2>8, PlaceFailsStep
  <2>9. CASE Acknowledged
    BY <2>9, AcknowledgedStep
  <2>10. CASE Rejected
    BY <2>10, RejectedStep
  <2>11. CASE AckTimesOut
    BY <2>11, AckTimesOutStep
  <2>12. CASE FoundOpen
    BY <2>12, FoundOpenStep
  <2>13. CASE NotOpen
    BY <2>13, NotOpenStep
  <2>14. CASE FoundCompleted
    BY <2>14, FoundCompletedStep
  <2>15. CASE NotCompleted
    BY <2>15, NotCompletedStep
  <2>16. CASE LookupTimesOut
    BY <2>16, LookupTimesOutStep
  <2>17. CASE LookupRaises
    BY <2>17, LookupRaisesStep
  <2>18. CASE RecoveryEnds
    BY <2>18, RecoveryEndsStep
  <2>19. CASE Journal
    BY <2>19, JournalledStep, IdTakenStep, AlreadySubmittedStep,
       PerhapsSubmittedStep DEF Journal
  <2>20. QED
    BY <1>3, <2>1, <2>2, <2>3, <2>4, <2>5, <2>6, <2>7, <2>8, <2>9, <2>10,
       <2>11, <2>12, <2>13, <2>14, <2>15, <2>16, <2>17, <2>18, <2>19 DEF Work
<1>4. CASE Restart
  BY <1>4, RestartStep
<1>5. CASE UNCHANGED vars
  <2>1. TypeOK'
    BY <1>5 DEF IInv, TypeOK, vars
  <2>2. CommandInv'
    BY <1>5 DEF IInv, CommandInv, vars, Key
  <2>3. SentInv' /\ HeardInv' /\ OneUncertain' /\ LedgerHonest'
    BY <1>5, QuietFrame DEF IInv, vars
  <2>4. QED
    BY <2>1, <2>2, <2>3 DEF IInv
<1>6. QED
  BY <1>1, <1>2, <1>3, <1>4, <1>5 DEF Next

(* The invariant holds throughout every behaviour. *)
LEMMA InvCorrect == Spec => []IInv
<1>1. QED
  BY InitInv, StepInv, PTL DEF Spec

(* The variables of the desk, the ledger and TWS keep to their types: every *)
(* row, once written, keeps an intent and a status, whatever TWS says.     *)
THEOREM DeskTypeCorrect == Spec => []TypeOK
<1>1. IInv => TypeOK
  BY DEF IInv
<1>2. QED
  BY <1>1, InvCorrect, PTL

(* At most one order of the whole ledger has a fate that is not known. *)
THEOREM OneUncertainCorrect == Spec => []OneUncertain
<1>1. IInv => OneUncertain
  BY DEF IInv
<1>2. QED
  BY <1>1, InvCorrect, PTL

(* What the ledger calls filled or cancelled ended that way at TWS. *)
THEOREM LedgerHonestCorrect == Spec => []LedgerHonest
<1>1. IInv => LedgerHonest
  BY DEF IInv
<1>2. QED
  BY <1>1, InvCorrect, PTL

-----------------------------------------------------------------------------
(* The refinement: which steps the journal sees, and as what.              *)
JournalMap == [k \in Keys |-> JournalOf(row[k].st)]
AnswerMap == [k \in Keys |-> AnswersTo(k)]

(* A step that keeps what the three stand for is not seen. *)
LEMMA Unseen ==
    ASSUME UNCHANGED <<JournalMap, placed, AnswerMap>>
    PROVE  [Desk!Next]_(Desk!vars)
  BY DEF Desk!vars, JournalMap, AnswerMap

(* A row with no change of status, and an order of which TWS has said      *)
(* nothing new, stand for the same.                                        *)
LEMMA SameMaps ==
    ASSUME \A k \in Keys : JournalOf(row'[k].st) = JournalOf(row[k].st),
           \A k \in Keys : AnswersTo(k)' = AnswersTo(k),
           UNCHANGED placed
    PROVE  [Desk!Next]_(Desk!vars)
<1>1. JournalMap' = JournalMap
  BY DEF JournalMap
<1>2. AnswerMap' = AnswerMap
  BY DEF AnswerMap
<1>3. QED
  BY <1>1, <1>2, Unseen

(* TWS has said nothing new of an order it has as before. *)
LEMMA SameAnswers ==
    ASSUME NEW k \in Keys, tws'[k] = tws[k], k \in erred' <=> k \in erred
    PROVE  AnswersTo(k)' = AnswersTo(k)
  BY DEF AnswersTo

(* It has said nothing of an order on its way. *)
LEMMA NoAnswers ==
    ASSUME NEW k \in Keys, tws[k].st \in {"none", "inflight"},
           tws'[k].st \in {"none", "inflight"}, erred' = erred
    PROVE  AnswersTo(k)' = AnswersTo(k)
  BY DEF AnswersTo, Taken

(* A new row is a journalled intent. *)
LEMMA WriteSeen ==
    ASSUME NEW k \in Keys, JournalOf(row[k].st) = "none",
           JournalOf(row'[k].st) = "open",
           \A j \in Keys \ {k} : row'[j] = row[j],
           UNCHANGED <<tws, erred, placed>>
    PROVE  Desk!Next
<1>1. JournalMap' = [JournalMap EXCEPT ![k] = "open"]
  <2>1. \A j \in Keys \ {k} : JournalOf(row'[j].st) = JournalOf(row[j].st)
    OBVIOUS
  <2>2. QED
    BY <2>1 DEF JournalMap
<1>2. JournalMap[k] = "none"
  BY DEF JournalMap
<1>3. AnswerMap' = AnswerMap
  BY SameAnswers DEF AnswerMap
<1>4. Desk!Write(k)
  BY <1>1, <1>2, <1>3 DEF Desk!Write, JournalMap, AnswerMap
<1>5. QED
  BY <1>4 DEF Desk!Next

(* A call of placeOrder is a sending, if it is the first. *)
LEMMA SendSeen ==
    ASSUME NEW k \in Keys, JournalOf(row[k].st) = "open",
           \A j \in Keys : JournalOf(row'[j].st) = JournalOf(row[j].st),
           \A j \in Keys : AnswersTo(j)' = AnswersTo(j),
           placed[k] = 0, placed' = [placed EXCEPT ![k] = 1]
    PROVE  Desk!Next
<1>1. JournalMap' = JournalMap
  BY DEF JournalMap
<1>2. JournalMap[k] = "open"
  BY DEF JournalMap
<1>3. AnswerMap' = AnswerMap
  BY DEF AnswerMap
<1>4. Desk!Send(k)
  BY <1>1, <1>2, <1>3 DEF Desk!Send, JournalMap, AnswerMap
<1>5. QED
  BY <1>4 DEF Desk!Next

(* What TWS says of an order that was sent is an answer. *)
LEMMA AnswerSeen ==
    ASSUME NEW k \in Keys, placed[k] = 1,
           NEW a \in {"taken", "refused"}, AnswersTo(k)' = AnswersTo(k) \cup {a},
           \A j \in Keys \ {k} : AnswersTo(j)' = AnswersTo(j),
           UNCHANGED <<row, placed>>
    PROVE  Desk!Next
<1>1. AnswerMap' = [AnswerMap EXCEPT ![k] = @ \cup {a}]
  BY DEF AnswerMap
<1>2. JournalMap' = JournalMap
  BY DEF JournalMap
<1>3. Desk!Answer(k, a)
  BY <1>1, <1>2 DEF Desk!Answer, JournalMap, AnswerMap
<1>4. QED
  BY <1>3 DEF Desk!Next

(* An answer of an uncertain order is stored. *)
LEMMA SettleSeen ==
    ASSUME IInv, NEW k \in Keys, row[k].st \in Uncertain,
           NEW s \in Certain, Stored(k, s), UNCHANGED <<tws, erred, placed>>,
           JournalOf(s) \in AnswersTo(k)
    PROVE  Desk!Next
<1>1. row'[k].st = s /\ \A j \in Keys \ {k} : row'[j] = row[j]
  BY StoredRow DEF IInv
<1>2. JournalMap[k] = "open" /\ JournalOf(s) \in AnswerMap[k]
  BY DEF JournalMap, AnswerMap, JournalOf, Uncertain
<1>3. JournalMap' = [JournalMap EXCEPT ![k] = JournalOf(s)]
  BY <1>1 DEF JournalMap
<1>4. AnswerMap' = AnswerMap
  BY SameAnswers DEF AnswerMap
<1>5. Desk!Settle(k)
  BY <1>2, <1>3, <1>4 DEF Desk!Settle, JournalMap, AnswerMap
<1>6. QED
  BY <1>5 DEF Desk!Next

(* An uncertain order stays uncertain: nothing is seen. *)
LEMMA StillUncertain ==
    ASSUME IInv, NEW k \in Keys, row[k].st \in Uncertain,
           Stored(k, "unknown"), UNCHANGED <<tws, erred, placed>>
    PROVE  [Desk!Next]_(Desk!vars)
<1>1. row'[k].st = "unknown" /\ \A j \in Keys \ {k} : row'[j] = row[j]
  BY StoredRow DEF IInv, Uncertain
<1>2. \A j \in Keys : JournalOf(row'[j].st) = JournalOf(row[j].st)
  BY <1>1 DEF JournalOf, Uncertain
<1>3. QED
  BY <1>2, SameMaps, SameAnswers

-----------------------------------------------------------------------------
(* What TWS does to an order is an answer, or says nothing new. *)
LEMMA GatewaySeen ==
    ASSUME IInv, Gateway, DeskIdle PROVE [Desk!Next]_(Desk!vars)
<1>0. /\ tws \in [Keys -> TwsOrder] /\ erred \subseteq Keys
      /\ UNCHANGED <<row, placed>>
  BY DEF IInv, TypeOK, TwsOrder, DeskIdle
<1>1. ASSUME NEW k \in Keys, Accept(k) \/ Refuse(k) \/ Warn(k)
      PROVE  Desk!Next
  <2>1. placed[k] = 1
    BY <1>1 DEF IInv, SentInv, Accept, Refuse, Warn, Taken
  <2>2. PICK a \in {"taken", "refused"} : AnswersTo(k)' = AnswersTo(k) \cup {a}
    <3>1. CASE Accept(k)
      <4>1. tws[k].st = "inflight" /\ tws'[k].st = "working" /\ erred' = erred
        BY <1>0, <3>1 DEF Accept, TwsOrder
      <4>2. AnswersTo(k)' = AnswersTo(k) \cup {"taken"}
        BY <4>1 DEF AnswersTo, Taken
      <4>3. QED
        BY <4>2
    <3>2. CASE Refuse(k)
      <4>1. tws[k].st = "inflight" /\ tws'[k].st = "refused" /\ erred' = erred
        BY <1>0, <3>2 DEF Refuse, TwsOrder
      <4>2. AnswersTo(k)' = AnswersTo(k) \cup {"refused"}
        BY <4>1 DEF AnswersTo, Taken
      <4>3. QED
        BY <4>2
    <3>3. CASE Warn(k)
      <4>1. tws' = tws /\ k \in erred'
        BY <3>3 DEF Warn
      <4>2. AnswersTo(k)' = AnswersTo(k) \cup {"refused"}
        BY <4>1 DEF AnswersTo
      <4>3. QED
        BY <4>2
    <3>4. QED
      BY <1>1, <3>1, <3>2, <3>3
  <2>3. ASSUME NEW j \in Keys \ {k} PROVE AnswersTo(j)' = AnswersTo(j)
    <3>1. tws'[j] = tws[j] /\ (j \in erred' <=> j \in erred)
      BY <1>0, <1>1 DEF Accept, Refuse, Warn
    <3>2. QED
      BY <3>1, SameAnswers
  <2>4. QED
    BY <1>0, <2>1, <2>2, <2>3, AnswerSeen
<1>2. ASSUME NEW k \in Keys, Drop(k) \/ Fill(k) \/ Cancel(k)
      PROVE  [Desk!Next]_(Desk!vars)
  <2>1. \/ tws[k].st = "inflight" /\ tws'[k].st = "none"
        \/ tws[k].st = "working" /\ tws'[k].st \in Taken
    BY <1>0, <1>2 DEF Drop, Fill, Cancel, NoOrder, TwsOrder, Taken
  <2>2. erred' = erred /\ \A j \in Keys \ {k} : tws'[j] = tws[j]
    BY <1>0, <1>2 DEF Drop, Fill, Cancel
  <2>3. AnswersTo(k)' = AnswersTo(k)
    BY <2>1, <2>2 DEF AnswersTo, Taken
  <2>4. \A j \in Keys : AnswersTo(j)' = AnswersTo(j)
    BY <2>2, <2>3, SameAnswers
  <2>5. QED
    BY <1>0, <2>4, SameMaps
<1>3. ASSUME UNCHANGED <<tws, erred>> PROVE [Desk!Next]_(Desk!vars)
  BY <1>0, <1>3, SameMaps, SameAnswers
<1>4. QED
  BY <1>1, <1>2, <1>3 DEF Gateway, RowAgain, LoseConnection, Relogin, gatewayVars

(* A new row is seen as a write; the other outcomes are not seen. *)
LEMMA JournalSeen ==
    ASSUME IInv, Journal PROVE [Desk!Next]_(Desk!vars)
<1>0. UNCHANGED <<tws, erred, placed>>
  BY DEF Journal, gatewayVars
<1>1. CASE Journalled
  <2>1. Key \in Keys /\ JournalOf(row[Key].st) = "none"
    BY <1>1 DEF IInv, CommandInv, Keys, Key, Orders, Journal, Journalled,
       NoRow, JournalOf
  <2>2. /\ JournalOf(row'[Key].st) = "open"
        /\ \A j \in Keys \ {Key} : row'[j] = row[j]
    BY <1>1, <2>1 DEF IInv, TypeOK, Journalled, JournalOf, Uncertain
  <2>3. QED
    BY <1>0, <2>1, <2>2, WriteSeen
<1>2. CASE UNCHANGED row
  BY <1>0, <1>2, SameMaps, SameAnswers
<1>3. QED
  BY <1>1, <1>2 DEF Journal, IdTaken, AlreadySubmitted, PerhapsSubmitted

(* Placing the order is seen as its only sending, whether or not it raised. *)
LEMMA PlaceSeen ==
    ASSUME IInv, Place \/ PlaceFails PROVE [Desk!Next]_(Desk!vars)
<1>0. /\ Key \in Keys /\ row[Key].st = "submitting"
      /\ placed[Key] = 0 /\ tws[Key].st = "none" /\ erred' = erred
  BY DEF IInv, CommandInv, SentInv, Keys, Key, Orders, Place, PlaceFails
<1>1. /\ row'[Key].st \in Uncertain
      /\ \A j \in Keys \ {Key} : row'[j] = row[j]
  BY <1>0, StoredRow DEF IInv, Place, PlaceFails, Uncertain
<1>2. \A j \in Keys : JournalOf(row'[j].st) = JournalOf(row[j].st)
  BY <1>0, <1>1 DEF JournalOf, Uncertain
<1>3. CASE UNCHANGED <<tws, placed>>
  BY <1>0, <1>2, <1>3, SameMaps, SameAnswers
<1>4. CASE OrderSent(Key, order.side, order.qty) /\ placed' = [placed EXCEPT ![Key] = @ + 1]
  <2>1. placed' = [placed EXCEPT ![Key] = 1]
    BY <1>0, <1>4
  <2>2. tws'[Key].st = "inflight" /\ \A j \in Keys \ {Key} : tws'[j] = tws[j]
    BY <1>0, <1>4 DEF OrderSent, IInv, TypeOK
  <2>3. ASSUME NEW j \in Keys PROVE AnswersTo(j)' = AnswersTo(j)
    <3>1. CASE j = Key
      BY <1>0, <2>2, <3>1, NoAnswers
    <3>2. CASE j # Key
      BY <1>0, <2>2, <3>2, SameAnswers
    <3>3. QED
      BY <3>1, <3>2
  <2>4. \A j \in Keys : AnswersTo(j)' = AnswersTo(j)
    BY <2>3
  <2>5. JournalOf(row[Key].st) = "open"
    BY <1>0 DEF JournalOf, Uncertain
  <2>6. QED
    BY <1>0, <1>2, <2>1, <2>4, <2>5, SendSeen
<1>5. QED
  BY <1>3, <1>4 DEF Place, PlaceFails

(* A status that is stored is an answer TWS gave. *)
LEMMA AnswersSeen ==
    ASSUME IInv,
           Acknowledged \/ Rejected \/ AckTimesOut \/ FoundOpen \/ FoundCompleted
           \/ NotCompleted \/ LookupTimesOut
    PROVE  [Desk!Next]_(Desk!vars)
<1>0. UNCHANGED <<tws, erred, placed>>
  BY DEF Acknowledged, Rejected, AckTimesOut, FoundOpen, FoundCompleted,
     NotCompleted, LookupTimesOut, gatewayVars
<1>1. CASE Acknowledged \/ Rejected
  <2>1. Key \in Keys /\ row[Key].st \in Uncertain /\ asked = Key
    BY <1>1 DEF IInv, CommandInv, Keys, Key, Orders, Acknowledged, Rejected,
       Uncertain
  <2>2. reply \in Certain /\ Stored(Key, reply)
    BY <1>1 DEF IInv, TypeOK, Acknowledged, Rejected, Certain
  <2>3. \/ reply = "rejected" /\ (tws[Key].st = "refused" \/ Key \in erred)
        \/ reply \in {"submitted", "raw", "filled", "cancelled"} /\ tws[Key].st \in Taken
    BY <1>1, <2>1, <2>2 DEF IInv, TypeOK, HeardInv, Acknowledged, Rejected,
       Completed, Taken
  <2>4. JournalOf(reply) \in AnswersTo(Key)
    BY <2>3 DEF JournalOf, AnswersTo, Uncertain
  <2>5. QED
    BY <1>0, <2>1, <2>2, <2>4, SettleSeen
<1>2. CASE FoundOpen \/ FoundCompleted
  <2>1. PICK k \in Keys, s \in Certain :
            /\ row[k].st \in Uncertain /\ Stored(k, s)
            /\ tws[k].st \in Taken \cup {"refused"}
            /\ JournalOf(s) = (IF tws[k].st = "refused" THEN "refused" ELSE "taken")
    <3>1. CASE FoundOpen
      <4>1. PICK k \in todo : /\ tws[k].st \in DOMAIN Words
                             /\ \E word \in Words[tws[k].st] : LookedUp(k, word)
        BY <3>1 DEF FoundOpen
      <4>2. PICK word \in Words[tws[k].st] : LookedUp(k, word)
        BY <4>1
      <4>3. k \in Keys /\ row[k].st \in Uncertain
        BY DEF IInv, CommandInv, TypeOK
      <4>4. QED
        BY <4>1, <4>2, <4>3, WordsHonest DEF LookedUp, Taken
    <3>2. CASE FoundCompleted
      <4>1. /\ key \in Keys /\ row[key].st \in Uncertain
            /\ tws[key].st \in DOMAIN CompletedWords
        BY <3>2 DEF IInv, CommandInv, TypeOK, FoundCompleted, CompletedOrders
      <4>2. PICK word \in CompletedWords[tws[key].st] : LookedUp(key, word)
        BY <3>2 DEF FoundCompleted
      <4>3. QED
        BY <4>1, <4>2, CompletedWordsHonest DEF LookedUp, Taken
    <3>3. QED
      BY <1>2, <3>1, <3>2
  <2>2. JournalOf(s) \in AnswersTo(k)
    BY <2>1 DEF AnswersTo
  <2>3. QED
    BY <1>0, <2>1, <2>2, SettleSeen
<1>3. CASE AckTimesOut
  <2>1. Key \in Keys /\ row[Key].st \in Uncertain /\ Stored(Key, "unknown")
    BY <1>3 DEF IInv, CommandInv, Keys, Key, Orders, AckTimesOut, Uncertain
  <2>2. QED
    BY <1>0, <2>1, StillUncertain
<1>4. CASE NotCompleted \/ LookupTimesOut
  <2>1. PICK k \in Keys : row[k].st \in Uncertain /\ Stored(k, "unknown")
    BY <1>4 DEF IInv, CommandInv, TypeOK, NotCompleted, LookupTimesOut,
       NotFound, LookedUp
  <2>2. QED
    BY <1>0, <2>1, StillUncertain
<1>5. QED
  BY <1>1, <1>2, <1>3, <1>4

(* Whatever the desk, the operator or TWS does is a step of the journal,   *)
(* or is not seen.                                                         *)
LEMMA StepSeen == ASSUME IInv, [Next]_vars PROVE [Desk!Next]_(Desk!vars)
<1>1. CASE UNCHANGED <<row, tws, erred, placed>>
  BY <1>1, SameMaps, SameAnswers
<1>2. CASE GatewayStep
  BY <1>2, GatewaySeen DEF GatewayStep, DeskIdle
<1>3. CASE Operator
  <2>1. UNCHANGED <<row, tws, erred, placed>>
    BY <1>3 DEF Operator, Look, Disarm, Arm, Disconnect, Connect, Bind,
       Recover, Preview, Submit, gatewayVars
  <2>2. QED
    BY <2>1, <1>1
<1>4. CASE Restart \/ UNCHANGED vars
  BY <1>4, <1>1 DEF Restart, gatewayVars, vars
<1>5. CASE Work
  <2>1. CASE \/ ReadPositions \/ ReadOrders \/ AccountMismatch \/ SnapshotFails
             \/ WhatIfAccepts \/ WhatIfRefuses \/ NotOpen \/ LookupRaises \/ RecoveryEnds
    <3>1. UNCHANGED <<row, tws, erred, placed>>
      BY <2>1 DEF ReadPositions, ReadOrders, AccountMismatch, SnapshotFails,
         WhatIfAccepts, WhatIfRefuses, NotOpen, LookupRaises, RecoveryEnds,
         gatewayVars
    <3>2. QED
      BY <3>1, <1>1
  <2>2. QED
    BY <1>5, <2>1, JournalSeen, PlaceSeen, AnswersSeen DEF Work
<1>6. QED
  BY <1>2, <1>3, <1>4, <1>5 DEF Next

(* Whatever becomes of its calls, of the connection and of the process, an *)
(* intent is journalled before it is sent, is sent at most once, and what  *)
(* settles it in the ledger is something TWS told of it: the desk is an    *)
(* order journal.                                                          *)
THEOREM DeskIsAnOrderJournal == Spec => ImplementsOrderJournal
<1>1. Init => Desk!Init
  BY DEF Init, Desk!Init, NoRow, NoOrder, JournalOf, AnswersTo, Uncertain, Taken
<1>2. IInv /\ [Next]_vars => [Desk!Next]_(Desk!vars)
  BY StepSeen
<1>3. QED
  BY <1>1, <1>2, InvCorrect, PTL DEF Spec, ImplementsOrderJournal, Desk!Spec
=============================================================================
