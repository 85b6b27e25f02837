------------------------- MODULE PaperOutbox_proofs -------------------------
(***************************************************************************)
(* What holds of PaperOutbox for any set of fills, any number of pumps,    *)
(* syncs, journalled changes and failures, and any size of the batches:    *)
(*                                                                         *)
(*   OutboxTypeCorrect      Spec => []TypeOK                               *)
(*   PushedOnceCorrect      Spec => []PushedOnce                           *)
(*   RecordedOnceCorrect    Spec => []RecordedOnce                         *)
(*   SentIsDeliveredCorrect Spec => []SentIsDelivered                      *)
(*                                                                         *)
(* First what moving rows does to an order, then which keys a publisher    *)
(* can have in hand at which place, then the two kinds of receiver.        *)
(***************************************************************************)
EXTENDS PaperOutbox, SequenceTheorems, TLAPS

Distinct(rows) == \A i, j \in 1..Len(rows) : rows[i] = rows[j] => i = j

(* Taking a row out keeps the others, once each.                           *)
LEMMA WithoutRow ==
    ASSUME NEW S, NEW rows \in Seq(S), NEW k
    PROVE  /\ Without(rows, k) \in Seq(S)
           /\ Len(Without(rows, k)) <= Len(rows)
           /\ \A i \in 1..Len(Without(rows, k)) :
                 \E j \in 1..Len(rows) : Without(rows, k)[i] = rows[j]
           /\ Distinct(rows) =>
                 /\ Distinct(Without(rows, k))
                 /\ \A i \in 1..Len(Without(rows, k)) : Without(rows, k)[i] # k
<1>1. CASE ~Contains(rows, k)
  BY <1>1 DEF Without, Contains, Distinct
<1>2. CASE Contains(rows, k)
  <2> DEFINE n == Place(rows, k)
             u == Without(rows, k)
  <2>1. n \in 1..Len(rows) /\ rows[n] = k
    BY <1>2 DEF Contains, Place
  <2>2. u = SubSeq(rows, 1, n - 1) \o SubSeq(rows, n + 1, Len(rows))
    BY <1>2 DEF Without, RemoveAt
  <2> HIDE DEF n
  <2> DEFINE a == SubSeq(rows, 1, n - 1)
             b == SubSeq(rows, n + 1, Len(rows))
  <2>a. /\ a \in Seq(S) /\ Len(a) = n - 1
        /\ \A i \in 1..(n - 1) : a[i] = rows[i]
    BY <2>1
  <2>b. /\ b \in Seq(S) /\ Len(b) = Len(rows) - n
        /\ \A i \in 1..(Len(rows) - n) : b[i] = rows[n + i]
    BY <2>1
  <2> HIDE DEF a, b
  <2>c. u = a \o b
    BY <2>2 DEF a, b
  <2> HIDE DEF u
  <2>3. u \in Seq(S) /\ Len(u) = Len(rows) - 1
    BY <2>1, <2>a, <2>b, <2>c
  <2>4. \A i \in 1..Len(u) : u[i] = IF i < n THEN rows[i] ELSE rows[i + 1]
    <3>1. \A i \in 1..Len(u) : u[i] = IF i <= Len(a) THEN a[i] ELSE b[i - Len(a)]
      BY <2>a, <2>b, <2>c, ConcatProperties
    <3> QED  BY <3>1, <2>1, <2>a, <2>b, <2>3
  <2>5. \A i \in 1..Len(u) : \E j \in 1..Len(rows) : u[i] = rows[j]
    BY <2>1, <2>3, <2>4
  <2>6. ASSUME Distinct(rows) PROVE Distinct(u) /\ \A i \in 1..Len(u) : u[i] # k
    <3>1. \A i \in 1..Len(u) : u[i] # k
      <4> TAKE i \in 1..Len(u)
      <4>1. PICK j \in 1..Len(rows) : u[i] = rows[j] /\ j # n
        BY <2>1, <2>3, <2>4
      <4> QED  BY <4>1, <2>1, <2>6 DEF Distinct
    <3>2. ASSUME NEW i \in 1..Len(u), NEW j \in 1..Len(u), u[i] = u[j] PROVE i = j
      <4> DEFINE at(m) == IF m < n THEN m ELSE m + 1
      <4>1. at(i) \in 1..Len(rows) /\ at(j) \in 1..Len(rows)
        BY <2>1, <2>3
      <4>2. u[i] = rows[at(i)] /\ u[j] = rows[at(j)]
        BY <2>4
      <4>3. at(i) = at(j)
        BY <4>1, <4>2, <3>2, <2>6 DEF Distinct
      <4> QED  BY <4>3, <2>1, <2>3
    <3> QED  BY <3>1, <3>2 DEF Distinct
  <2> QED  BY <2>3, <2>5, <2>6 DEF u
<1> QED  BY <1>1, <1>2

(* So does adding one at the end.                                          *)
LEMMA RowAppended ==
    ASSUME NEW S, NEW rows \in Seq(S), NEW k \in S,
           Distinct(rows), \A i \in 1..Len(rows) : rows[i] # k
    PROVE  Append(rows, k) \in Seq(S) /\ Distinct(Append(rows, k))
<1>1. Append(rows, k) \in Seq(S) /\ Len(Append(rows, k)) = Len(rows) + 1
  OBVIOUS
<1>2. \A i \in 1..Len(rows) + 1 :
          Append(rows, k)[i] = IF i <= Len(rows) THEN rows[i] ELSE k
  OBVIOUS
<1> QED  BY <1>1, <1>2 DEF Distinct

(* So does moving it to the end.                                           *)
LEMMA RowToTheEnd ==
    ASSUME NEW S, NEW rows \in Seq(S), NEW k \in S
    PROVE  /\ ToTheEnd(rows, k) \in Seq(S)
           /\ Distinct(rows) => Distinct(ToTheEnd(rows, k))
<1> DEFINE u == Without(rows, k)
<1>1. /\ u \in Seq(S)
      /\ Distinct(rows) => Distinct(u) /\ \A i \in 1..Len(u) : u[i] # k
  BY WithoutRow
<1> HIDE DEF u
<1>2. ToTheEnd(rows, k) = Append(u, k)
  BY DEF ToTheEnd, u
<1>3. Append(u, k) \in Seq(S)
  BY <1>1
<1>4. ASSUME Distinct(rows) PROVE Distinct(Append(u, k))
  BY <1>1, <1>4, RowAppended
<1> QED  BY <1>2, <1>3, <1>4

(* A batch is made of rows of the table.                                   *)
LEMMA BatchOfRows ==
    ASSUME NEW S, NEW rows \in Seq(S), NEW n \in Nat
    PROVE  FirstOf(rows, n) \in Seq(S)
BY DEF FirstOf

-----------------------------------------------------------------------------
(* What a publisher may have in hand.                                      *)

RecordedFills == {"monitor", "trade"} \X Fills

Worker == [pc : Places, job : {"none", "fills", "states", "flush"},
           todo : SUBSET Fills, rows : Seq(BaseKeys),
           key : Keys \cup {<<>>}, last : BOOLEAN]

(* While an item is treated, its row is still the first of the batch.      *)
InHand(x) ==
    /\ x.job # "none"
    /\ x.job = "fills" => x.key \in PushKeys \cup RecordedFills
    /\ x.job = "states" => x.key \in StateKeys
    /\ x.job = "flush" => x.key \in BaseKeys
    /\ x.job # "fills" => x.rows # <<>>

WorkerOK(x) ==
    /\ x \in Worker
    /\ x.job = "states" => x.rows \in Seq(StateKeys)
    /\ x.pc = "push" => x.job = "fills" /\ x.key \in PushKeys
    /\ x.pc = "project" => x.job = "fills" /\ x.key \in RecordedFills
    /\ x.pc \in PlacesOfRecord => InHand(x) /\ x.key \in BaseKeys
    /\ x.pc = "mark" => InHand(x) /\ x.job # "flush"

(* A row is journalled under a number given out, and once.                 *)
GivenOut(rows, n) == \A i \in 1..Len(rows) : rows[i][2] <= n
RotationOK ==
    /\ rotation \in Seq(StateKeys)
    /\ Distinct(rotation)
    /\ GivenOut(rotation, sequence)

WorkersOK ==
    /\ w \in [Publishers -> Worker]
    /\ \A p \in Publishers :
          /\ WorkerOK(w[p])
          /\ w[p].job = "states" => GivenOut(w[p].rows, sequence)

TypeInv ==
    /\ observed \subseteq Fills /\ sequence \in 0..MaxSequence
    /\ outbox \in [Keys -> {"none", "pending", "sending", "sent"}]
    /\ RotationOK /\ queue \in Seq(BaseKeys)
    /\ intent \in [BaseKeys -> {"none", "intent", "confirmed"}]
    /\ base \in [BaseKeys -> Nat] /\ wire \subseteq BaseKeys
    /\ pushed \in [Fills -> Nat] /\ reported \subseteq Keys
    /\ WorkersOK /\ glitches \in 0..MaxGlitches

Busy(p, place, k) == w[p].pc = place /\ w[p].key = k

(* One publisher at most is about to push a fill, it holds the claim, and  *)
(* nothing was pushed before the claim.                                    *)
AnnouncedOnce(f, k) ==
    /\ Claimable(k) => pushed[f] = 0
    /\ pushed[f] <= 1
    /\ outbox[k] = "sent" => pushed[f] > 0
    /\ \A p \in Publishers :
          /\ Busy(p, "push", k) => outbox[k] = "sending" /\ pushed[f] = 0
          /\ Busy(p, "mark", k) => pushed[f] > 0
          /\ \A q \in Publishers : Busy(p, "push", k) /\ Busy(q, "push", k) => p = q
PushInv == \A f \in Fills : AnnouncedOnce(f, <<"push", f>>)

(* The write lock has one holder.                                          *)
LockInv == \A p, q \in Publishers :
    w[p].pc \in Locked /\ w[q].pc \in Locked => p = q

(* An event without an intent was never appended; whoever is about to      *)
(* append one made the intent, alone; a record that was seen stays.        *)
AppendedOnce(k) ==
    /\ intent[k] = "none" => base[k] = 0 /\ k \notin wire
    /\ base[k] <= 1 /\ (k \in wire => base[k] = 0)
    /\ outbox[k] = "sent" => base[k] > 0
    /\ \A p \in Publishers :
          /\ Busy(p, "append", k) => base[k] = 0 /\ k \notin wire /\ intent[k] # "none"
          /\ Busy(p, "confirm", k) \/ Busy(p, "mark", k) => base[k] > 0
EventInv == \A k \in BaseKeys : AppendedOnce(k)

-----------------------------------------------------------------------------
(* Keys of different kinds are different.                                  *)
LEMMA KeyKinds ==
    /\ \A f \in Fills : <<"push", f>> \in PushKeys
    /\ \A f \in Fills, t \in {"monitor", "trade"} : <<t, f>> \in RecordedFills
    /\ \A n \in 1..MaxSequence : <<"state", n>> \in StateKeys
    /\ \A k \in PushKeys : k[1] = "push" /\ k[2] \in Fills /\ k = <<"push", k[2]>>
    /\ \A k \in RecordedFills : k[1] \in {"monitor", "trade"} /\ k[2] \in Fills
    /\ \A k \in StateKeys : /\ k[1] = "state" /\ k[2] \in 1..MaxSequence
                             /\ k = <<"state", k[2]>>
    /\ BaseKeys = RecordedFills \cup StateKeys
    /\ Keys = PushKeys \cup BaseKeys
    /\ PushKeys \cap BaseKeys = {} /\ <<>> \notin Keys
BY DEF PushKeys, StateKeys, BaseKeys, Keys, RecordedFills

(* Numbers given out stay given out.                                       *)
LEMMA GivenOutGrows ==
    ASSUME NEW rows \in Seq(StateKeys), NEW n \in Nat, NEW m \in Nat, n <= m,
           GivenOut(rows, n)
    PROVE  /\ GivenOut(rows, m)
           /\ \A k \in StateKeys : k[2] <= m => GivenOut(Append(rows, k), m)
<1>1. \A i \in 1..Len(rows) : rows[i][2] \in Nat /\ rows[i][2] <= n
  <2>1. \A i \in 1..Len(rows) : rows[i] \in StateKeys
    OBVIOUS
  <2> QED  BY <2>1, KeyKinds, BoundAssumption DEF GivenOut
<1>2. GivenOut(rows, m)
  BY <1>1 DEF GivenOut
<1>3. ASSUME NEW k \in StateKeys, k[2] <= m PROVE GivenOut(Append(rows, k), m)
  <2>1. /\ Len(Append(rows, k)) = Len(rows) + 1
        /\ \A i \in 1..Len(rows) + 1 :
              Append(rows, k)[i] = IF i <= Len(rows) THEN rows[i] ELSE k
    OBVIOUS
  <2> QED  BY <1>2, <1>3, <2>1 DEF GivenOut
<1> QED  BY <1>2, <1>3

(* Moving a row that was given out keeps the journal's order in order.     *)
LEMMA Reordered ==
    ASSUME RotationOK, NEW k \in StateKeys, k[2] <= sequence,
           rotation' = ToTheEnd(rotation, k), UNCHANGED sequence
    PROVE  RotationOK'
<1> DEFINE u == Without(rotation, k)
<1>1. u \in Seq(StateKeys) /\ GivenOut(u, sequence)
  <2>1. /\ u \in Seq(StateKeys)
        /\ \A i \in 1..Len(u) : \E j \in 1..Len(rotation) : u[i] = rotation[j]
    BY WithoutRow DEF RotationOK
  <2> QED  BY <2>1 DEF RotationOK, GivenOut
<1>2. rotation' \in Seq(StateKeys) /\ Distinct(rotation')
  BY RowToTheEnd DEF RotationOK
<1> HIDE DEF u
<1>3. rotation' = Append(u, k)
  BY DEF ToTheEnd, u
<1>4. GivenOut(rotation', sequence')
  <2>1. /\ Len(rotation') = Len(u) + 1
        /\ \A i \in 1..Len(u) + 1 : rotation'[i] = IF i <= Len(u) THEN u[i] ELSE k
    BY <1>1, <1>3
  <2> QED  BY <1>1, <2>1 DEF GivenOut
<1> QED  BY <1>2, <1>4 DEF RotationOK, Distinct

(* Not touching the journal keeps it.                                      *)
LEMMA RotationKept ==
    ASSUME TypeInv, UNCHANGED <<rotation, sequence>>
    PROVE  RotationOK'
BY DEF TypeInv, RotationOK, Distinct, GivenOut

(* So does taking a row out.                                               *)
LEMMA TakenOut ==
    ASSUME RotationOK, NEW k, rotation' = Without(rotation, k), UNCHANGED sequence
    PROVE  RotationOK'
<1> DEFINE u == Without(rotation, k)
<1>1. /\ u \in Seq(StateKeys) /\ Distinct(u)
      /\ \A i \in 1..Len(u) : \E j \in 1..Len(rotation) : u[i] = rotation[j]
  BY WithoutRow DEF RotationOK
<1>2. GivenOut(u, sequence)
  BY <1>1 DEF RotationOK, GivenOut
<1>3. rotation' = u
  OBVIOUS
<1> HIDE DEF u
<1> QED  BY <1>1, <1>2, <1>3 DEF RotationOK, Distinct, GivenOut

(* A publisher that takes another key elsewhere is still a publisher.      *)
LEMMA WorkerTurns ==
    ASSUME NEW x \in Worker, NEW k \in Keys, NEW c \in Places
    PROVE  [x EXCEPT !.key = k, !.pc = c] \in Worker
BY DEF Worker

(* A publisher that is done with an item goes on as it should.             *)
LEMMA ItemDone ==
    ASSUME NEW x, WorkerOK(x), InHand(x)
    PROVE  /\ WorkerOK(AfterItem(x))
           /\ AfterItem(x).pc \in {"next", "project"}
           /\ AfterItem(x).job = x.job
           /\ x.job = "states" =>
                 \A n \in Nat : GivenOut(x.rows, n) => GivenOut(AfterItem(x).rows, n)
<1>1. CASE x.job # "fills"
  <2>1. AfterItem(x) = [x EXCEPT !.rows = Tail(@), !.pc = "next"]
    BY <1>1 DEF AfterItem
  <2>2. x.rows \in Seq(BaseKeys) /\ x.rows # <<>>
    BY <1>1 DEF WorkerOK, Worker, InHand
  <2>3. /\ Tail(x.rows) \in Seq(BaseKeys)
        /\ Len(Tail(x.rows)) = Len(x.rows) - 1
        /\ \A i \in 1..Len(Tail(x.rows)) : Tail(x.rows)[i] = x.rows[i + 1]
    BY <2>2, HeadTailProperties
  <2>4. x.job = "states" => Tail(x.rows) \in Seq(StateKeys)
    BY <2>2 DEF WorkerOK
  <2>5. \A n \in Nat : GivenOut(x.rows, n) => GivenOut(Tail(x.rows), n)
    BY <2>2, <2>3 DEF GivenOut
  <2>6. AfterItem(x) \in Worker
    BY <2>1, <2>3 DEF WorkerOK, Worker, Places
  <2>7. /\ AfterItem(x).pc = "next" /\ AfterItem(x).job = x.job
        /\ AfterItem(x).rows = Tail(x.rows)
    BY <2>1 DEF WorkerOK, Worker
  <2> QED  BY <2>4, <2>5, <2>6, <2>7 DEF WorkerOK, PlacesOfRecord
<1>2. CASE x.job = "fills" /\ x.key[1] \in {"push", "monitor"}
  <2>1. x.key \in PushKeys \cup RecordedFills /\ x.key[2] \in Fills
    BY <1>2, KeyKinds DEF InHand
  <2>2. Following[x.key[1]] \in {"monitor", "trade"}
    BY <1>2 DEF Following
  <2>3. AfterItem(x) =
          [x EXCEPT !.key = <<Following[x.key[1]], x.key[2]>>, !.pc = "project"]
    BY <1>2 DEF AfterItem, Following
  <2>4. <<Following[x.key[1]], x.key[2]>> \in RecordedFills
    BY <2>1, <2>2, KeyKinds
  <2> DEFINE k == <<Following[x.key[1]], x.key[2]>>
  <2>5. AfterItem(x) \in Worker
    <3>1. k \in Keys
      BY <2>4, KeyKinds
    <3>2. AfterItem(x) = [x EXCEPT !.key = k, !.pc = "project"]
      BY <2>3
    <3>3. x \in Worker /\ "project" \in Places
      BY DEF WorkerOK, Places
    <3> HIDE DEF k
    <3>4. [x EXCEPT !.key = k, !.pc = "project"] \in Worker
      BY <3>1, <3>3, WorkerTurns, Zenon
    <3> QED  BY <3>2, <3>4, Zenon
  <2>6. /\ AfterItem(x).pc = "project" /\ AfterItem(x).job = "fills"
        /\ AfterItem(x).key \in RecordedFills
    BY <1>2, <2>3, <2>4 DEF WorkerOK, Worker
  <2> QED  BY <1>2, <2>5, <2>6 DEF WorkerOK, PlacesOfRecord
<1>3. CASE x.job = "fills" /\ x.key[1] \notin {"push", "monitor"}
  <2>1. AfterItem(x) = [x EXCEPT !.pc = "next"]
    BY <1>3 DEF AfterItem, Following
  <2>2. AfterItem(x) \in Worker /\ AfterItem(x).pc = "next" /\ AfterItem(x).job = "fills"
    BY <1>3, <2>1 DEF WorkerOK, Worker, Places
  <2> QED  BY <1>3, <2>2 DEF WorkerOK, PlacesOfRecord
<1> QED  BY <1>1, <1>2, <1>3

-----------------------------------------------------------------------------
(* Types.                                                                  *)

(* An action that moves one publisher to an allowed state, on allowed      *)
(* stores, keeps the types.                                                *)
LEMMA OneMoves ==
    ASSUME TypeInv, NEW p \in Publishers, NEW y, w' = [w EXCEPT ![p] = y],
           WorkerOK(y), y.job = "states" => GivenOut(y.rows, sequence),
           UNCHANGED sequence
    PROVE  WorkersOK'
<1>1. y \in Worker
  BY DEF WorkerOK
<1>2. \A q \in Publishers : w'[q] = IF q = p THEN y ELSE w[q]
  BY DEF TypeInv, WorkersOK
<1> QED  BY <1>1, <1>2 DEF TypeInv, WorkersOK

Moves(p, c) == w' = [w EXCEPT ![p].pc = c]

(* So does one that only changes the place.                                *)
LEMMA PlaceMoves ==
    ASSUME TypeInv, NEW p \in Publishers, NEW c \in Places, Moves(p, c),
           c \notin {"push", "project"},
           c \in PlacesOfRecord => InHand(w[p]) /\ w[p].key \in BaseKeys,
           c = "mark" => InHand(w[p]) /\ w[p].job # "flush",
           UNCHANGED sequence
    PROVE  WorkersOK'
<1> DEFINE y == [w[p] EXCEPT !.pc = c]
<1>1. w[p] \in Worker /\ WorkerOK(w[p])
  BY DEF TypeInv, WorkersOK
<1>2. /\ y \in Worker /\ y.pc = c /\ y.job = w[p].job
      /\ y.rows = w[p].rows /\ y.key = w[p].key
  BY <1>1 DEF Worker
<1>3. w' = [w EXCEPT ![p] = y]
  BY DEF Moves
<1> HIDE DEF y
<1>4. WorkerOK(y)
  BY <1>1, <1>2 DEF WorkerOK, InHand
<1>5. y.job = "states" => GivenOut(y.rows, sequence)
  BY <1>2 DEF TypeInv, WorkersOK
<1> QED  BY <1>3, <1>4, <1>5, OneMoves

(* A row claimed or marked is a row.                                       *)
LEMMA RowWritten ==
    ASSUME TypeInv, NEW k \in Keys,
           \/ outbox' = outbox \/ Claim(k)
           \/ outbox' = [outbox EXCEPT ![k] = "sent"]
    PROVE  outbox' \in [Keys -> {"none", "pending", "sending", "sent"}]
BY DEF TypeInv, Claim

(* The except branches: only orders and reports change.                    *)
LEMMA NotDeliveredTypes ==
    ASSUME TypeInv, NEW p \in Publishers, InHand(w[p]), NotDelivered(p),
           UNCHANGED sequence
    PROVE  /\ RotationOK' /\ queue' \in Seq(BaseKeys) /\ reported' \subseteq Keys
           /\ WorkersOK'
<1> DEFINE k == w[p].key
<1> USE KeyKinds
<1>1. k \in Keys /\ WorkerOK(w[p])
  BY DEF InHand, TypeInv, WorkersOK, WorkerOK, Worker
<1>2. reported' \subseteq Keys
  BY <1>1 DEF NotDelivered, TypeInv
<1>3. queue' \in Seq(BaseKeys)
  <2>1. CASE w[p].job = "flush"
    <3>1. k \in BaseKeys
      BY <2>1 DEF InHand
    <3>2. queue' = queue \/ queue' = ToTheEnd(queue, k)
      BY <2>1 DEF NotDelivered, last_attempt
    <3> QED  BY <3>1, <3>2, RowToTheEnd DEF TypeInv
  <2>2. CASE w[p].job # "flush"
    BY <2>2 DEF NotDelivered, TypeInv
  <2> QED  BY <2>1, <2>2
<1>4. RotationOK'
  <2>1. CASE w[p].job = "states" /\ Contains(rotation, k)
    <3>1. rotation' = ToTheEnd(rotation, k) /\ k \in StateKeys
      BY <2>1 DEF NotDelivered, defer_monitor_transition, InHand
    <3>2. k[2] <= sequence
      BY <2>1 DEF Contains, TypeInv, RotationOK, GivenOut
    <3> QED  BY <3>1, <3>2, Reordered DEF TypeInv
  <2>2. CASE ~(w[p].job = "states" /\ Contains(rotation, k))
    <3>1. rotation' = rotation
      BY <2>2 DEF NotDelivered
    <3> QED  BY <3>1, RotationKept
  <2> QED  BY <2>1, <2>2
<1>5. w' = [w EXCEPT ![p] = AfterItem(w[p])]
  BY DEF NotDelivered
<1>6. w[p].job = "states" => GivenOut(w[p].rows, sequence)
  BY DEF TypeInv, WorkersOK
<1>7. sequence \in Nat
  BY BoundAssumption DEF TypeInv
<1>8. /\ WorkerOK(AfterItem(w[p]))
      /\ AfterItem(w[p]).job = "states" => GivenOut(AfterItem(w[p]).rows, sequence)
  BY <1>1, <1>6, <1>7, ItemDone
<1>9. WorkersOK'
  BY <1>5, <1>8, OneMoves
<1> QED  BY <1>2, <1>3, <1>4, <1>9

(* A publisher that is done with its item, with what becomes of the item.  *)
LEMMA ItemDoneTypes ==
    ASSUME TypeInv, NEW p \in Publishers, InHand(w[p]),
           w' = [w EXCEPT ![p] = AfterItem(w[p])], UNCHANGED sequence
    PROVE  WorkersOK'
<1>1. WorkerOK(w[p]) /\ sequence \in Nat
  BY BoundAssumption DEF TypeInv, WorkersOK
<1>2. w[p].job = "states" => GivenOut(w[p].rows, sequence)
  BY DEF TypeInv, WorkersOK
<1>3. /\ WorkerOK(AfterItem(w[p]))
      /\ AfterItem(w[p]).job = "states" => GivenOut(AfterItem(w[p]).rows, sequence)
  BY <1>1, <1>2, ItemDone
<1> QED  BY <1>3, OneMoves

(* At the start nobody has anything in hand.                               *)
LEMMA InitTypes == Init => TypeInv
<1> SUFFICES ASSUME Init PROVE TypeInv
  OBVIOUS
<1>1. Idle \in Worker
  BY DEF Idle, Worker, Places
<1>2. w = [p \in Publishers |-> Idle]
  BY DEF Init
<1>3. WorkersOK
  BY <1>1, <1>2 DEF WorkersOK, WorkerOK, Idle, PlacesOfRecord
<1>4. RotationOK
  BY DEF Init, RotationOK, Distinct, GivenOut
<1> QED  BY <1>3, <1>4, BoundAssumption DEF Init, TypeInv

(* The loop's transaction.                                                 *)
LEMMA SaveTypes == TypeInv /\ save_symbol_state => TypeInv'
<1> SUFFICES ASSUME TypeInv, save_symbol_state PROVE TypeInv'
  OBVIOUS
<1> USE KeyKinds, BoundAssumption
<1>1. observed' \subseteq Fills
  BY DEF save_symbol_state, TypeInv
<1>2. CASE _monitor_transition
  <2> DEFINE k == <<"state", sequence + 1>>
  <2>1. sequence' = sequence + 1 /\ sequence' \in 1..MaxSequence /\ k \in StateKeys
    BY <1>2 DEF _monitor_transition, TypeInv
  <2>2. outbox' = [outbox EXCEPT ![k] = "pending"] /\ rotation' = Append(rotation, k)
    BY <1>2, <2>1 DEF _monitor_transition
  <2>3. k[2] = sequence + 1
    OBVIOUS
  <2> HIDE DEF k
  <2>4. outbox' \in [Keys -> {"none", "pending", "sending", "sent"}]
    BY <2>1, <2>2 DEF TypeInv
  <2>5. sequence \in Nat /\ sequence' \in Nat /\ sequence <= sequence'
    BY <2>1 DEF TypeInv
  <2>6. \A i \in 1..Len(rotation) : rotation[i][2] \in 1..MaxSequence
    BY DEF TypeInv, RotationOK
  <2>7. RotationOK'
    <3>1. \A i \in 1..Len(rotation) : rotation[i] # k
      BY <2>3, <2>6 DEF TypeInv, RotationOK, GivenOut
    <3>2. rotation' \in Seq(StateKeys) /\ Distinct(rotation')
      BY <2>1, <2>2, <3>1, RowAppended DEF TypeInv, RotationOK
    <3>3. GivenOut(rotation', sequence')
      BY <2>1, <2>2, <2>3, <2>5, GivenOutGrows DEF TypeInv, RotationOK
    <3> QED  BY <3>2, <3>3 DEF RotationOK, Distinct
  <2>8. WorkersOK'
    <3>1. w' = w
      BY DEF save_symbol_state
    <3>2. ASSUME NEW p \in Publishers, w[p].job = "states"
          PROVE  GivenOut(w[p].rows, sequence')
      <4>1. w[p].rows \in Seq(StateKeys) /\ GivenOut(w[p].rows, sequence)
        BY <3>2 DEF TypeInv, WorkersOK, WorkerOK
      <4> QED  BY <2>5, <4>1, GivenOutGrows
    <3> QED  BY <3>1, <3>2 DEF TypeInv, WorkersOK
  <2> QED  BY <1>1, <2>1, <2>4, <2>7, <2>8 DEF TypeInv, save_symbol_state, vps
<1>3. CASE UNCHANGED <<sequence, outbox, rotation>>
  <2>1. WorkersOK' /\ RotationOK'
    BY <1>3 DEF save_symbol_state, TypeInv, WorkersOK, RotationOK, GivenOut, Distinct
  <2> QED  BY <1>1, <1>3, <2>1 DEF TypeInv, save_symbol_state, vps
<1> QED  BY <1>2, <1>3 DEF save_symbol_state

(* A pass: what is taken in hand comes from the saved states, the queue or *)
(* the journal.                                                            *)
LEMMA PassTypes ==
    ASSUME TypeInv, NEW p \in Publishers,
           begin_pass(p) \/ pending_monitor_transitions(p) \/ end_pass(p)
    PROVE  TypeInv'
<1> USE KeyKinds
<1>1. w[p] \in Worker /\ WorkerOK(w[p])
  BY DEF TypeInv, WorkersOK
<1>2. Idle \in Worker
  BY DEF Idle, Worker, Places
<1>3. WorkersOK'
  <2>1. CASE begin_pass(p)
    <3>1. PICK last \in BOOLEAN :
            w' = [w EXCEPT ![p] = [Idle EXCEPT
                    !.pc = "next",
                    !.job = IF p \in Pumps THEN "fills" ELSE "flush",
                    !.todo = IF p \in Pumps THEN observed ELSE {},
                    !.rows = IF p \in Pumps THEN <<>> ELSE FirstOf(queue, FlushBatch),
                    !.last = last]]
      BY <2>1 DEF begin_pass
    <3> DEFINE job == IF p \in Pumps THEN "fills" ELSE "flush"
               todo == IF p \in Pumps THEN observed ELSE {}
               rows == IF p \in Pumps THEN <<>> ELSE FirstOf(queue, FlushBatch)
               y == [Idle EXCEPT !.pc = "next", !.job = job, !.todo = todo,
                                 !.rows = rows, !.last = last]
    <3>2. w' = [w EXCEPT ![p] = y] /\ UNCHANGED sequence
      BY <2>1, <3>1 DEF begin_pass, store
    <3>3. rows \in Seq(BaseKeys)
      BY BatchOfRows, BoundAssumption DEF TypeInv
    <3>4. job \in {"fills", "flush"} /\ todo \subseteq Fills
      BY DEF TypeInv
    <3> HIDE DEF job, todo, rows
    <3>5. y \in Worker /\ y.pc = "next" /\ y.job \in {"fills", "flush"}
      BY <1>2, <3>3, <3>4 DEF Worker, Places
    <3> HIDE DEF y
    <3>6. WorkerOK(y)
      BY <3>5 DEF WorkerOK, PlacesOfRecord
    <3> QED  BY <3>2, <3>5, <3>6, OneMoves
  <2>2. CASE pending_monitor_transitions(p)
    <3> DEFINE r == FirstOf(rotation, StateBatch)
               y == [w[p] EXCEPT !.job = "states", !.rows = r]
    <3>1. r \in Seq(StateKeys) /\ r \in Seq(BaseKeys)
      <4>1. rotation \in Seq(StateKeys) /\ rotation \in Seq(BaseKeys)
        BY DEF TypeInv, RotationOK
      <4> QED  BY <4>1, BatchOfRows, BoundAssumption
    <3>2. GivenOut(r, sequence)
      <4>1. \A i \in 1..Len(r) : i \in 1..Len(rotation) /\ r[i] = rotation[i]
        BY BoundAssumption DEF FirstOf, TypeInv, RotationOK
      <4> QED  BY <4>1 DEF TypeInv, RotationOK, GivenOut
    <3> HIDE DEF r
    <3>3. y \in Worker /\ y.pc = "next" /\ y.job = "states" /\ y.rows = r
      BY <1>1, <2>2, <3>1 DEF Worker, pending_monitor_transitions
    <3>4. WorkerOK(y)
      BY <3>1, <3>3 DEF WorkerOK, PlacesOfRecord
    <3>5. w' = [w EXCEPT ![p] = y] /\ UNCHANGED sequence
      BY <2>2 DEF pending_monitor_transitions, store, r
    <3> HIDE DEF y
    <3> QED  BY <3>2, <3>3, <3>4, <3>5, OneMoves
  <2>3. CASE end_pass(p)
    <3>1. PICK c \in {"idle", "off"} : w' = [w EXCEPT ![p] = [Idle EXCEPT !.pc = c]]
      <4>1. CASE w[p].last
        BY <2>3, <4>1 DEF end_pass
      <4>2. CASE ~w[p].last
        <5>1. Idle = [Idle EXCEPT !.pc = "idle"]
          BY DEF Idle
        <5> QED  BY <2>3, <4>2, <5>1 DEF end_pass
      <4> QED  BY <4>1, <4>2
    <3> DEFINE y == [Idle EXCEPT !.pc = c]
    <3>2. y \in Worker /\ y.pc = c /\ y.job = "none"
      <4>1. Idle.job = "none"
        BY DEF Idle
      <4> QED  BY <1>2, <4>1 DEF Worker, Places
    <3>3. w' = [w EXCEPT ![p] = y] /\ UNCHANGED sequence
      BY <2>3, <3>1 DEF end_pass, store
    <3> HIDE DEF y
    <3>4. WorkerOK(y)
      BY <3>2 DEF WorkerOK, PlacesOfRecord
    <3> QED  BY <3>2, <3>3, <3>4, OneMoves
  <2> QED  BY <2>1, <2>2, <2>3
<1>4. UNCHANGED <<observed, sequence, outbox, rotation, vps, pushed, reported, glitches>>
  BY DEF begin_pass, pending_monitor_transitions, end_pass, store
<1>5. RotationOK'
  BY <1>4, RotationKept
<1> QED  BY <1>3, <1>4, <1>5 DEF TypeInv, vps

(* Claims.                                                                 *)
LEMMA ClaimTypes ==
    ASSUME TypeInv, NEW p \in Publishers,
           claim_push(p) \/ claim_fill_record(p) \/ claim_state(p) \/ next_queued(p)
    PROVE  TypeInv'
<1> USE KeyKinds
<1>1. w[p] \in Worker /\ WorkerOK(w[p])
  BY DEF TypeInv, WorkersOK
<1>2. CASE claim_push(p)
  <2>1. PICK f \in w[p].todo :
          LET k == <<"push", f>>
              x == [w[p] EXCEPT !.todo = @ \ {f}, !.key = k]
          IN  IF Claimable(k)
              THEN /\ Claim(k)
                   /\ w' = [w EXCEPT ![p] = [x EXCEPT !.pc = "push"]]
                   /\ UNCHANGED reported
              ELSE /\ w' = [w EXCEPT ![p] = AfterItem(x)]
                   /\ reported' = IF InFlight(k) THEN reported \cup {k} ELSE reported
                   /\ UNCHANGED outbox
    BY <1>2 DEF claim_push
  <2> DEFINE k == <<"push", f>>
             x == [w[p] EXCEPT !.todo = @ \ {f}, !.key = k]
             y == [x EXCEPT !.pc = "push"]
  <2>2. k \in PushKeys /\ k \in Keys
    BY <1>1 DEF Worker
  <2> HIDE DEF k
  <2>3. /\ x \in Worker /\ x.pc = "next" /\ x.job = "fills" /\ x.key = k
    BY <1>1, <1>2, <2>2 DEF Worker, claim_push
  <2>4. y \in Worker /\ y.pc = "push" /\ y.job = "fills" /\ y.key = k
    BY <1>1, <1>2, <2>2 DEF Worker, Places, claim_push
  <2>5. WorkerOK(x) /\ InHand(x) /\ WorkerOK(y)
    BY <2>2, <2>3, <2>4 DEF WorkerOK, InHand, PlacesOfRecord
  <2>6. sequence' = sequence /\ RotationOK'
    BY <1>2, RotationKept DEF claim_push, store
  <2>7. CASE Claimable(k)
    <3>1. w' = [w EXCEPT ![p] = y] /\ Claim(k) /\ UNCHANGED reported
      BY <2>1, <2>7 DEF k
    <3>2. WorkersOK'
      BY <2>4, <2>5, <2>6, <3>1, OneMoves
    <3>3. outbox' \in [Keys -> {"none", "pending", "sending", "sent"}]
      BY <2>2, <3>1, RowWritten
    <3> QED  BY <1>2, <2>6, <3>1, <3>2, <3>3 DEF TypeInv, claim_push, store, vps
  <2>8. CASE ~Claimable(k)
    <3>1. /\ w' = [w EXCEPT ![p] = AfterItem(x)] /\ UNCHANGED outbox
          /\ reported' = reported \/ reported' = reported \cup {k}
      BY <2>1, <2>8 DEF k
    <3>2. WorkerOK(AfterItem(x)) /\ AfterItem(x).job = "fills"
      BY <2>3, <2>5, ItemDone
    <3> HIDE DEF x
    <3>3. WorkersOK'
      BY <2>6, <3>1, <3>2, OneMoves
    <3> QED  BY <1>2, <2>2, <2>6, <3>1, <3>3 DEF TypeInv, claim_push, store, vps
  <2> QED  BY <2>7, <2>8
<1>3. CASE claim_fill_record(p)
  <2>1. /\ w[p].pc = "project" /\ InHand(w[p]) /\ w[p].key \in BaseKeys
        /\ w[p].key \in Keys
    BY <1>1, <1>3 DEF claim_fill_record, WorkerOK, InHand
  <2>2. sequence' = sequence /\ RotationOK'
    BY <1>3, RotationKept DEF claim_fill_record, store
  <2>3. WorkersOK'
    <3>1. CASE outbox[w[p].key] = "sent"
      BY <1>3, <2>1, <2>2, <3>1, ItemDoneTypes DEF claim_fill_record
    <3>2. CASE outbox[w[p].key] # "sent"
      <4>1. Moves(p, "queue")
        BY <1>3, <3>2 DEF claim_fill_record, Moves
      <4>2. "queue" \in Places
        BY DEF Places, PlacesOfRecord
      <4> QED  BY <2>1, <2>2, <4>1, <4>2, PlaceMoves
    <3> QED  BY <3>1, <3>2
  <2>4. outbox' \in [Keys -> {"none", "pending", "sending", "sent"}]
    <3>1. outbox' = outbox \/ Claim(w[p].key)
      BY <1>3 DEF claim_fill_record
    <3> QED  BY <2>1, <3>1, RowWritten
  <2> QED  BY <1>3, <2>2, <2>3, <2>4 DEF TypeInv, claim_fill_record, store, vps
<1>4. CASE claim_state(p)
  <2> DEFINE k == Head(w[p].rows)
             x == [w[p] EXCEPT !.key = k]
             y == [x EXCEPT !.pc = "queue"]
  <2>1. /\ w[p].job = "states" /\ w[p].rows \in Seq(StateKeys) /\ w[p].rows # <<>>
        /\ GivenOut(w[p].rows, sequence)
    BY <1>1, <1>4 DEF claim_state, WorkerOK, TypeInv, WorkersOK
  <2>2. k \in StateKeys /\ k \in Keys /\ k[2] <= sequence
    BY <2>1 DEF GivenOut
  <2>3. /\ outbox[k] = "sent" =>
              w' = [w EXCEPT ![p] = AfterItem(x)] /\ UNCHANGED <<outbox, rotation>>
        /\ outbox[k] # "sent" =>
              /\ w' = [w EXCEPT ![p] = y] /\ Claim(k)
              /\ rotation' = rotation \/ rotation' = ToTheEnd(rotation, k)
        /\ sequence' = sequence
    BY <1>4 DEF claim_state, store
  <2> HIDE DEF k
  <2>4. /\ x \in Worker /\ x.pc = "next" /\ x.job = "states"
        /\ x.rows = w[p].rows /\ x.key = k
    BY <1>1, <1>4, <2>1, <2>2 DEF Worker, claim_state
  <2>5. /\ y \in Worker /\ y.pc = "queue" /\ y.job = "states"
        /\ y.rows = w[p].rows /\ y.key = k
    BY <1>1, <2>1, <2>2 DEF Worker, Places, PlacesOfRecord
  <2>6. WorkerOK(x) /\ InHand(x) /\ WorkerOK(y)
    BY <2>1, <2>2, <2>4, <2>5 DEF WorkerOK, InHand, PlacesOfRecord
  <2> HIDE DEF x, y
  <2>7. RotationOK'
    <3>1. CASE rotation' = rotation
      BY <2>3, <3>1, RotationKept
    <3>2. CASE rotation' = ToTheEnd(rotation, k)
      BY <2>2, <2>3, <3>2, Reordered DEF TypeInv
    <3> QED  BY <2>3, <3>1, <3>2
  <2>8. WorkersOK'
    <3>1. CASE outbox[k] = "sent"
      <4>1. sequence \in Nat
        BY BoundAssumption DEF TypeInv
      <4>2. WorkerOK(AfterItem(x)) /\ GivenOut(AfterItem(x).rows, sequence)
        BY <2>1, <2>4, <2>6, <4>1, ItemDone
      <4> QED  BY <2>3, <3>1, <4>2, OneMoves
    <3>2. CASE outbox[k] # "sent"
      BY <2>1, <2>3, <2>5, <2>6, <3>2, OneMoves
    <3> QED  BY <3>1, <3>2
  <2>9. outbox' \in [Keys -> {"none", "pending", "sending", "sent"}]
    BY <2>2, <2>3, RowWritten
  <2> QED  BY <1>4, <2>3, <2>7, <2>8, <2>9 DEF TypeInv, claim_state, store, vps
<1>5. CASE next_queued(p)
  <2> DEFINE k == Head(w[p].rows)
             y == [w[p] EXCEPT !.key = k, !.pc = "queue"]
  <2>1. w[p].job = "flush" /\ w[p].rows \in Seq(BaseKeys) /\ w[p].rows # <<>>
    BY <1>1, <1>5 DEF next_queued, Worker
  <2>2. k \in BaseKeys
    BY <2>1, HeadTailProperties
  <2>3. w' = [w EXCEPT ![p] = y] /\ sequence' = sequence /\ RotationOK'
    BY <1>5, RotationKept DEF next_queued, store
  <2> HIDE DEF k
  <2>4. /\ y \in Worker /\ y.pc = "queue" /\ y.job = "flush"
        /\ y.rows = w[p].rows /\ y.key = k
    BY <1>1, <2>1, <2>2 DEF Worker, Places, PlacesOfRecord
  <2>5. WorkerOK(y)
    BY <2>1, <2>2, <2>4 DEF WorkerOK, InHand, PlacesOfRecord
  <2> HIDE DEF y
  <2>6. WorkersOK'
    BY <2>3, <2>4, <2>5, OneMoves
  <2> QED  BY <1>5, <2>3, <2>6 DEF TypeInv, next_queued, store, vps
<1> QED  BY <1>2, <1>3, <1>4, <1>5

(* A publisher that treats an item: push, mark and the steps of            *)
(* record_event.                                                           *)
LEMMA ItemTypes ==
    ASSUME TypeInv, NEW p \in Publishers,
           \/ push(p) \/ mark_outbox_sent(p) \/ queue_events(p) \/ _write_lock(p)
           \/ find_or_intend(p) \/ append_record(p) \/ readback(p) \/ confirm(p)
           \/ call_fails(p)
    PROVE  TypeInv'
<1> DEFINE k == w[p].key
<1> USE KeyKinds
<1>1. w[p] \in Worker /\ WorkerOK(w[p])
  BY DEF TypeInv, WorkersOK
<1>2. InHand(w[p]) /\ k \in Keys
  <2>1. w[p].pc \in PlacesOfRecord \cup {"push", "mark"}
    BY DEF push, mark_outbox_sent, queue_events, _write_lock, find_or_intend,
           append_record, readback, confirm, call_fails, PlacesOfRecord
  <2>2. InHand(w[p])
    BY <1>1, <2>1 DEF WorkerOK, InHand
  <2>3. w[p].job \in {"none", "fills", "states", "flush"}
    BY <1>1 DEF Worker
  <2> QED  BY <2>2, <2>3 DEF InHand
<1>3. w[p].pc \in PlacesOfRecord => k \in BaseKeys
  BY <1>1 DEF WorkerOK
<1>4. w[p].pc = "push" => k[2] \in Fills /\ w[p].job = "fills"
  BY <1>1 DEF WorkerOK
<1>5. w[p].pc = "mark" => w[p].job # "flush"
  BY <1>1 DEF WorkerOK
<1>6. sequence' = sequence /\ observed' = observed
  BY DEF push, mark_outbox_sent, queue_events, _write_lock, find_or_intend,
         append_record, readback, confirm, call_fails, store
<1>7. PlacesOfRecord \subseteq Places /\ "mark" \in Places
  BY DEF Places
<1> HIDE DEF k
<1>8. Glitch => glitches' \in 0..MaxGlitches
  BY BoundAssumption DEF Glitch, TypeInv
<1>9. UNCHANGED rotation => RotationOK'
  BY <1>6, RotationKept
<1>10. ASSUME NotDelivered(p)
       PROVE  /\ RotationOK' /\ queue' \in Seq(BaseKeys) /\ reported' \subseteq Keys
              /\ WorkersOK'
  BY <1>2, <1>6, <1>10, NotDeliveredTypes
<1>11. CASE push(p)
  <2>1. pushed' \in [Fills -> Nat]
    <3>1. pushed' = pushed \/ pushed' = [pushed EXCEPT ![k[2]] = @ + 1]
      BY <1>11 DEF push, Accepted, k
    <3>2. k[2] \in Fills /\ pushed \in [Fills -> Nat]
      BY <1>4, <1>11 DEF push, TypeInv
    <3> QED  BY <3>1, <3>2
  <2>2. CASE Glitch /\ NotDelivered(p)
    BY <1>6, <1>8, <1>10, <1>11, <2>1, <2>2 DEF push, TypeInv
  <2>3. CASE Moves(p, "mark") /\ UNCHANGED <<rotation, queue, reported, glitches>>
    <3>1. WorkersOK'
      BY <1>2, <1>4, <1>6, <1>7, <1>11, <2>3, PlaceMoves DEF push, PlacesOfRecord
    <3> QED  BY <1>6, <1>9, <1>11, <2>1, <2>3, <3>1 DEF push, TypeInv
  <2> QED  BY <1>11, <2>2, <2>3 DEF push, Moves
<1>12. CASE mark_outbox_sent(p)
  <2>1. WorkersOK'
    BY <1>2, <1>6, <1>12, ItemDoneTypes DEF mark_outbox_sent
  <2>2. outbox' \in [Keys -> {"none", "pending", "sending", "sent"}]
    BY <1>2, <1>12, RowWritten DEF mark_outbox_sent, k
  <2>3. RotationOK'
    <3>1. rotation' = Without(rotation, k)
      BY <1>12 DEF mark_outbox_sent, k
    <3> QED  BY <1>6, <3>1, TakenOut DEF TypeInv
  <2> QED  BY <1>6, <1>12, <2>1, <2>2, <2>3 DEF mark_outbox_sent, TypeInv, vps
<1>13. CASE queue_events(p)
  <2>1. Moves(p, "lock") /\ k \in BaseKeys
    BY <1>3, <1>13 DEF queue_events, Moves, PlacesOfRecord
  <2>2. WorkersOK'
    BY <1>2, <1>6, <1>7, <2>1, PlaceMoves DEF PlacesOfRecord, k
  <2>3. queue' \in Seq(BaseKeys)
    <3>1. queue' = queue \/ queue' = <<k>> \o queue
      BY <1>13 DEF queue_events, k
    <3>2. <<k>> \in Seq(BaseKeys)
      BY <2>1
    <3>3. queue \in Seq(BaseKeys)
      BY DEF TypeInv
    <3>4. <<k>> \o queue \in Seq(BaseKeys)
      BY <3>2, <3>3, ConcatProperties
    <3> QED  BY <3>1, <3>3, <3>4
  <2> QED  BY <1>6, <1>9, <1>13, <2>2, <2>3 DEF queue_events, TypeInv
<1>14. CASE _write_lock(p)
  <2>1. Moves(p, "find") /\ k \in BaseKeys
    BY <1>3, <1>14 DEF _write_lock, Moves, PlacesOfRecord
  <2>2. WorkersOK'
    BY <1>2, <1>6, <1>7, <2>1, PlaceMoves DEF PlacesOfRecord, k
  <2> QED  BY <1>6, <1>9, <1>14, <2>2 DEF _write_lock, TypeInv, vps
<1>15. CASE find_or_intend(p)
  <2>1. k \in BaseKeys
    BY <1>3, <1>15 DEF find_or_intend, PlacesOfRecord
  <2>2. CASE NotDelivered(p) /\ UNCHANGED intent
    BY <1>6, <1>10, <1>15, <2>2 DEF find_or_intend, TypeInv
  <2>3. CASE /\ Moves(p, "confirm") \/ Moves(p, "append")
             /\ UNCHANGED <<rotation, queue, reported>>
             /\ UNCHANGED intent \/ intent' = [intent EXCEPT ![k] = "intent"]
    <3>1. WorkersOK'
      BY <1>2, <1>6, <1>7, <2>1, <2>3, PlaceMoves DEF PlacesOfRecord, k
    <3> QED  BY <1>6, <1>9, <1>15, <2>1, <2>3, <3>1 DEF find_or_intend, TypeInv
  <2> QED  BY <1>15, <2>2, <2>3 DEF find_or_intend, Moves, k
<1>16. CASE append_record(p)
  <2>1. Moves(p, "readback") /\ k \in BaseKeys
    BY <1>3, <1>16 DEF append_record, Moves, PlacesOfRecord
  <2>2. WorkersOK'
    BY <1>2, <1>6, <1>7, <2>1, PlaceMoves DEF PlacesOfRecord, k
  <2>3. base' \in [BaseKeys -> Nat] /\ wire' \subseteq BaseKeys
    <3>1. /\ base' = base \/ base' = [base EXCEPT ![k] = @ + 1]
          /\ wire' = wire \/ wire' = wire \cup {k}
      BY <1>16 DEF append_record, k
    <3>2. base \in [BaseKeys -> Nat] /\ wire \subseteq BaseKeys
      BY DEF TypeInv
    <3> QED  BY <2>1, <3>1, <3>2
  <2>4. glitches' \in 0..MaxGlitches
    BY <1>8, <1>16 DEF append_record, TypeInv
  <2> QED  BY <1>6, <1>9, <1>16, <2>2, <2>3, <2>4 DEF append_record, TypeInv
<1>17. CASE readback(p)
  <2>1. CASE NotDelivered(p)
    BY <1>6, <1>10, <1>17, <2>1 DEF readback, TypeInv
  <2>2. CASE Moves(p, "confirm") /\ UNCHANGED <<rotation, queue, reported>>
    <3>1. k \in BaseKeys
      BY <1>3, <1>17 DEF readback, PlacesOfRecord
    <3>2. WorkersOK'
      BY <1>2, <1>6, <1>7, <2>2, <3>1, PlaceMoves DEF PlacesOfRecord, k
    <3> QED  BY <1>6, <1>9, <1>17, <2>2, <3>2 DEF readback, TypeInv
  <2> QED  BY <1>17, <2>1, <2>2 DEF readback, Moves
<1>18. CASE confirm(p)
  <2>1. k \in BaseKeys
    BY <1>3, <1>18 DEF confirm, PlacesOfRecord
  <2>2. WorkersOK'
    <3>1. CASE w[p].job = "flush"
      BY <1>2, <1>6, <1>18, <3>1, ItemDoneTypes DEF confirm
    <3>2. CASE w[p].job # "flush"
      <4>1. Moves(p, "mark")
        BY <1>18, <3>2 DEF confirm, Moves
      <4> QED  BY <1>2, <1>6, <1>7, <3>2, <4>1, PlaceMoves DEF PlacesOfRecord
    <3> QED  BY <3>1, <3>2
  <2>3. queue' \in Seq(BaseKeys)
    BY <1>18, WithoutRow DEF confirm, TypeInv
  <2>4. intent' \in [BaseKeys -> {"none", "intent", "confirmed"}]
    BY <1>18, <2>1 DEF confirm, TypeInv, k
  <2> QED  BY <1>6, <1>9, <1>18, <2>2, <2>3, <2>4 DEF confirm, TypeInv
<1>19. CASE call_fails(p)
  BY <1>6, <1>8, <1>10, <1>19 DEF call_fails, TypeInv
<1> QED  BY <1>11, <1>12, <1>13, <1>14, <1>15, <1>16, <1>17, <1>18, <1>19

(* The type invariant is inductive.                                        *)
LEMMA TypeStep == TypeInv /\ [Next]_vars => TypeInv'
<1> SUFFICES ASSUME TypeInv, [Next]_vars PROVE TypeInv'
  OBVIOUS
<1>1. CASE save_symbol_state
  BY <1>1, SaveTypes
<1>2. CASE append_arrives
  <2>1. base' \in [BaseKeys -> Nat] /\ wire' \subseteq BaseKeys
    BY <1>2 DEF append_arrives, TypeInv
  <2>2. UNCHANGED <<observed, sequence, outbox, rotation, queue, intent, pushed,
                    reported, w, glitches>>
    BY <1>2 DEF append_arrives, store
  <2>3. RotationOK' /\ WorkersOK'
    BY <2>2 DEF TypeInv, RotationOK, WorkersOK, Distinct, GivenOut
  <2> QED  BY <2>1, <2>2, <2>3 DEF TypeInv
<1>3. ASSUME NEW p \in Publishers, Step(p) PROVE TypeInv'
  <2>1. CASE begin_pass(p) \/ pending_monitor_transitions(p) \/ end_pass(p)
    BY <2>1, PassTypes
  <2>2. CASE claim_push(p) \/ claim_fill_record(p) \/ claim_state(p) \/ next_queued(p)
    BY <2>2, ClaimTypes
  <2>3. CASE \/ push(p) \/ mark_outbox_sent(p) \/ queue_events(p) \/ _write_lock(p)
             \/ find_or_intend(p) \/ append_record(p) \/ readback(p) \/ confirm(p)
             \/ call_fails(p)
    BY <2>3, ItemTypes
  <2> QED  BY <1>3, <2>1, <2>2, <2>3 DEF Step
<1>4. ASSUME NEW p \in Publishers, crash(p) PROVE TypeInv'
  <2>1. PICK c \in {"idle", "dead"} : w' = [w EXCEPT ![p] = [Idle EXCEPT !.pc = c]]
    BY <1>4 DEF crash
  <2> DEFINE y == [Idle EXCEPT !.pc = c]
  <2>2. WorkerOK(y) /\ y.job = "none"
    <3>1. Idle \in Worker /\ Idle.job = "none" /\ "dead" \in Places /\ "idle" \in Places
      BY DEF Idle, Worker, Places, PlacesOfRecord
    <3>2. y \in Worker /\ y.pc = c /\ y.job = "none"
      BY <3>1 DEF Worker
    <3> HIDE DEF y
    <3> QED  BY <3>2 DEF WorkerOK, PlacesOfRecord
  <2>5. w' = [w EXCEPT ![p] = y] /\ sequence' = sequence
    BY <1>4, <2>1 DEF crash, store
  <2> HIDE DEF y
  <2>3. WorkersOK'
    BY <2>5, <2>2, OneMoves
  <2>4. glitches' \in 0..MaxGlitches /\ RotationOK'
    BY <1>4, BoundAssumption, RotationKept DEF crash, Glitch, store, TypeInv
  <2> QED  BY <1>4, <2>3, <2>4 DEF crash, TypeInv, store, vps
<1>5. CASE UNCHANGED vars
  <2>1. UNCHANGED <<observed, sequence, outbox, rotation, queue, intent, base, wire,
                    pushed, reported, w, glitches>>
    BY <1>5 DEF vars
  <2>2. RotationOK' /\ WorkersOK'
    BY <2>1 DEF TypeInv, RotationOK, WorkersOK, Distinct, GivenOut
  <2> QED  BY <2>1, <2>2 DEF TypeInv
<1> QED  BY <1>1, <1>2, <1>3, <1>4, <1>5 DEF Next

(* Every variable of the publishers keeps its type, and no row of the      *)
(* journal is ever doubled by moving it.                                   *)
THEOREM OutboxTypeCorrect == Spec => []TypeOK
<1>1. TypeInv => TypeOK
  BY DEF TypeInv, TypeOK, RotationOK, WorkersOK, Worker, Distinct
<1>2. Spec => []TypeInv
  BY InitTypes, TypeStep, PTL DEF Spec
<1> QED  BY <1>1, <1>2, PTL

-----------------------------------------------------------------------------
(* Announcing a fill.                                                      *)

(* A step of one publisher is not a step of another.                       *)
LEMMA OthersStay ==
    ASSUME TypeInv, NEW p \in Publishers, Step(p) \/ crash(p)
    PROVE  \A q \in Publishers : q # p => w'[q] = w[q]
<1>1. \E y : w' = [w EXCEPT ![p] = y]
  <2>1. CASE crash(p)
    BY <2>1 DEF crash
  <2>2. CASE begin_pass(p) \/ pending_monitor_transitions(p) \/ end_pass(p)
    BY <2>2 DEF begin_pass, pending_monitor_transitions, end_pass
  <2>3. CASE claim_push(p)
    BY <2>3 DEF claim_push
  <2>4. CASE claim_fill_record(p) \/ claim_state(p) \/ next_queued(p)
    BY <2>4 DEF claim_fill_record, claim_state, next_queued
  <2>5. CASE push(p) \/ mark_outbox_sent(p) \/ call_fails(p)
    BY <2>5 DEF push, mark_outbox_sent, call_fails, NotDelivered
  <2>6. CASE queue_events(p) \/ _write_lock(p) \/ append_record(p) \/ confirm(p)
    BY <2>6 DEF queue_events, _write_lock, append_record, confirm
  <2>7. CASE find_or_intend(p) \/ readback(p)
    BY <2>7 DEF find_or_intend, readback, NotDelivered
  <2> QED  BY <2>1, <2>2, <2>3, <2>4, <2>5, <2>6, <2>7 DEF Step
<1> QED  BY <1>1 DEF TypeInv, WorkersOK

(* Where a publisher that has treated its item goes.                       *)
LEMMA GoesOn ==
    ASSUME TypeInv, NEW p \in Publishers, InHand(w[p]),
           w' = [w EXCEPT ![p] = AfterItem(w[p])]
    PROVE  w'[p].pc \in {"next", "project"}
BY ItemDone DEF TypeInv, WorkersOK

(* An item is in hand at the places where one is treated.                  *)
LEMMA HasItem ==
    ASSUME TypeInv, NEW p \in Publishers
    PROVE  /\ w[p].pc \in PlacesOfRecord => InHand(w[p]) /\ w[p].key \in BaseKeys
           /\ w[p].pc = "mark" => InHand(w[p]) /\ w[p].key \in Keys
           /\ w[p].pc = "project" => InHand(w[p]) /\ w[p].key \in RecordedFills
           /\ w[p].pc = "push" => InHand(w[p]) /\ w[p].key \in PushKeys
<1>1. WorkerOK(w[p]) /\ w[p].job \in {"none", "fills", "states", "flush"}
  BY DEF TypeInv, WorkersOK, Worker
<1> QED  BY <1>1, KeyKinds DEF WorkerOK, InHand

(* A step that pushes nothing, keeps the rows of pushes and leads no       *)
(* publisher to push or to mark one keeps the invariant.                   *)
LEMMA NoPush ==
    ASSUME PushInv, NEW p \in Publishers,
           \A q \in Publishers : q # p => w'[q] = w[q],
           ~(w'[p].pc \in {"push", "mark"} /\ w'[p].key \in PushKeys),
           UNCHANGED pushed, \A k \in PushKeys : outbox'[k] = outbox[k]
    PROVE  PushInv'
<1> SUFFICES ASSUME NEW f \in Fills PROVE AnnouncedOnce(f, <<"push", f>>)'
  BY DEF PushInv
<1> DEFINE k == <<"push", f>>
<1>1. k \in PushKeys /\ outbox'[k] = outbox[k]
  BY KeyKinds
<1>2. \A q \in Publishers :
          /\ Busy(q, "push", k)' => Busy(q, "push", k)
          /\ Busy(q, "mark", k)' => Busy(q, "mark", k)
  BY <1>1 DEF Busy
<1>3. AnnouncedOnce(f, k)
  BY DEF PushInv
<1>4. Claimable(k)' => Claimable(k)
  BY <1>1 DEF Claimable
<1> HIDE DEF k
<1>5. pushed' = pushed
  OBVIOUS
<1> QED  BY <1>1, <1>2, <1>3, <1>4, <1>5 DEF k, AnnouncedOnce

(* Winning the claim of a fill: nobody has it, and nothing was pushed.     *)
LEMMA ClaimPush ==
    ASSUME TypeInv, PushInv, NEW p \in Publishers, claim_push(p)
    PROVE  PushInv'
<1>1. \A q \in Publishers : q # p => w'[q] = w[q]
  BY OthersStay DEF Step
<1>2. PICK f \in w[p].todo :
          LET k == <<"push", f>>
              x == [w[p] EXCEPT !.todo = @ \ {f}, !.key = k]
          IN  IF Claimable(k)
              THEN /\ Claim(k)
                   /\ w' = [w EXCEPT ![p] = [x EXCEPT !.pc = "push"]]
                   /\ UNCHANGED reported
              ELSE /\ w' = [w EXCEPT ![p] = AfterItem(x)]
                   /\ reported' = IF InFlight(k) THEN reported \cup {k} ELSE reported
                   /\ UNCHANGED outbox
  BY DEF claim_push
<1>3. /\ w[p] \in Worker /\ f \in Fills /\ w \in [Publishers -> Worker]
      /\ outbox \in [Keys -> {"none", "pending", "sending", "sent"}]
  BY DEF TypeInv, WorkersOK, Worker
<1>4. pushed' = pushed /\ w[p].pc = "next" /\ w[p].job = "fills"
  BY DEF claim_push
<1> DEFINE k == <<"push", f>>
           x == [w[p] EXCEPT !.todo = @ \ {f}, !.key = k]
<1>5. k \in PushKeys /\ k \in Keys
  BY <1>3, KeyKinds
<1>6. CASE ~Claimable(k)
  <2>1. AfterItem(x).pc \in {"next", "project"}
    <3>1. x \in Worker /\ x.pc = "next" /\ x.job = "fills" /\ x.key = k
      BY <1>3, <1>4, <1>5 DEF Worker
    <3>2. WorkerOK(x) /\ InHand(x)
      BY <1>5, <3>1 DEF WorkerOK, InHand, PlacesOfRecord
    <3> QED  BY <3>2, ItemDone
  <2>2. outbox' = outbox /\ w'[p] = AfterItem(x)
    BY <1>2, <1>3, <1>6
  <2> QED  BY <1>1, <1>4, <2>1, <2>2, NoPush
<1>7. CASE Claimable(k)
  <2>1. /\ outbox' = [outbox EXCEPT ![k] = "sending"]
        /\ w'[p].pc = "push" /\ w'[p].key = k
    <3>1. /\ outbox' = [outbox EXCEPT ![k] = "sending"]
          /\ w' = [w EXCEPT ![p] = [x EXCEPT !.pc = "push"]]
      BY <1>2, <1>7 DEF Claim
    <3>2. w'[p] = [x EXCEPT !.pc = "push"]
      BY <1>3, <3>1
    <3> HIDE DEF k
    <3>3. [x EXCEPT !.pc = "push"].pc = "push" /\ [x EXCEPT !.pc = "push"].key = k
      BY <1>3 DEF Worker
    <3> QED  BY <3>1, <3>2, <3>3
  <2>2. SUFFICES ASSUME NEW g \in Fills PROVE AnnouncedOnce(g, <<"push", g>>)'
    BY DEF PushInv
  <2> DEFINE c == <<"push", g>>
  <2>3. c \in Keys /\ (c = k <=> g = f)
    BY KeyKinds
  <2>4. outbox'[c] = IF g = f THEN "sending" ELSE outbox[c]
    BY <1>3, <1>5, <2>1, <2>3
  <2>5. \A q \in Publishers :
            /\ Busy(q, "mark", c)' => Busy(q, "mark", c)
            /\ Busy(q, "push", c)' <=> IF q = p THEN g = f ELSE Busy(q, "push", c)
    BY <1>1, <2>1, <2>3 DEF Busy
  <2>6. AnnouncedOnce(g, c)
    BY DEF PushInv
  <2>7. g = f => Claimable(c) /\ \A q \in Publishers : ~Busy(q, "push", c)
    BY <1>7, <2>6 DEF Claimable, AnnouncedOnce
  <2>8. Claimable(c)' => g # f /\ Claimable(c)
    BY <2>4 DEF Claimable
  <2> HIDE DEF c, k
  <2> QED  BY <1>4, <2>4, <2>5, <2>6, <2>7, <2>8 DEF c, AnnouncedOnce
<1> QED  BY <1>6, <1>7

(* The push itself: only the holder of the claim gets there.               *)
LEMMA Push ==
    ASSUME TypeInv, PushInv, NEW p \in Publishers, push(p)
    PROVE  PushInv'
<1>1. \A q \in Publishers : q # p => w'[q] = w[q]
  BY OthersStay DEF Step
<1>2. /\ w[p].pc = "push" /\ InHand(w[p]) /\ w[p].key \in PushKeys
      /\ outbox' = outbox
  BY HasItem DEF push
<1>3. PICK f \in Fills : w[p].key = <<"push", f>>
  BY <1>2 DEF PushKeys
<1>4. w'[p].pc \in {"next", "project"} \/ (w'[p].pc = "mark" /\ w'[p].key = w[p].key)
  <2>1. CASE NotDelivered(p)
    BY <1>2, <2>1, GoesOn DEF NotDelivered
  <2>2. CASE w' = [w EXCEPT ![p].pc = "mark"]
    BY <2>2 DEF TypeInv, WorkersOK, Worker
  <2> QED  BY <2>1, <2>2 DEF push
<1>5. /\ pushed' = pushed \/ pushed' = [pushed EXCEPT ![f] = @ + 1]
      /\ w'[p].pc = "mark" => pushed' = [pushed EXCEPT ![f] = @ + 1]
  <2>1. \/ Accepted(p) /\ w' = [w EXCEPT ![p].pc = "mark"]
        \/ (Accepted(p) \/ UNCHANGED pushed) /\ NotDelivered(p)
    BY DEF push
  <2>2. NotDelivered(p) => w'[p].pc \in {"next", "project"}
    BY <1>2, GoesOn DEF NotDelivered
  <2>3. Accepted(p) => pushed' = [pushed EXCEPT ![f] = @ + 1]
    BY <1>3 DEF Accepted
  <2> QED  BY <2>1, <2>2, <2>3
<1>6. SUFFICES ASSUME NEW g \in Fills PROVE AnnouncedOnce(g, <<"push", g>>)'
  BY DEF PushInv
<1> DEFINE c == <<"push", g>>
<1>7. AnnouncedOnce(g, c)
  BY DEF PushInv
<1>8. g = f => Busy(p, "push", c)
  BY <1>2, <1>3 DEF Busy
<1>9. \A q \in Publishers :
          /\ Busy(q, "push", c)' => q # p /\ Busy(q, "push", c)
          /\ Busy(q, "mark", c)' => \/ Busy(q, "mark", c)
                                    \/ q = p /\ g = f /\ w'[p].pc = "mark"
  BY <1>1, <1>3, <1>4 DEF Busy
<1>10. pushed[g] \in Nat /\ pushed'[g] \in Nat /\ pushed'[g] >= pushed[g]
       /\ (g # f => pushed'[g] = pushed[g])
       /\ (g = f => pushed'[g] <= pushed[g] + 1)
       /\ (g = f /\ w'[p].pc = "mark" => pushed'[g] = pushed[g] + 1)
  BY <1>5 DEF TypeInv
<1>11. Claimable(c)' <=> Claimable(c)
  BY <1>2 DEF Claimable
<1>12. g = f => outbox[c] = "sending" /\ pushed[g] = 0 /\ ~Claimable(c)
  BY <1>7, <1>8 DEF Claimable, AnnouncedOnce
<1> HIDE DEF c
<1>13. /\ Claimable(c)' => pushed'[g] = 0
       /\ pushed'[g] <= 1
       /\ outbox'[c] = "sent" => pushed'[g] > 0
  BY <1>2, <1>7, <1>10, <1>11, <1>12 DEF AnnouncedOnce
<1>14. ASSUME NEW q \in Publishers
       PROVE  /\ Busy(q, "push", c)' => outbox'[c] = "sending" /\ pushed'[g] = 0
              /\ Busy(q, "mark", c)' => pushed'[g] > 0
              /\ \A r \in Publishers :
                    Busy(q, "push", c)' /\ Busy(r, "push", c)' => q = r
  <2>1. Busy(q, "push", c)' => g # f
    BY <1>7, <1>8, <1>9 DEF AnnouncedOnce
  <2> QED  BY <1>2, <1>7, <1>9, <1>10, <2>1 DEF AnnouncedOnce
<1> QED  BY <1>13, <1>14 DEF c, AnnouncedOnce

(* Marking: the row of a push is marked by who pushed.                     *)
LEMMA MarkPush ==
    ASSUME TypeInv, PushInv, NEW p \in Publishers, mark_outbox_sent(p)
    PROVE  PushInv'
<1>1. \A q \in Publishers : q # p => w'[q] = w[q]
  BY OthersStay DEF Step
<1>2. /\ w[p].pc = "mark" /\ InHand(w[p]) /\ w[p].key \in Keys
      /\ outbox' = [outbox EXCEPT ![w[p].key] = "sent"] /\ pushed' = pushed
  BY HasItem DEF mark_outbox_sent
<1>3. w'[p].pc \in {"next", "project"}
  BY <1>2, GoesOn DEF mark_outbox_sent
<1>4. outbox \in [Keys -> {"none", "pending", "sending", "sent"}]
  BY DEF TypeInv
<1>5. SUFFICES ASSUME NEW f \in Fills PROVE AnnouncedOnce(f, <<"push", f>>)'
  BY DEF PushInv
<1> DEFINE k == <<"push", f>>
<1>6. AnnouncedOnce(f, k)
  BY DEF PushInv
<1>7. k \in Keys
  BY KeyKinds
<1>8. outbox'[k] = IF w[p].key = k THEN "sent" ELSE outbox[k]
  BY <1>2, <1>4, <1>7
<1>9. \A q \in Publishers :
          /\ Busy(q, "push", k)' => Busy(q, "push", k)
          /\ Busy(q, "mark", k)' => Busy(q, "mark", k)
  BY <1>1, <1>3 DEF Busy
<1>10. w[p].key = k => pushed[f] > 0
  BY <1>2, <1>6 DEF AnnouncedOnce, Busy
<1>11. Claimable(k)' => Claimable(k)
  BY <1>8 DEF Claimable
<1>12. pushed[f] \in Nat
  BY DEF TypeInv
<1> HIDE DEF k
<1> QED  BY <1>2, <1>6, <1>8, <1>9, <1>10, <1>11, <1>12 DEF k, AnnouncedOnce

(* Where a claim leads, and which row it takes.                            *)
LEMMA ClaimLeads ==
    ASSUME TypeInv, NEW p \in Publishers, claim_push(p) \/ claim_state(p)
    PROVE  /\ w'[p].pc \in {"next", "project", "push", "queue"}
           /\ claim_state(p) => w'[p].pc \in {"next", "queue"}
           /\ \E k \in Keys : /\ outbox' = outbox \/ Claim(k)
                              /\ claim_state(p) => k \in StateKeys
<1>1. /\ w \in [Publishers -> Worker] /\ w[p] \in Worker /\ WorkerOK(w[p])
      /\ w[p].pc = "next"
  BY DEF TypeInv, WorkersOK, claim_push, claim_state
<1>2. CASE claim_push(p)
  <2>1. PICK f \in w[p].todo :
            LET k == <<"push", f>>
                x == [w[p] EXCEPT !.todo = @ \ {f}, !.key = k]
            IN  \/ Claim(k) /\ w' = [w EXCEPT ![p] = [x EXCEPT !.pc = "push"]]
                \/ outbox' = outbox /\ w' = [w EXCEPT ![p] = AfterItem(x)]
    BY <1>2 DEF claim_push
  <2> DEFINE k == <<"push", f>>
             x == [w[p] EXCEPT !.todo = @ \ {f}, !.key = k]
  <2>2. k \in PushKeys /\ k \in Keys /\ w[p].job = "fills"
    BY <1>1, <1>2, KeyKinds DEF Worker, claim_push
  <2>3. \/ Claim(k) /\ w'[p] = [x EXCEPT !.pc = "push"]
        \/ outbox' = outbox /\ w'[p] = AfterItem(x)
    BY <1>1, <2>1
  <2>4. w[p].job # "states"
    BY <2>2
  <2> HIDE DEF k
  <2>5. x \in Worker /\ x.pc = "next" /\ x.job = "fills" /\ x.key = k
    BY <1>1, <2>2 DEF Worker
  <2>6. WorkerOK(x) /\ InHand(x)
    BY <2>2, <2>5 DEF WorkerOK, InHand, PlacesOfRecord
  <2>7. AfterItem(x).pc \in {"next", "project"} /\ [x EXCEPT !.pc = "push"].pc = "push"
    BY <2>5, <2>6, ItemDone DEF Worker
  <2> QED  BY <2>2, <2>3, <2>4, <2>7 DEF claim_state
<1>3. CASE claim_state(p)
  <2> DEFINE k == Head(w[p].rows)
             x == [w[p] EXCEPT !.key = k]
  <2>1. w[p].job = "states" /\ w[p].rows \in Seq(StateKeys) /\ w[p].rows # <<>>
    BY <1>1, <1>3 DEF claim_state, WorkerOK
  <2>2. k \in StateKeys /\ k \in Keys
    BY <2>1, HeadTailProperties, KeyKinds
  <2>3. \/ w' = [w EXCEPT ![p] = AfterItem(x)] /\ outbox' = outbox
        \/ w' = [w EXCEPT ![p] = [x EXCEPT !.pc = "queue"]] /\ Claim(k)
    BY <1>3 DEF claim_state
  <2> HIDE DEF k
  <2>4. AfterItem(x).pc = "next" /\ [x EXCEPT !.pc = "queue"].pc = "queue"
    BY <1>1, <2>1 DEF AfterItem, Worker
  <2>5. w'[p].pc \in {"next", "queue"}
    BY <1>1, <2>3, <2>4
  <2> QED  BY <2>2, <2>3, <2>5
<1> QED  BY <1>2, <1>3

(* No other step has to do with a push.                                    *)
LEMMA PushStep == TypeInv /\ PushInv /\ [Next]_vars => PushInv'
<1> SUFFICES ASSUME TypeInv, PushInv, [Next]_vars PROVE PushInv'
  OBVIOUS
<1>1. CASE save_symbol_state \/ append_arrives \/ UNCHANGED vars
  <2>1. w' = w /\ pushed' = pushed
    BY <1>1 DEF save_symbol_state, append_arrives, vars
  <2>2. \A k \in PushKeys : outbox'[k] = outbox[k]
    <3>1. outbox' = outbox \/ outbox' = [outbox EXCEPT ![<<"state", sequence'>>] = "pending"]
      BY <1>1 DEF save_symbol_state, _monitor_transition, append_arrives, vars
    <3>2. \A k \in PushKeys : k # <<"state", sequence'>> /\ k \in Keys
      BY KeyKinds
    <3> QED  BY <3>1, <3>2 DEF TypeInv
  <2>3. \A f \in Fills, k \in PushKeys :
            AnnouncedOnce(f, k) => AnnouncedOnce(f, k)'
    BY <2>1, <2>2 DEF AnnouncedOnce, Claimable, Busy
  <2> QED  BY <2>3, KeyKinds DEF PushInv
<1>2. ASSUME NEW p \in Publishers, Step(p) \/ crash(p) PROVE PushInv'
  <2>1. \A q \in Publishers : q # p => w'[q] = w[q]
    BY <1>2, OthersStay
  <2>2. /\ outbox \in [Keys -> {"none", "pending", "sending", "sent"}]
        /\ w \in [Publishers -> Worker] /\ w[p] \in Worker /\ WorkerOK(w[p])
    BY DEF TypeInv, WorkersOK
  <2>3. ASSUME NEW k \in BaseKeys, outbox' = outbox \/ Claim(k)
        PROVE  \A c \in PushKeys : outbox'[c] = outbox[c]
    BY <2>2, <2>3, KeyKinds DEF Claim
  <2>4. CASE \/ begin_pass(p) \/ pending_monitor_transitions(p) \/ end_pass(p)
             \/ crash(p)
    <3>1. w'[p].pc \in {"next", "idle", "off", "dead"}
      <4>1. CASE begin_pass(p)
        BY <2>2, <4>1 DEF begin_pass, Idle
      <4>2. CASE pending_monitor_transitions(p)
        BY <2>2, <4>2 DEF pending_monitor_transitions, Worker
      <4>3. CASE end_pass(p)
        BY <2>2, <4>3 DEF end_pass, Idle
      <4>4. CASE crash(p)
        BY <2>2, <4>4 DEF crash, Idle
      <4> QED  BY <2>4, <4>1, <4>2, <4>3, <4>4
    <3>2. outbox' = outbox /\ pushed' = pushed
      BY <2>4 DEF begin_pass, pending_monitor_transitions, end_pass, crash
    <3> QED  BY <2>1, <3>1, <3>2, NoPush
  <2>5. CASE claim_push(p) \/ push(p) \/ mark_outbox_sent(p)
    BY <2>5, ClaimPush, Push, MarkPush
  <2>6. CASE claim_fill_record(p)
    <3>1. InHand(w[p]) /\ w[p].key \in BaseKeys
      BY <2>6, HasItem, KeyKinds DEF claim_fill_record
    <3>2. w'[p].pc \in {"next", "project", "queue"}
      <4>1. CASE outbox[w[p].key] = "sent"
        BY <2>6, <3>1, <4>1, GoesOn DEF claim_fill_record
      <4>2. CASE outbox[w[p].key] # "sent"
        BY <2>2, <2>6, <4>2 DEF claim_fill_record, Worker
      <4> QED  BY <4>1, <4>2
    <3>3. \A c \in PushKeys : outbox'[c] = outbox[c]
      <4>1. outbox' = outbox \/ Claim(w[p].key)
        BY <2>6 DEF claim_fill_record
      <4> QED  BY <2>3, <3>1, <4>1
    <3>4. pushed' = pushed
      BY <2>6 DEF claim_fill_record
    <3> QED  BY <2>1, <3>2, <3>3, <3>4, NoPush
  <2>7. CASE claim_state(p)
    <3>1. PICK k \in StateKeys : outbox' = outbox \/ Claim(k)
      BY <2>7, ClaimLeads
    <3>2. \A c \in PushKeys : outbox'[c] = outbox[c]
      BY <2>3, <3>1, KeyKinds
    <3>3. w'[p].pc \in {"next", "queue"} /\ pushed' = pushed
      BY <2>7, ClaimLeads DEF claim_state
    <3> QED  BY <2>1, <3>2, <3>3, NoPush
  <2>8. CASE \/ next_queued(p) \/ queue_events(p) \/ _write_lock(p)
             \/ find_or_intend(p) \/ append_record(p) \/ readback(p)
             \/ confirm(p) \/ call_fails(p)
    <3>1. outbox' = outbox /\ pushed' = pushed
      BY <2>8 DEF next_queued, queue_events, _write_lock, find_or_intend,
                  append_record, readback, confirm, call_fails
    <3>2. NotDelivered(p) /\ InHand(w[p]) => w'[p].pc \in {"next", "project"}
      BY GoesOn DEF NotDelivered
    <3>3. CASE next_queued(p)
      <4>1. w'[p].pc = "queue"
        BY <2>2, <3>3 DEF next_queued, Worker
      <4> QED  BY <2>1, <3>1, <4>1, NoPush
    <3>4. CASE ~next_queued(p)
      <4>1. w[p].pc \in PlacesOfRecord
        BY <2>8, <3>4 DEF queue_events, _write_lock, find_or_intend, append_record,
                          readback, confirm, call_fails, PlacesOfRecord
      <4>2. InHand(w[p]) /\ w[p].key \in BaseKeys
        BY <4>1, HasItem
      <4>3. \/ w'[p].pc \in {"next", "project"}
            \/ w'[p].pc \in PlacesOfRecord \cup {"mark"} /\ w'[p].key = w[p].key
        <5>1. CASE queue_events(p) \/ _write_lock(p) \/ append_record(p)
          BY <2>2, <5>1 DEF queue_events, _write_lock, append_record, Worker,
                            PlacesOfRecord
        <5>2. CASE find_or_intend(p) \/ readback(p)
          BY <2>2, <3>2, <4>2, <5>2 DEF find_or_intend, readback, Worker, PlacesOfRecord
        <5>3. CASE confirm(p) /\ w[p].job = "flush"
          BY <4>2, <5>3, GoesOn DEF confirm
        <5>4. CASE confirm(p) /\ w[p].job # "flush"
          BY <2>2, <5>4 DEF confirm, Worker
        <5>5. CASE call_fails(p)
          BY <3>2, <4>2, <5>5 DEF call_fails
        <5> QED  BY <2>8, <3>4, <5>1, <5>2, <5>3, <5>4, <5>5
      <4>4. ~(w'[p].pc \in {"push", "mark"} /\ w'[p].key \in PushKeys)
        BY <4>2, <4>3, KeyKinds
      <4> QED  BY <2>1, <3>1, <4>4, NoPush
    <3> QED  BY <3>3, <3>4
  <2> QED  BY <1>2, <2>4, <2>5, <2>6, <2>7, <2>8 DEF Step
<1> QED  BY <1>1, <1>2 DEF Next

(* Before the first pass nothing was pushed.                               *)
LEMMA InitPush == Init => PushInv
<1> SUFFICES ASSUME Init, NEW f \in Fills PROVE AnnouncedOnce(f, <<"push", f>>)
  BY DEF PushInv
<1>1. pushed[f] = 0 /\ outbox[<<"push", f>>] = "none"
  BY KeyKinds DEF Init
<1>2. \A p \in Publishers : w[p].pc = "idle"
  BY DEF Init, Idle
<1> QED  BY <1>1, <1>2 DEF AnnouncedOnce, Claimable, Busy

(* The push service is not idempotent: whatever dies or times out between  *)
(* claim_outbox and mark_outbox_sent, and however many processes publish,  *)
(* nobody is told twice of the same fill.                                  *)
THEOREM PushedOnceCorrect == Spec => []PushedOnce
<1>1. PushInv => PushedOnce
  BY DEF PushInv, AnnouncedOnce, PushedOnce
<1>2. Spec => [](TypeInv /\ PushInv)
  BY InitTypes, TypeStep, InitPush, PushStep, PTL DEF Spec
<1> QED  BY <1>1, <1>2, PTL

-----------------------------------------------------------------------------
(* Recording an event.                                                     *)

(* The lock is kept, or given back.                                        *)
LEMMA LockKept ==
    ASSUME LockInv, NEW p \in Publishers,
           \A q \in Publishers : q # p => w'[q] = w[q],
           w'[p].pc \in Locked => w[p].pc \in Locked
    PROVE  LockInv'
<1>1. \A q \in Publishers : w'[q].pc \in Locked => w[q].pc \in Locked
  OBVIOUS
<1> QED  BY <1>1 DEF LockInv

(* A step of p that leaves event c alone.                                  *)
LEMMA EventKept ==
    ASSUME NEW c \in BaseKeys, AppendedOnce(c), NEW p \in Publishers,
           \A q \in Publishers : q # p => w'[q] = w[q],
           intent'[c] = intent[c], base'[c] = base[c], c \in wire' <=> c \in wire,
           outbox'[c] = "sent" => outbox[c] = "sent",
           Busy(p, "append", c)' => Busy(p, "append", c),
           Busy(p, "confirm", c)' \/ Busy(p, "mark", c)' => base[c] > 0
    PROVE  AppendedOnce(c)'
<1>1. \A q \in Publishers :
          /\ Busy(q, "append", c)' => Busy(q, "append", c)
          /\ Busy(q, "confirm", c)' \/ Busy(q, "mark", c)' => base[c] > 0
  <2>1. \A q \in Publishers : Busy(q, "confirm", c) \/ Busy(q, "mark", c) => base[c] > 0
    BY DEF AppendedOnce
  <2> QED  BY <2>1 DEF Busy
<1> QED  BY <1>1 DEF AppendedOnce

(* A step that leaves every event alone.                                   *)
LEMMA NoAppend ==
    ASSUME EventInv, NEW p \in Publishers,
           \A q \in Publishers : q # p => w'[q] = w[q],
           UNCHANGED <<intent, base, wire>>,
           \A c \in BaseKeys : outbox'[c] = "sent" => outbox[c] = "sent",
           w'[p].pc # "append",
           w'[p].pc \in {"confirm", "mark"} /\ w'[p].key \in BaseKeys =>
               base[w'[p].key] > 0
    PROVE  EventInv'
<1>1. ASSUME NEW c \in BaseKeys PROVE AppendedOnce(c)'
  <2>1. AppendedOnce(c)
    BY DEF EventInv
  <2>2. ~Busy(p, "append", c)'
    BY DEF Busy
  <2>3. Busy(p, "confirm", c)' \/ Busy(p, "mark", c)' => base[c] > 0
    BY DEF Busy
  <2> QED  BY <2>1, <2>2, <2>3, EventKept
<1> QED  BY <1>1 DEF EventInv

(* The steps of record_event, under the lock: an intent is made where none *)
(* was, so nothing was ever appended.                                      *)
LEMMA FindOrIntend ==
    ASSUME TypeInv, LockInv, EventInv, NEW p \in Publishers, find_or_intend(p)
    PROVE  LockInv' /\ EventInv'
<1> DEFINE k == w[p].key
<1>1. \A q \in Publishers : q # p => w'[q] = w[q]
  BY OthersStay DEF Step
<1>2. /\ w[p].pc = "find" /\ InHand(w[p]) /\ k \in BaseKeys /\ AppendedOnce(k)
      /\ w[p].pc \in Locked
      /\ outbox' = outbox /\ base' = base /\ wire' = wire
  BY HasItem DEF find_or_intend, PlacesOfRecord, EventInv, Locked
<1>3. LockInv'
  BY <1>1, <1>2, LockKept
<1>4. w \in [Publishers -> Worker] /\ w[p] \in Worker
  BY DEF TypeInv, WorkersOK
<1>5. CASE NotDelivered(p) /\ intent' = intent
  <2>1. w'[p].pc \in {"next", "project"}
    BY <1>2, <1>5, GoesOn DEF NotDelivered
  <2> QED  BY <1>1, <1>2, <1>3, <1>5, <2>1, NoAppend
<1>6. CASE base[k] > 0 /\ w' = [w EXCEPT ![p].pc = "confirm"] /\ intent' = intent
  <2>1. w'[p].pc = "confirm" /\ w'[p].key = k
    BY <1>4, <1>6 DEF Worker
  <2> QED  BY <1>1, <1>2, <1>3, <1>6, <2>1, NoAppend
<1>7. CASE /\ intent[k] = "none" /\ intent' = [intent EXCEPT ![k] = "intent"]
           /\ w' = [w EXCEPT ![p].pc = "append"]
  <2>1. w'[p].pc = "append" /\ w'[p].key = k
    BY <1>4, <1>7 DEF Worker
  <2>2. base[k] = 0 /\ k \notin wire
    BY <1>2, <1>7 DEF AppendedOnce
  <2>3. intent \in [BaseKeys -> {"none", "intent", "confirmed"}]
    BY DEF TypeInv
  <2> HIDE DEF k
  <2>4. ASSUME NEW c \in BaseKeys PROVE AppendedOnce(c)'
    <3>1. AppendedOnce(c)
      BY DEF EventInv
    <3>2. CASE c # k
      <4>1. intent'[c] = intent[c]
        BY <1>2, <1>7, <2>3, <3>2
      <4>2. ~Busy(p, "append", c)' /\ ~Busy(p, "confirm", c)' /\ ~Busy(p, "mark", c)'
        BY <2>1, <3>2 DEF Busy
      <4> QED  BY <1>1, <1>2, <3>1, <4>1, <4>2, EventKept
    <3>3. CASE c = k
      <4>1. intent'[c] = "intent"
        BY <1>2, <1>7, <2>3, <3>3
      <4>2. \A q \in Publishers :
                Busy(q, "confirm", c)' \/ Busy(q, "mark", c)' =>
                    Busy(q, "confirm", c) \/ Busy(q, "mark", c)
        BY <1>1, <2>1 DEF Busy
      <4> QED  BY <1>2, <2>2, <3>1, <3>3, <4>1, <4>2 DEF AppendedOnce
    <3> QED  BY <3>2, <3>3
  <2> QED  BY <1>3, <2>4 DEF EventInv
<1> QED  BY <1>5, <1>6, <1>7 DEF find_or_intend

(* Only the holder of the lock appends, once, and then reads back.         *)
LEMMA AppendRecord ==
    ASSUME TypeInv, LockInv, EventInv, NEW p \in Publishers, append_record(p)
    PROVE  LockInv' /\ EventInv'
<1> DEFINE k == w[p].key
<1>1. \A q \in Publishers : q # p => w'[q] = w[q]
  BY OthersStay DEF Step
<1>2. /\ w[p].pc = "append" /\ k \in BaseKeys /\ w[p].pc \in Locked
      /\ w' = [w EXCEPT ![p].pc = "readback"] /\ outbox' = outbox /\ intent' = intent
      /\ \/ base' = [base EXCEPT ![k] = @ + 1] /\ wire' = wire
         \/ base' = base /\ wire' = wire \cup {k}
  BY HasItem DEF append_record, PlacesOfRecord, Locked
<1>3. LockInv'
  BY <1>1, <1>2, LockKept
<1>4. w'[p].pc = "readback"
  BY <1>2 DEF TypeInv, WorkersOK, Worker
<1>5. base \in [BaseKeys -> Nat]
  BY DEF TypeInv
<1>6. base[k] = 0 /\ k \notin wire /\ intent[k] # "none"
  BY <1>2 DEF EventInv, AppendedOnce, Busy
<1>7. \A q \in Publishers : ~(w'[q].pc = "append" /\ w'[q].key = k)
  <2>1. \A q \in Publishers : w[q].pc \in Locked => q = p
    BY <1>2 DEF LockInv
  <2> QED  BY <1>1, <1>4, <2>1 DEF Busy, Locked
<1> HIDE DEF k
<1>8. ASSUME NEW c \in BaseKeys PROVE AppendedOnce(c)'
  <2>1. AppendedOnce(c)
    BY DEF EventInv
  <2>2. CASE c # k
    <3>1. base'[c] = base[c] /\ (c \in wire' <=> c \in wire)
      BY <1>2, <1>5, <2>2
    <3>2. ~Busy(p, "append", c)' /\ ~Busy(p, "confirm", c)' /\ ~Busy(p, "mark", c)'
      BY <1>4 DEF Busy
    <3> QED  BY <1>1, <1>2, <2>1, <3>1, <3>2, EventKept
  <2>3. CASE c = k
    <3>1. \/ base'[c] = 1 /\ c \notin wire'
          \/ base'[c] = 0 /\ c \in wire'
      BY <1>2, <1>5, <1>6, <2>3
    <3>2. outbox'[c] # "sent"
      BY <1>2, <1>6, <2>1, <2>3 DEF AppendedOnce
    <3>3. \A q \in Publishers : ~Busy(q, "confirm", c)' /\ ~Busy(q, "mark", c)'
      <4>1. \A q \in Publishers : ~Busy(q, "confirm", c) /\ ~Busy(q, "mark", c)
        BY <1>6, <2>1, <2>3 DEF AppendedOnce
      <4> QED  BY <1>1, <1>4, <4>1 DEF Busy
    <3>4. intent'[c] # "none" /\ \A q \in Publishers : ~Busy(q, "append", c)'
      BY <1>2, <1>6, <1>7, <2>3 DEF Busy
    <3> QED  BY <3>1, <3>2, <3>3, <3>4 DEF AppendedOnce
  <2> QED  BY <2>2, <2>3
<1> QED  BY <1>3, <1>8 DEF EventInv

(* A record that was seen is confirmed, and may be marked.                 *)
LEMMA Confirm ==
    ASSUME TypeInv, LockInv, EventInv, NEW p \in Publishers, confirm(p)
    PROVE  LockInv' /\ EventInv'
<1> DEFINE k == w[p].key
<1>1. \A q \in Publishers : q # p => w'[q] = w[q]
  BY OthersStay DEF Step
<1>2. /\ w[p].pc = "confirm" /\ InHand(w[p]) /\ k \in BaseKeys
      /\ w[p].pc \in Locked
      /\ outbox' = outbox /\ base' = base /\ wire' = wire
      /\ intent' = [intent EXCEPT ![k] = "confirmed"]
  BY HasItem DEF confirm, PlacesOfRecord, Locked
<1>3. LockInv'
  BY <1>1, <1>2, LockKept
<1>4. base[k] > 0
  BY <1>2 DEF EventInv, AppendedOnce, Busy
<1>5. w'[p].pc \in {"next", "project"} \/ (w'[p].pc = "mark" /\ w'[p].key = k)
  <2>1. CASE w[p].job = "flush"
    BY <1>2, <2>1, GoesOn DEF confirm
  <2>2. CASE w[p].job # "flush"
    BY <2>2 DEF confirm, TypeInv, WorkersOK, Worker
  <2> QED  BY <2>1, <2>2
<1>6. intent \in [BaseKeys -> {"none", "intent", "confirmed"}]
  BY DEF TypeInv
<1> HIDE DEF k
<1>7. ASSUME NEW c \in BaseKeys PROVE AppendedOnce(c)'
  <2>1. AppendedOnce(c)
    BY DEF EventInv
  <2>2. ~Busy(p, "append", c)' /\ ~Busy(p, "confirm", c)'
    BY <1>5 DEF Busy
  <2>3. Busy(p, "mark", c)' => c = k
    BY <1>5 DEF Busy
  <2>4. CASE c # k
    <3>1. intent'[c] = intent[c]
      BY <1>2, <1>6, <2>4
    <3> QED  BY <1>1, <1>2, <2>1, <2>2, <2>3, <2>4, <3>1, EventKept
  <2>5. CASE c = k
    <3>1. intent'[c] = "confirmed"
      BY <1>2, <1>6, <2>5
    <3>2. \A q \in Publishers : Busy(q, "append", c)' => Busy(q, "append", c)
      BY <1>1, <2>2 DEF Busy
    <3> QED  BY <1>2, <1>4, <2>1, <2>5, <3>1, <3>2 DEF AppendedOnce
  <2> QED  BY <2>4, <2>5
<1> QED  BY <1>3, <1>7 DEF EventInv

(* An append that had timed out arrives: nobody had made another.          *)
LEMMA Arrives ==
    ASSUME TypeInv, LockInv, EventInv, append_arrives
    PROVE  LockInv' /\ EventInv'
<1>1. PICK k \in wire : /\ wire' = wire \ {k}
                        /\ base' = [base EXCEPT ![k] = @ + 1]
  BY DEF append_arrives
<1>2. w' = w /\ outbox' = outbox /\ intent' = intent
  BY DEF append_arrives
<1>3. LockInv'
  BY <1>2 DEF LockInv
<1>4. k \in BaseKeys /\ base \in [BaseKeys -> Nat]
  BY DEF TypeInv
<1>5. \A q \in Publishers : \A c \in BaseKeys, a \in Places : Busy(q, a, c)' <=> Busy(q, a, c)
  BY <1>2 DEF Busy
<1>6. ASSUME NEW c \in BaseKeys PROVE AppendedOnce(c)'
  <2>1. AppendedOnce(c)
    BY DEF EventInv
  <2>2. base'[c] = (IF c = k THEN base[c] + 1 ELSE base[c]) /\ base[c] \in Nat
    BY <1>1, <1>4
  <2>3. c \in wire' <=> c # k /\ c \in wire
    BY <1>1
  <2>4. c = k => c \in wire /\ base[c] = 0
    BY <2>1 DEF AppendedOnce
  <2>5. "append" \in Places /\ "confirm" \in Places /\ "mark" \in Places
    BY DEF Places, PlacesOfRecord
  <2> QED  BY <1>2, <1>5, <2>1, <2>2, <2>3, <2>4, <2>5 DEF AppendedOnce
<1> QED  BY <1>3, <1>6 DEF EventInv

(* Only a record that was seen is marked sent.                             *)
LEMMA MarkRecord ==
    ASSUME TypeInv, LockInv, EventInv, NEW p \in Publishers, mark_outbox_sent(p)
    PROVE  LockInv' /\ EventInv'
<1> DEFINE k == w[p].key
<1>1. \A q \in Publishers : q # p => w'[q] = w[q]
  BY OthersStay DEF Step
<1>2. /\ w[p].pc = "mark" /\ InHand(w[p]) /\ base' = base /\ wire' = wire
      /\ intent' = intent /\ outbox' = [outbox EXCEPT ![k] = "sent"]
  BY HasItem DEF mark_outbox_sent, vps
<1>3. w'[p].pc \in {"next", "project"}
  BY <1>2, GoesOn DEF mark_outbox_sent
<1>4. LockInv'
  BY <1>1, <1>3, LockKept DEF Locked
<1>5. outbox \in [Keys -> {"none", "pending", "sending", "sent"}]
  BY DEF TypeInv
<1>6. k \in BaseKeys => base[k] > 0
  BY <1>2 DEF EventInv, AppendedOnce, Busy
<1> HIDE DEF k
<1>7. ASSUME NEW c \in BaseKeys PROVE AppendedOnce(c)'
  <2>1. AppendedOnce(c)
    BY DEF EventInv
  <2>2. c \in Keys
    BY KeyKinds
  <2>3. outbox'[c] = "sent" => base[c] > 0
    BY <1>2, <1>5, <1>6, <2>1, <2>2 DEF AppendedOnce
  <2>4. \A q \in Publishers :
            /\ Busy(q, "append", c)' => Busy(q, "append", c)
            /\ Busy(q, "confirm", c)' \/ Busy(q, "mark", c)' =>
                   Busy(q, "confirm", c) \/ Busy(q, "mark", c)
    BY <1>1, <1>3 DEF Busy
  <2> QED  BY <1>2, <2>1, <2>3, <2>4 DEF AppendedOnce
<1> QED  BY <1>4, <1>7 DEF EventInv

(* The other steps append nothing.                                         *)
LEMMA RecordStep == TypeInv /\ LockInv /\ EventInv /\ [Next]_vars => LockInv' /\ EventInv'
<1> SUFFICES ASSUME TypeInv, LockInv, EventInv, [Next]_vars PROVE LockInv' /\ EventInv'
  OBVIOUS
<1>1. CASE save_symbol_state \/ UNCHANGED vars
  <2>1. w' = w /\ base' = base /\ intent' = intent /\ wire' = wire
    BY <1>1 DEF save_symbol_state, vars, vps
  <2>2. \A c \in BaseKeys : outbox'[c] = "sent" => outbox[c] = "sent"
    <3>1. outbox' = outbox \/ outbox' = [outbox EXCEPT ![<<"state", sequence'>>] = "pending"]
      BY <1>1 DEF save_symbol_state, _monitor_transition, vars
    <3>2. \A c \in BaseKeys : c \in Keys
      BY KeyKinds
    <3> QED  BY <3>1, <3>2 DEF TypeInv
  <2>3. \A c \in BaseKeys : AppendedOnce(c) => AppendedOnce(c)'
    BY <2>1, <2>2 DEF AppendedOnce, Busy
  <2> QED  BY <2>1, <2>3 DEF LockInv, EventInv
<1>2. CASE append_arrives
  BY <1>2, Arrives
<1>3. ASSUME NEW p \in Publishers, Step(p) \/ crash(p) PROVE LockInv' /\ EventInv'
  <2>1. \A q \in Publishers : q # p => w'[q] = w[q]
    BY <1>3, OthersStay
  <2>2. /\ outbox \in [Keys -> {"none", "pending", "sending", "sent"}]
        /\ w \in [Publishers -> Worker] /\ w[p] \in Worker /\ WorkerOK(w[p])
    BY DEF TypeInv, WorkersOK
  <2>3. ASSUME NEW k \in Keys, outbox' = outbox \/ Claim(k)
        PROVE  \A c \in BaseKeys : outbox'[c] = "sent" => outbox[c] = "sent"
    BY <2>2, <2>3, KeyKinds DEF Claim
  <2>4. ASSUME UNCHANGED <<intent, base, wire>>,
               \A c \in BaseKeys : outbox'[c] = "sent" => outbox[c] = "sent",
               \/ w'[p].pc \notin Locked \cup {"mark"}
               \/ w'[p].pc = "mark" /\ w'[p].key \in PushKeys
               \/ /\ w'[p].pc = "confirm" /\ w[p].pc \in Locked
                  /\ base[w'[p].key] > 0
        PROVE  LockInv' /\ EventInv'
    <3>1. w'[p].pc \in Locked => w[p].pc \in Locked
      BY <2>4 DEF Locked
    <3>2. /\ w'[p].pc # "append"
          /\ w'[p].pc \in {"confirm", "mark"} /\ w'[p].key \in BaseKeys =>
                base[w'[p].key] > 0
      BY <2>4, KeyKinds DEF Locked
    <3> QED  BY <2>1, <2>4, <3>1, <3>2, LockKept, NoAppend
  <2>5. NotDelivered(p) /\ InHand(w[p]) => w'[p].pc \in {"next", "project"}
    BY GoesOn DEF NotDelivered
  <2>6. CASE \/ begin_pass(p) \/ pending_monitor_transitions(p) \/ end_pass(p)
             \/ next_queued(p) \/ crash(p)
    <3>1. w'[p].pc \in {"next", "idle", "off", "dead", "queue"}
      <4>1. CASE begin_pass(p)
        BY <2>2, <4>1 DEF begin_pass, Idle
      <4>2. CASE pending_monitor_transitions(p)
        BY <2>2, <4>2 DEF pending_monitor_transitions, Worker
      <4>3. CASE next_queued(p)
        BY <2>2, <4>3 DEF next_queued, Worker
      <4>4. CASE end_pass(p)
        BY <2>2, <4>4 DEF end_pass, Idle
      <4>5. CASE crash(p)
        BY <2>2, <4>5 DEF crash, Idle
      <4> QED  BY <2>6, <4>1, <4>2, <4>3, <4>4, <4>5
    <3>2. outbox' = outbox /\ UNCHANGED <<intent, base, wire>>
      BY <2>6 DEF begin_pass, pending_monitor_transitions, end_pass, next_queued, crash, vps
    <3> QED  BY <2>4, <3>1, <3>2 DEF Locked
  <2>7. CASE claim_push(p) \/ claim_state(p)
    <3>1. w'[p].pc \in {"next", "project", "push", "queue"}
      BY <2>7, ClaimLeads
    <3>2. \A c \in BaseKeys : outbox'[c] = "sent" => outbox[c] = "sent"
      BY <2>7, <2>3, ClaimLeads
    <3>3. UNCHANGED <<intent, base, wire>>
      BY <2>7 DEF claim_push, claim_state, vps
    <3> QED  BY <2>4, <3>1, <3>2, <3>3 DEF Locked
  <2>8. CASE claim_fill_record(p)
    <3>1. InHand(w[p]) /\ w[p].key \in Keys
      BY <2>8, HasItem, KeyKinds DEF claim_fill_record
    <3>2. w'[p].pc \in {"next", "project", "queue"}
      <4>1. CASE outbox[w[p].key] = "sent"
        BY <2>8, <3>1, <4>1, GoesOn DEF claim_fill_record
      <4>2. CASE outbox[w[p].key] # "sent"
        BY <2>2, <2>8, <4>2 DEF claim_fill_record, Worker
      <4> QED  BY <4>1, <4>2
    <3>3. \A c \in BaseKeys : outbox'[c] = "sent" => outbox[c] = "sent"
      <4>1. outbox' = outbox \/ Claim(w[p].key)
        BY <2>8 DEF claim_fill_record
      <4> QED  BY <2>3, <3>1, <4>1
    <3>4. UNCHANGED <<intent, base, wire>>
      BY <2>8 DEF claim_fill_record, vps
    <3> QED  BY <2>4, <3>2, <3>3, <3>4 DEF Locked
  <2>9. CASE push(p)
    <3>1. InHand(w[p]) /\ w[p].key \in PushKeys
      BY <2>9, HasItem DEF push
    <3>2. w'[p].pc \in {"next", "project"} \/ (w'[p].pc = "mark" /\ w'[p].key \in PushKeys)
      <4>1. CASE NotDelivered(p)
        BY <2>5, <3>1, <4>1
      <4>2. CASE w' = [w EXCEPT ![p].pc = "mark"]
        BY <2>2, <3>1, <4>2 DEF Worker
      <4> QED  BY <2>9, <4>1, <4>2 DEF push
    <3>3. outbox' = outbox /\ UNCHANGED <<intent, base, wire>>
      BY <2>9 DEF push
    <3> QED  BY <2>4, <3>2, <3>3 DEF Locked
  <2>10. CASE mark_outbox_sent(p)
    BY <2>10, MarkRecord
  <2>11. CASE queue_events(p) \/ call_fails(p) \/ readback(p)
    <3>1. InHand(w[p]) /\ w[p].key \in BaseKeys
      BY <2>11, HasItem DEF queue_events, call_fails, readback, PlacesOfRecord
    <3>2. outbox' = outbox /\ UNCHANGED <<intent, base, wire>>
      BY <2>11 DEF queue_events, call_fails, readback, vps
    <3>3. CASE queue_events(p)
      <4>1. w'[p].pc = "lock"
        BY <2>2, <3>3 DEF queue_events, Worker
      <4> QED  BY <2>4, <3>2, <4>1 DEF Locked
    <3>4. CASE NotDelivered(p)
      BY <2>4, <2>5, <3>1, <3>2, <3>4 DEF Locked
    <3>5. CASE readback(p) /\ base[w[p].key] > 0
      <4>1. w[p].pc \in Locked /\ w'[p].pc = "confirm" /\ w'[p].key = w[p].key
        BY <2>2, <3>5 DEF readback, Worker, Locked
      <4> QED  BY <2>4, <3>2, <3>5, <4>1
    <3> QED  BY <2>11, <3>3, <3>4, <3>5 DEF call_fails, readback
  <2>12. CASE _write_lock(p)
    <3>1. /\ w'[p].pc = "find" /\ outbox' = outbox /\ UNCHANGED <<intent, base, wire>>
          /\ \A q \in Publishers : w[q].pc \notin Locked
      BY <2>2, <2>12 DEF _write_lock, Worker, vps
    <3>2. \A q \in Publishers : w'[q].pc \in Locked => q = p
      BY <2>1, <3>1
    <3>3. EventInv'
      BY <2>1, <3>1, NoAppend
    <3> QED  BY <3>2, <3>3 DEF LockInv
  <2>13. CASE find_or_intend(p) \/ append_record(p) \/ confirm(p)
    BY <2>13, FindOrIntend, AppendRecord, Confirm
  <2> QED  BY <1>3, <2>6, <2>7, <2>8, <2>9, <2>10, <2>11, <2>12, <2>13 DEF Step
<1> QED  BY <1>1, <1>2, <1>3 DEF Next

(* Before the first pass nothing was intended.                             *)
LEMMA InitRecord == Init => LockInv /\ EventInv
<1> SUFFICES ASSUME Init PROVE LockInv /\ EventInv
  OBVIOUS
<1>1. \A p \in Publishers : w[p].pc = "idle"
  BY DEF Init, Idle
<1>2. \A k \in BaseKeys : intent[k] = "none" /\ base[k] = 0 /\ k \notin wire
                          /\ outbox[k] = "none"
  BY KeyKinds DEF Init
<1> QED  BY <1>1, <1>2 DEF LockInv, EventInv, AppendedOnce, Busy, Locked

(* All of it together is inductive.                                        *)
LEMMA OutboxInvariant == Spec => [](TypeInv /\ PushInv /\ LockInv /\ EventInv)
BY InitTypes, InitPush, InitRecord, TypeStep, PushStep, RecordStep, PTL DEF Spec

(* The base is append-only: however appends, readbacks and processes fail, *)
(* record_event gives an event one record, the append that may still       *)
(* arrive included.                                                        *)
THEOREM RecordedOnceCorrect == Spec => []RecordedOnce
<1>1. EventInv => RecordedOnce
  BY DEF EventInv, AppendedOnce, RecordedOnce
<1> QED  BY <1>1, OutboxInvariant, PTL

(* A row that mark_outbox_sent marked is at its receiver.                  *)
THEOREM SentIsDeliveredCorrect == Spec => []SentIsDelivered
<1>1. PushInv /\ EventInv => SentIsDelivered
  BY DEF PushInv, AnnouncedOnce, EventInv, AppendedOnce, SentIsDelivered
<1> QED  BY <1>1, OutboxInvariant, PTL
=============================================================================
