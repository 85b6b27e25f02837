----------------------------- MODULE PaperOutbox -----------------------------
(***************************************************************************)
(* How the facts of a trading day leave the process.  The loop saves a     *)
(* symbol's state; in the same transaction a changed state is journalled   *)
(* in paper_outbox, and the fills in it are there for the publishers:      *)
(*   - a pump, the worker thread of a monitor (NotificationPump);          *)
(*   - a sync, the script run after every tick (sync_investment_records).  *)
(* A fill is announced through a push service that cannot tell a repeated  *)
(* message from a new one, and recorded twice (monitor and trade table) in *)
(* a base that only appends; a changed state is recorded in that base.     *)
(* Publishers run in different processes on the same files, and each may   *)
(* die anywhere; a second pump exists when a lease was taken over.         *)
(***************************************************************************)
EXTENDS Naturals, SequencesExt

CONSTANTS
    Fills,        \* keys of fill observations ("fill:<order>:<cumulative quantity>")
    Pumps, Syncs, \* publishers
    MaxSequence,  \* bound on the changes of state journalled
    StateBatch,   \* limit of pending_monitor_transitions (5 in the code)
    FlushBatch,   \* limit of flush_pending (10 in the code)
    MaxGlitches   \* bound on crashes, failed calls and lost requests or replies

ASSUME PublisherAssumption == Pumps \cap Syncs = {}
ASSUME BoundAssumption ==
    /\ MaxSequence \in Nat /\ MaxGlitches \in Nat
    /\ StateBatch \in Nat \ {0} /\ FlushBatch \in Nat \ {0}

VARIABLES
    observed,  \* fills in the saved symbol states
    sequence,  \* of paper_monitor_cursor: changes of state journalled so far
    outbox,    \* status of a row of paper_outbox
    rotation,  \* unsent state rows, by updated_at
    queue,     \* unconfirmed rows of vps_projection_queue, by last_attempt
    intent,    \* vps_event_intents: none, intent, confirmed (has a record id)
    base,      \* copies of an event in the base
    wire,      \* appends that timed out and may still arrive
    pushed,    \* messages about a fill the push service has accepted
    reported,  \* events a monitor has reported as not delivered
    w,         \* what each publisher is doing
    glitches

vars == <<observed, sequence, outbox, rotation, queue, intent, base, wire,
          pushed, reported, w, glitches>>
store == <<observed, sequence>>
vps == <<queue, intent, base, wire>>

Publishers == Pumps \cup Syncs

PushKeys == {"push"} \X Fills
StateKeys == {"state"} \X (1..MaxSequence)
BaseKeys == ({"monitor", "trade"} \X Fills) \cup StateKeys
Keys == PushKeys \cup BaseKeys

PlacesOfRecord == {"queue", "lock", "find", "append", "readback", "confirm"}
Places == {"idle", "next", "push", "project", "mark", "off", "dead"} \cup PlacesOfRecord

(* Places inside record_event's _write_lock, a transaction of its own file *)
(* that ends when its holder dies.                                         *)
Locked == {"find", "append", "readback", "confirm"}

Idle == [pc |-> "idle", job |-> "none", todo |-> {}, rows |-> <<>>,
         key |-> <<>>, last |-> FALSE]

Init ==
    /\ observed = {} /\ sequence = 0
    /\ outbox = [k \in Keys |-> "none"]
    /\ rotation = <<>> /\ queue = <<>>
    /\ intent = [k \in BaseKeys |-> "none"]
    /\ base = [k \in BaseKeys |-> 0]
    /\ wire = {}
    /\ pushed = [f \in Fills |-> 0]
    /\ reported = {}
    /\ w = [p \in Publishers |-> Idle]
    /\ glitches = 0

(* UPDATE ... SET updated_at_utc=now moves a row to the end of ORDER BY.   *)
Place(rows, k) == CHOOSE i \in 1..Len(rows) : rows[i] = k
Without(rows, k) == IF Contains(rows, k) THEN RemoveAt(rows, Place(rows, k)) ELSE rows
(* Mutant: an update inserts a second row.                               *)
ToTheEndAgain(rows, k) == Append(rows, k)
ToTheEnd(rows, k) == Append(Without(rows, k), k)
FirstOf(rows, n) == SubSeq(rows, 1, IF Len(rows) < n THEN Len(rows) ELSE n)

Glitch == glitches < MaxGlitches /\ glitches' = glitches + 1

-----------------------------------------------------------------------------
(* The trading loop, while its pump has not been closed: one transaction   *)
(* of save_symbol_state.  A state that differs from the last one journals  *)
(* a row under the next sequence number.                                   *)

_monitor_transition ==
    /\ sequence < MaxSequence
    /\ sequence' = sequence + 1
    /\ outbox' = [outbox EXCEPT ![<<"state", sequence'>>] = "pending"]
    /\ rotation' = Append(rotation, <<"state", sequence'>>)

save_symbol_state ==
    /\ \E p \in Pumps : w[p].pc \notin {"off", "dead"} /\ ~w[p].last
    /\ \E F \in SUBSET (Fills \ observed) :
          /\ observed' = observed \cup F
          /\ \/ _monitor_transition
             \/ F # {} /\ UNCHANGED <<sequence, outbox, rotation>>
    /\ UNCHANGED <<vps, pushed, reported, w, glitches>>

-----------------------------------------------------------------------------
(* A pass.  A pump goes through the fills of the saved states, then through*)
(* a batch of states; a sync through a batch of the queue, then the states.*)

begin_pass(p) ==
    /\ w[p].pc = "idle"
    /\ \E last \in IF p \in Pumps THEN BOOLEAN ELSE {FALSE} :
          w' = [w EXCEPT ![p] = [Idle EXCEPT
                  !.pc = "next",
                  !.job = IF p \in Pumps THEN "fills" ELSE "flush",
                  !.todo = IF p \in Pumps THEN observed ELSE {},
                  !.rows = IF p \in Pumps THEN <<>> ELSE FirstOf(queue, FlushBatch),
                  !.last = last]]
    /\ UNCHANGED <<store, outbox, rotation, vps, pushed, reported, glitches>>

pending_monitor_transitions(p) ==
    /\ w[p].pc = "next"
    /\ w[p].job \in {"fills", "flush"} /\ w[p].todo = {} /\ w[p].rows = <<>>
    /\ w' = [w EXCEPT ![p] = [w[p] EXCEPT !.job = "states",
                                           !.rows = FirstOf(rotation, StateBatch)]]
    /\ UNCHANGED <<store, outbox, rotation, vps, pushed, reported, glitches>>

end_pass(p) ==
    /\ w[p].pc = "next" /\ w[p].job = "states" /\ w[p].rows = <<>>
    /\ w' = [w EXCEPT ![p] = IF w[p].last THEN [Idle EXCEPT !.pc = "off"] ELSE Idle]
    /\ UNCHANGED <<store, outbox, rotation, vps, pushed, reported, glitches>>

(* What follows an item, delivered or not: a fill is pushed, recorded in   *)
(* the monitor table, then in the trade table.                             *)
Following == [push |-> "monitor", monitor |-> "trade"]
AfterItem(x) ==
    IF x.job # "fills" THEN [x EXCEPT !.rows = Tail(@), !.pc = "next"]
    ELSE IF x.key[1] \in DOMAIN Following
         THEN [x EXCEPT !.key = <<Following[x.key[1]], x.key[2]>>, !.pc = "project"]
         ELSE [x EXCEPT !.pc = "next"]

(* The except branches: report, and let the next pass begin elsewhere.     *)
(* Mutant: it stays the oldest.                                          *)
never_defer(k) == UNCHANGED rotation
defer_monitor_transition(k) == rotation' = ToTheEnd(rotation, k)
last_attempt(k) == queue' = IF Contains(queue, k) THEN ToTheEnd(queue, k) ELSE queue

NotDelivered(p) ==
    /\ w' = [w EXCEPT ![p] = AfterItem(w[p])]
    /\ IF w[p].job = "flush"
       THEN last_attempt(w[p].key) /\ UNCHANGED <<rotation, reported>>
       ELSE /\ reported' = IF p \in Pumps THEN reported \cup {w[p].key} ELSE reported
            /\ IF w[p].job = "states" /\ Contains(rotation, w[p].key)
               THEN defer_monitor_transition(w[p].key) ELSE UNCHANGED rotation
            /\ UNCHANGED queue

-----------------------------------------------------------------------------
(* paper_outbox.  A claim is won once: a row found "sending" was claimed   *)
(* by somebody who may have died.                                          *)

(* Mutant: a claim is won again after a crash.                           *)
ClaimableUntilSent(k) == outbox[k] # "sent"
Claimable(k) == outbox[k] \in {"none", "pending"}
(* Mutant: claimed is as good as sent.                                   *)
SettledSilently(k) == FALSE
InFlight(k) == outbox[k] = "sending"
Claim(k) == outbox' = [outbox EXCEPT ![k] = "sending"]

(* A message about a fill goes out only under a claim just won.            *)
claim_push(p) ==
    /\ w[p].pc = "next" /\ w[p].job = "fills"
    /\ \E f \in w[p].todo :
          LET k == <<"push", f>>
              x == [w[p] EXCEPT !.todo = @ \ {f}, !.key = k]
          IN  IF Claimable(k)
              THEN /\ Claim(k)
                   /\ w' = [w EXCEPT ![p] = [x EXCEPT !.pc = "push"]]
                   /\ UNCHANGED reported
              ELSE /\ w' = [w EXCEPT ![p] = AfterItem(x)]
                   /\ reported' = IF InFlight(k) THEN reported \cup {k} ELSE reported
                   /\ UNCHANGED outbox
    /\ UNCHANGED <<store, rotation, vps, pushed, glitches>>

(* A record may be tried again: record_event tells what is already there.  *)
claim_fill_record(p) ==
    /\ w[p].pc = "project"
    /\ IF outbox[w[p].key] = "sent"
       THEN w' = [w EXCEPT ![p] = AfterItem(w[p])] /\ UNCHANGED outbox
       ELSE /\ w' = [w EXCEPT ![p].pc = "queue"]
            /\ Claim(w[p].key)
    /\ UNCHANGED <<store, rotation, vps, pushed, reported, glitches>>

claim_state(p) ==
    /\ w[p].pc = "next" /\ w[p].job = "states" /\ w[p].rows # <<>>
    /\ LET k == Head(w[p].rows)
           x == [w[p] EXCEPT !.key = k]
       IN  IF outbox[k] = "sent"
           THEN w' = [w EXCEPT ![p] = AfterItem(x)] /\ UNCHANGED <<outbox, rotation>>
           ELSE /\ w' = [w EXCEPT ![p] = [x EXCEPT !.pc = "queue"]]
                /\ Claim(k)
                /\ rotation' = IF outbox[k] = "pending" THEN ToTheEnd(rotation, k)
                                                      ELSE rotation
    /\ UNCHANGED <<store, vps, pushed, reported, glitches>>

next_queued(p) ==
    /\ w[p].pc = "next" /\ w[p].job = "flush" /\ w[p].rows # <<>>
    /\ w' = [w EXCEPT ![p] = [w[p] EXCEPT !.key = Head(w[p].rows), !.pc = "queue"]]
    /\ UNCHANGED <<store, outbox, rotation, vps, pushed, reported, glitches>>

mark_outbox_sent(p) ==
    /\ w[p].pc = "mark"
    /\ outbox' = [outbox EXCEPT ![w[p].key] = "sent"]
    /\ rotation' = Without(rotation, w[p].key)
    /\ w' = [w EXCEPT ![p] = AfterItem(w[p])]
    /\ UNCHANGED <<store, vps, pushed, reported, glitches>>

-----------------------------------------------------------------------------
(* The push service.  Any error leaves the row "sending", whether or not   *)
(* the message was accepted.                                               *)

Accepted(p) == pushed' = [pushed EXCEPT ![w[p].key[2]] = @ + 1]

push(p) ==
    /\ w[p].pc = "push"
    /\ \/ /\ Accepted(p)
          /\ w' = [w EXCEPT ![p].pc = "mark"]
          /\ UNCHANGED <<rotation, queue, reported, glitches>>
       \/ /\ Glitch
          /\ Accepted(p) \/ UNCHANGED pushed
          /\ NotDelivered(p)
    /\ UNCHANGED <<store, outbox, intent, base, wire>>

-----------------------------------------------------------------------------
(* VpsInvestmentClient.record_event.  The base only appends, so an append  *)
(* is sent only after an intent that nobody had; whoever finds the intent  *)
(* but no record raises "uncertain write".                                 *)

queue_events(p) ==
    /\ w[p].pc = "queue"
    /\ w' = [w EXCEPT ![p].pc = "lock"]
    /\ queue' = IF Contains(queue, w[p].key) \/ intent[w[p].key] = "confirmed"
                THEN queue ELSE <<w[p].key>> \o queue
    /\ UNCHANGED <<store, outbox, rotation, intent, base, wire, pushed, reported, glitches>>

_write_lock(p) ==
    /\ w[p].pc = "lock"
    /\ \A q \in Publishers : w[q].pc \notin Locked
    /\ w' = [w EXCEPT ![p].pc = "find"]
    /\ UNCHANGED <<store, outbox, rotation, vps, pushed, reported, glitches>>

(* Mutant: a missing record is appended again.                           *)
find_or_append(p) ==
    LET k == w[p].key IN
    /\ w[p].pc = "find"
    /\ \/ /\ base[k] > 0
          /\ w' = [w EXCEPT ![p].pc = "confirm"]
          /\ UNCHANGED intent
       \/ /\ base[k] = 0
          /\ intent' = [intent EXCEPT ![k] = "intent"]
          /\ w' = [w EXCEPT ![p].pc = "append"]
    /\ UNCHANGED <<store, outbox, rotation, queue, base, wire, pushed, reported, glitches>>

find_or_intend(p) ==
    LET k == w[p].key IN
    /\ w[p].pc = "find"
    /\ \/ /\ base[k] > 0
          /\ w' = [w EXCEPT ![p].pc = "confirm"]
          /\ UNCHANGED <<rotation, queue, intent, reported>>
       \/ /\ base[k] = 0 /\ intent[k] = "none"
          /\ intent' = [intent EXCEPT ![k] = "intent"]
          /\ w' = [w EXCEPT ![p].pc = "append"]
          /\ UNCHANGED <<rotation, queue, reported>>
       \/ /\ base[k] = 0 /\ intent[k] # "none"
          /\ NotDelivered(p)
          /\ UNCHANGED intent
    /\ UNCHANGED <<store, outbox, base, wire, pushed, glitches>>

append_record(p) ==
    LET k == w[p].key IN
    /\ w[p].pc = "append"
    /\ w' = [w EXCEPT ![p].pc = "readback"]
    /\ \/ base' = [base EXCEPT ![k] = @ + 1] /\ UNCHANGED <<wire, glitches>>
       \/ Glitch /\ wire' = wire \cup {k} /\ UNCHANGED base
    /\ UNCHANGED <<store, outbox, rotation, queue, intent, pushed, reported>>

(* Mutant: an append that returned is a record.                          *)
readback_not_checked(p) ==
    /\ w[p].pc = "readback"
    /\ w' = [w EXCEPT ![p].pc = "confirm"]
    /\ UNCHANGED <<store, outbox, rotation, vps, pushed, reported, glitches>>

readback(p) ==
    /\ w[p].pc = "readback"
    /\ IF base[w[p].key] > 0
       THEN /\ w' = [w EXCEPT ![p].pc = "confirm"]
            /\ UNCHANGED <<rotation, queue, reported>>
       ELSE NotDelivered(p)
    /\ UNCHANGED <<store, outbox, intent, base, wire, pushed, glitches>>

confirm(p) ==
    LET k == w[p].key IN
    /\ w[p].pc = "confirm"
    /\ intent' = [intent EXCEPT ![k] = "confirmed"]
    /\ queue' = Without(queue, k)
    /\ w' = [w EXCEPT ![p] = IF w[p].job = "flush" THEN AfterItem(w[p])
                                                  ELSE [w[p] EXCEPT !.pc = "mark"]]
    /\ UNCHANGED <<store, outbox, rotation, base, wire, pushed, reported, glitches>>

(* The wait for the lock, or a query of the base, fails.  flush_pending    *)
(* does not catch the first: then the script ends, which is a crash.       *)
call_fails(p) ==
    /\ \/ w[p].pc \in {"find", "readback"}
       \/ w[p].pc = "lock" /\ w[p].job # "flush"
    /\ Glitch
    /\ NotDelivered(p)
    /\ UNCHANGED <<store, outbox, intent, base, wire, pushed>>

(* An append that had timed out reaches the base after all.                *)
append_arrives ==
    /\ \E k \in wire :
          /\ wire' = wire \ {k}
          /\ base' = [base EXCEPT ![k] = @ + 1]
    /\ UNCHANGED <<store, outbox, rotation, queue, intent, pushed, reported, w, glitches>>

-----------------------------------------------------------------------------
(* A publisher's process dies; a lock it held ends.  A sync is started     *)
(* again by the next tick, a monitor while the market is open: one that    *)
(* dies in its closing pass, or has yet to begin it at the close, is dead  *)
(* for good ("NOT_DUE", and the next day's monitor has files of its own).  *)
crash(p) ==
    /\ w[p].pc \notin {"off", "dead"}
    /\ Glitch
    /\ \E c \in IF p \in Syncs THEN {"idle"} ELSE IF w[p].last THEN {"dead"}
                                                ELSE {"idle", "dead"} :
          w' = [w EXCEPT ![p] = [Idle EXCEPT !.pc = c]]
    /\ UNCHANGED <<store, outbox, rotation, vps, pushed, reported>>

Step(p) ==
    \/ begin_pass(p) \/ pending_monitor_transitions(p) \/ end_pass(p)
    \/ claim_push(p) \/ claim_fill_record(p) \/ claim_state(p) \/ next_queued(p)
    \/ push(p) \/ mark_outbox_sent(p)
    \/ queue_events(p) \/ _write_lock(p) \/ find_or_intend(p) \/ append_record(p)
    \/ readback(p) \/ confirm(p) \/ call_fails(p)

Next ==
    \/ save_symbol_state \/ append_arrives
    \/ \E p \in Publishers : Step(p) \/ crash(p)

Spec == Init /\ [][Next]_vars

(* The pump is polled at every iteration of the loop and its process is    *)
(* restarted until the close; the sync runs after every tick.  A publisher that waits for  *)
(* the write lock gets it: the others hold it for one event at a time, and *)
(* its next wait begins in a later pass.  Nothing says that an append that *)
(* timed out arrives, nor that the loop ends.                              *)
FairSpec == Spec /\ \A p \in Publishers : WF_vars(Step(p)) /\ SF_vars(_write_lock(p))

-----------------------------------------------------------------------------
(* Type correctness; a journal row is one row, however often it moves.     *)
TypeOK ==
    /\ observed \subseteq Fills /\ sequence \in 0..MaxSequence
    /\ outbox \in [Keys -> {"none", "pending", "sending", "sent"}]
    /\ rotation \in Seq(StateKeys) /\ queue \in Seq(BaseKeys)
    /\ \A i, j \in 1..Len(rotation) : rotation[i] = rotation[j] => i = j
    /\ intent \in [BaseKeys -> {"none", "intent", "confirmed"}]
    /\ base \in [BaseKeys -> Nat] /\ wire \subseteq BaseKeys
    /\ pushed \in [Fills -> Nat] /\ reported \subseteq Keys
    /\ w \in [Publishers -> [pc : Places, job : {"none", "fills", "states", "flush"},
                             todo : SUBSET Fills, rows : Seq(BaseKeys),
                             key : Keys \cup {<<>>}, last : BOOLEAN]]
    /\ glitches \in 0..MaxGlitches

(* The push service is not idempotent: whatever dies or times out between  *)
(* claim_outbox and mark_outbox_sent, and however many processes publish,  *)
(* nobody is told twice of the same fill.                                  *)
PushedOnce == \A f \in Fills : pushed[f] <= 1

(* The base is append-only: however appends, readbacks and processes fail, *)
(* an event has one record, counting the append that may still arrive.     *)
RecordedOnce == \A k \in BaseKeys : base[k] <= 1 /\ (k \in wire => base[k] = 0)

(* A row marked sent is at its receiver: nothing reads it again.           *)
SentIsDelivered ==
    /\ \A f \in Fills : outbox[<<"push", f>>] = "sent" => pushed[f] > 0
    /\ \A k \in BaseKeys : outbox[k] = "sent" => base[k] > 0

(* What was intended is not in the base, and nobody is about to append it: *)
(* only an append that timed out may still bring it.                       *)
Uncertain(k) ==
    /\ intent[k] = "intent" /\ base[k] = 0
    /\ \A p \in Publishers : ~(w[p].pc = "append" /\ w[p].key = k)

(* The facts the store holds, as keys of the base.                         *)
Facts == {<<"state", n>> : n \in 1..sequence}
             \cup ({"monitor", "trade"} \X observed)

(* No monitor is left, and one of them died without a closing pass.        *)
DiedAtTheClose ==
    /\ \A p \in Pumps : w[p].pc \in {"off", "dead"}
    /\ \E p \in Pumps : w[p].pc = "dead"

(* A fill that was saved is announced, or a monitor reports that it cannot *)
(* tell ("livermore_fill_delivery_unconfirmed"): it is not lost in silence *)
(* unless the last monitor of the day dies at the close.                   *)
(* (Facts only grow and their fate is final, so "again and again all" says *)
(* "each in the end".)                                                     *)
FillsAreAnnouncedOrReported ==
    []<>(\/ DiedAtTheClose
         \/ \A f \in observed : pushed[f] > 0 \/ <<"push", f>> \in reported)

(* Only a monitor makes the records of a fill: the script moves on what is *)
(* queued, and every change of state that is journalled.                   *)
Abandoned(k) ==
    DiedAtTheClose /\ k \notin StateKeys /\ ~Contains(queue, k)

(* Events that fail for ever do not hold up the others: every journalled   *)
(* change of state, and both records of every fill, end in the base unless *)
(* their own append is the uncertain one, or the last monitor of the day   *)
(* dies at the close before it has queued the record.                      *)
OnlyUncertainFactsAreMissing ==
    []<>(\A k \in Facts : base[k] > 0 \/ Uncertain(k) \/ Abandoned(k))
=============================================================================
