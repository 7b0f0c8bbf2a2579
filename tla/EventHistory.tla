----------------------------- MODULE EventHistory -----------------------------
(***************************************************************************)
(* The notification history: the table notification_events, its full-text  *)
(* mirror notification_event_search (services/history.py), the in-memory   *)
(* ring of recent events, and the requests that write them: sending and    *)
(* replaying notifications, decoding a payload (services/runtime.py) and   *)
(* the three ways of clearing (services/traps_service.py, stats_service.py)*)
(*                                                                         *)
(* A send reads the active bundle, waits for the network, then records; it *)
(* is the only operation here that suspends.  Every write of table and     *)
(* mirror is one transaction.  Of the trap receiver, the other writer, this *)
(* module has the promise (FileTrap); TrapReceiver extends the module with  *)
(* the receiver itself, which is shown to keep it.                         *)
(***************************************************************************)
EXTENDS Integers, Sequences

CONSTANTS
    BundleIds,    \* ids of the bundle sets that may become active
    NoBundle,     \* NULL: no bundle has been compiled yet
    Senders,      \* send and replay requests that may be in progress
    MaxId,        \* bound: event ids the table hands out
    BufferLimit   \* EVENT_BUFFER_LIMIT

ASSUME NoBundleAssumption == NoBundle \notin BundleIds
ASSUME BoundsAssumption == MaxId \in Nat \ {0} /\ BufferLimit \in Nat \ {0}

VARIABLES
    active,   \* the bundle _get_active_bundle_record finds
    rows,     \* notification_events
    mirror,   \* notification_event_search
    kept,     \* auxiliary: sent and decoded events saved since the last reset
    recent,   \* RuntimeService._recent_events
    send,     \* whether each send is waiting for the network
    carried   \* the bundle a waiting send has encoded its notification with

memoryVars == <<recent, send, carried>>
storedVars == <<rows, mirror, kept>>
historyVars == <<active, storedVars, memoryVars>>

Stamps == BundleIds \cup {NoBundle}
Directions == {"received", "sent", "decoded"}

\* used: the bundle the names in event_json come from; bundle: the column
\* bundle_set_id.
Event == [direction : Directions, used : Stamps, bundle : Stamps]
Entry == [id : 1 .. MaxId, event : Event]

HistoryTypeOK ==
    /\ active \in Stamps
    /\ rows \in SUBSET Entry
    /\ mirror \in SUBSET Entry
    /\ kept \in SUBSET Entry
    /\ recent \in Seq(Event) /\ Len(recent) <= BufferLimit
    /\ send \in [Senders -> {"idle", "waiting"}]
    /\ carried \in [Senders -> Stamps]

HistoryInit ==
    /\ active = NoBundle
    /\ rows = {}
    /\ mirror = {}
    /\ kept = {}
    /\ recent = << >>
    /\ send = [s \in Senders |-> "idle"]
    /\ carried = [s \in Senders |-> NoBundle]

-----------------------------------------------------------------------------
(* Writing the history.                                                    *)

\* SQLite numbers a row one above the largest id in the table, from 1: the id
\* of a deleted row is handed out again.
NextId(id) ==
    /\ \A r \in rows : r.id < id
    /\ id = 1 \/ \E r \in rows : r.id = id - 1

Received(entries) == {r \in entries : r.event.direction = "received"}

\* record_event: the row and its search entry, in one transaction.
Save(event) ==
    \E id \in 1 .. MaxId :
        LET new == {[id |-> id, event |-> event]} IN
        /\ NextId(id)
        /\ rows' = rows \cup new
        /\ mirror' = mirror \cup new
        /\ kept' = kept \cup (new \ Received(new))

\* Mutant: the ring is an unbounded list.
RememberAll(event) == recent' = Append(recent, event)

\* deque(maxlen=EVENT_BUFFER_LIMIT).append
Remember(event) ==
    recent' = Append(IF Len(recent) < BufferLimit THEN recent ELSE Tail(recent),
                     event)

\* _persist_event and the append that follows it: an event that cannot be
\* saved is remembered all the same.
Record(event) ==
    /\ Remember(event)
    /\ Save(event) \/ UNCHANGED storedVars

-----------------------------------------------------------------------------
(* Requests.                                                               *)

\* A compile or a rollback has made b the active bundle.
SwitchBundle(b) ==
    /\ active' = b
    /\ UNCHANGED <<storedVars, memoryVars>>

\* send_trap and send_inform up to the first await on the notifier.
BeginSend(s) ==
    /\ send[s] = "idle"
    /\ send' = [send EXCEPT ![s] = "waiting"]
    /\ carried' = [carried EXCEPT ![s] = active]
    /\ UNCHANGED <<active, storedVars, recent>>

\* replay_notification_event: read a stored event, then send it afresh.
Replay(s) == rows # {} /\ BeginSend(s)

\* The notification cannot be sent, or an inform is not acknowledged in time.
SendFails(s) ==
    /\ send[s] = "waiting"
    /\ send' = [send EXCEPT ![s] = "idle"]
    /\ carried' = [carried EXCEPT ![s] = NoBundle]
    /\ UNCHANGED <<active, storedVars, recent>>

SendRecords(s, stamp) ==
    /\ send[s] = "waiting"
    /\ Record([direction |-> "sent", used |-> carried[s], bundle |-> stamp])
    /\ send' = [send EXCEPT ![s] = "idle"]
    /\ carried' = [carried EXCEPT ![s] = NoBundle]
    /\ UNCHANGED active

\* Mutant: the bundle to record is looked up again after the send.
SendEndsRereads(s) == SendRecords(s, active)

\* The send returned: _record_sent_event.
SendEnds(s) == SendRecords(s, carried[s])

\* decode_notification_payload, which never suspends.
Decode ==
    /\ Record([direction |-> "decoded", used |-> active, bundle |-> active])
    /\ UNCHANGED <<active, send, carried>>

\* _run_listener records a trap under the bundle b that decoded it.  A listener
\* keeps the bundle it was started with, so b need not be active any more.
FileTrap(b) ==
    /\ Record([direction |-> "received", used |-> b, bundle |-> b])
    /\ UNCHANGED <<active, send, carried>>

\* Mutant: the search entries of the cleared rows stay.
ClearReceivedRowsOnly ==
    /\ rows' = rows \ Received(rows)
    /\ UNCHANGED <<mirror, kept, active, memoryVars>>

\* Mutant: the rows are deleted whatever their direction.
ClearUnfiltered ==
    /\ rows' = {}
    /\ mirror' = {}
    /\ UNCHANGED <<kept, active, memoryVars>>

\* DELETE /traps
ClearReceived ==
    /\ rows' = rows \ Received(rows)
    /\ mirror' = mirror \ Received(mirror)
    /\ UNCHANGED <<kept, active, memoryVars>>

\* DELETE /traps/{event_id}
Delete(id) ==
    /\ \E r \in Received(rows) : r.id = id
    /\ rows' = {r \in rows : r.id # id}
    /\ mirror' = {r \in mirror : r.id # id}
    /\ UNCHANGED <<kept, active, memoryVars>>

\* DELETE /stats: clear_events, the reset.
ClearAll ==
    /\ rows' = {}
    /\ mirror' = {}
    /\ kept' = {}
    /\ UNCHANGED <<active, memoryVars>>

\* The process ends, however it ends: what is in memory goes.
LoseHistoryMemory ==
    /\ recent' = << >>
    /\ send' = [s \in Senders |-> "idle"]
    /\ carried' = [s \in Senders |-> NoBundle]

Restart ==
    /\ LoseHistoryMemory
    /\ UNCHANGED <<active, storedVars>>

HistoryRequests ==
    \/ \E b \in BundleIds : SwitchBundle(b)
    \/ \E s \in Senders : BeginSend(s) \/ Replay(s) \/ SendFails(s) \/ SendEnds(s)
    \/ Decode \/ ClearReceived \/ ClearAll
    \/ \E id \in 1 .. MaxId : Delete(id)

HistorySteps == HistoryRequests \/ Restart \/ \E b \in Stamps : FileTrap(b)

HistorySpec == HistoryInit /\ [][HistorySteps]_historyVars

-----------------------------------------------------------------------------
(* Properties.                                                             *)

\* The search index holds exactly the events of the table, each under its own
\* id: whatever is recorded, deleted and cleared in whatever order, a search
\* never meets an entry of an event that is gone, nor, once its id has been
\* handed out again, an entry of another event, and the index cannot grow
\* beyond the table.
MirrorFaithful ==
    /\ mirror = rows
    /\ \A r, q \in rows : r.id = q.id => r = q

\* An event is filed under the bundle that named its parts, even when another
\* bundle was activated while the notification was on its way.
StampedBundle == \A r \in rows : r.event.bundle = r.event.used

\* Deleting or clearing received traps leaves the sent and the decoded history
\* alone, to the last row: whatever ids are handed out again in between, the
\* table has each such event that was saved since the last reset.
OnlyReceivedDeleted == rows \ Received(rows) = kept

\* The inductive invariant behind these: the types, and each of them.
HistoryInv ==
    /\ HistoryTypeOK
    /\ MirrorFaithful
    /\ StampedBundle
    /\ OnlyReceivedDeleted

=============================================================================
