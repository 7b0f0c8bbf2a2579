-------------------------- MODULE EventHistoryProofs --------------------------
(***************************************************************************)
(* EventHistory for any number of senders, bundles and events: the search  *)
(* index mirrors the table, events are filed under the bundle that named   *)
(* them, and deleting traps spares the rest of the history.                *)
(***************************************************************************)
EXTENDS EventHistory, SequenceTheorems, TLAPS

\* Recording an event that is filed under the bundle that named it.
LEMMA RecordKeeps ==
    ASSUME HistoryInv,
           NEW event \in Event, event.bundle = event.used, Record(event)
    PROVE  /\ rows' \in SUBSET Entry
           /\ kept' \in SUBSET Entry
           /\ MirrorFaithful'
           /\ StampedBundle'
           /\ OnlyReceivedDeleted'
           /\ recent' \in Seq(Event) /\ Len(recent') <= BufferLimit
<1> USE BoundsAssumption DEF HistoryInv, HistoryTypeOK
<1>1. /\ rows' \in SUBSET Entry /\ kept' \in SUBSET Entry
      /\ MirrorFaithful'
      /\ StampedBundle'
      /\ OnlyReceivedDeleted'
    <2>1. CASE UNCHANGED storedVars
        BY <2>1 DEF storedVars, MirrorFaithful, StampedBundle, OnlyReceivedDeleted, Received
    <2>2. ASSUME NEW id \in 1 .. MaxId, NextId(id),
                 rows' = rows \cup {[id |-> id, event |-> event]},
                 mirror' = mirror \cup {[id |-> id, event |-> event]},
                 kept' = kept \cup ({[id |-> id, event |-> event]}
                                       \ Received({[id |-> id, event |-> event]}))
          PROVE  /\ rows' \in SUBSET Entry /\ kept' \in SUBSET Entry
                 /\ MirrorFaithful' /\ StampedBundle' /\ OnlyReceivedDeleted'
        <3> DEFINE new == [id |-> id, event |-> event]
        <3>1. new \in Entry /\ new.id = id /\ new.event = event
            BY DEF Entry
        <3>2. \A r \in rows : r.id # id
            <4>1. \A r \in rows : r.id \in Int
                BY DEF Entry
            <4>2. \A r \in rows : r.id < id
                BY <2>2 DEF NextId
            <4> QED
                BY <4>1, <4>2
        <3>3. /\ rows' = rows \cup {new} /\ mirror' = mirror \cup {new}
              /\ kept' = kept \cup ({new} \ Received({new}))
            BY <2>2
        <3> HIDE DEF new
        <3>4. MirrorFaithful'
            BY <3>1, <3>2, <3>3 DEF MirrorFaithful
        <3>5. StampedBundle'
            BY <3>1, <3>3 DEF StampedBundle
        <3>6. OnlyReceivedDeleted'
            BY <3>3 DEF OnlyReceivedDeleted, Received
        <3> QED
            BY <3>1, <3>3, <3>4, <3>5, <3>6
    <2> QED
        BY <2>1, <2>2 DEF Record, Save
<1>2. recent' \in Seq(Event) /\ Len(recent') <= BufferLimit
    <2>1. recent' = Append(IF Len(recent) < BufferLimit THEN recent ELSE Tail(recent),
                           event)
        BY DEF Record, Remember
    <2>2. Len(recent) \in Nat
        BY LenProperties
    <2>3. CASE Len(recent) < BufferLimit
        BY <2>1, <2>2, <2>3, AppendProperties
    <2>4. CASE ~(Len(recent) < BufferLimit)
        <3>1. recent # << >> /\ Tail(recent) \in Seq(Event)
              /\ Len(Tail(recent)) = Len(recent) - 1
            BY <2>2, <2>4, HeadTailProperties, EmptySeq
        <3> QED
            BY <2>1, <2>2, <2>4, <3>1, AppendProperties
    <2> QED
        BY <2>3, <2>4
<1> QED
    BY <1>1, <1>2

LEMMA HistoryInvInit == HistoryInit => HistoryInv
    BY BoundsAssumption, EmptySeq
       DEF HistoryInit, HistoryInv, HistoryTypeOK, MirrorFaithful, StampedBundle,
           OnlyReceivedDeleted, Received, Stamps

\* Removing received events from the table and from its mirror.
LEMMA RemovalKeeps ==
    ASSUME MirrorFaithful, StampedBundle, OnlyReceivedDeleted,
           NEW gone \in SUBSET Received(rows),
           rows' = rows \ gone, mirror' = mirror \ gone, kept' = kept
    PROVE  MirrorFaithful' /\ StampedBundle' /\ OnlyReceivedDeleted'
<1>1. MirrorFaithful' /\ StampedBundle'
    BY DEF MirrorFaithful, StampedBundle
<1>2. rows' \ Received(rows)' = rows \ Received(rows)
    BY DEF Received
<1> QED
    BY <1>1, <1>2 DEF OnlyReceivedDeleted

LEMMA FileTrapKeeps ==
    ASSUME HistoryInv, NEW b \in Stamps, FileTrap(b)
    PROVE  HistoryInv'
<1> DEFINE event == [direction |-> "received", used |-> b, bundle |-> b]
<1>1. event \in Event /\ event.bundle = event.used
    BY DEF Event, Directions
<1>2. Record(event) /\ UNCHANGED <<active, send, carried>>
    BY DEF FileTrap
<1>3. MirrorFaithful' /\ mirror' = rows'
    BY <1>1, <1>2, RecordKeeps DEF MirrorFaithful
<1> QED
    BY <1>1, <1>2, <1>3, RecordKeeps DEF HistoryInv, HistoryTypeOK, Stamps

LEMMA HistoryInvStep == HistoryInv /\ [HistorySteps]_historyVars => HistoryInv'
<1> SUFFICES ASSUME HistoryInv, [HistorySteps]_historyVars PROVE HistoryInv'
    OBVIOUS
<1> USE DEF HistoryInv, HistoryTypeOK, storedVars, memoryVars, Stamps
<1>1. ASSUME NEW b \in BundleIds, SwitchBundle(b) PROVE HistoryInv'
    BY <1>1 DEF SwitchBundle, MirrorFaithful, StampedBundle, OnlyReceivedDeleted, Received
<1>2. ASSUME NEW s \in Senders, BeginSend(s) PROVE HistoryInv'
    BY <1>2 DEF BeginSend, MirrorFaithful, StampedBundle, OnlyReceivedDeleted, Received
<1>3. ASSUME NEW s \in Senders, Replay(s) PROVE HistoryInv'
    BY <1>2, <1>3 DEF Replay
<1>4. ASSUME NEW s \in Senders, SendFails(s) PROVE HistoryInv'
    BY <1>4 DEF SendFails, MirrorFaithful, StampedBundle, OnlyReceivedDeleted, Received
<1>5. ASSUME NEW s \in Senders, SendEnds(s) PROVE HistoryInv'
    <2> DEFINE event == [direction |-> "sent", used |-> carried[s], bundle |-> carried[s]]
    <2>1. event \in Event /\ event.bundle = event.used
        BY DEF Event, Directions
    <2>2. Record(event) /\ UNCHANGED active
        BY <1>5 DEF SendEnds, SendRecords
    <2>3. MirrorFaithful' /\ mirror' = rows'
        BY <2>1, <2>2, RecordKeeps DEF MirrorFaithful
    <2>4. send' \in [Senders -> {"idle", "waiting"}] /\ carried' \in [Senders -> Stamps]
        BY <1>5 DEF SendEnds, SendRecords
    <2> QED
        BY <2>1, <2>2, <2>3, <2>4, RecordKeeps
<1>6. ASSUME Decode PROVE HistoryInv'
    <2> DEFINE event == [direction |-> "decoded", used |-> active, bundle |-> active]
    <2>1. event \in Event /\ event.bundle = event.used
        BY DEF Event, Directions
    <2>2. Record(event) /\ UNCHANGED <<active, send, carried>>
        BY <1>6 DEF Decode
    <2>3. MirrorFaithful' /\ mirror' = rows'
        BY <2>1, <2>2, RecordKeeps DEF MirrorFaithful
    <2> QED
        BY <2>1, <2>2, <2>3, RecordKeeps
<1>7. ASSUME ClearReceived PROVE HistoryInv'
    <2>1. /\ rows' = rows \ Received(rows) /\ mirror' = mirror \ Received(rows)
          /\ kept' = kept /\ UNCHANGED <<active, recent, send, carried>>
        BY <1>7 DEF ClearReceived, MirrorFaithful
    <2> QED
        BY <2>1, RemovalKeeps
<1>8. ASSUME ClearAll PROVE HistoryInv'
    BY <1>8 DEF ClearAll, MirrorFaithful, StampedBundle, OnlyReceivedDeleted, Received
<1>9. ASSUME NEW id \in 1 .. MaxId, Delete(id) PROVE HistoryInv'
    <2> DEFINE gone == {r \in rows : r.id = id}
    <2>1. gone \in SUBSET Received(rows)
        BY <1>9 DEF Delete, Received, MirrorFaithful
    <2>2. /\ rows' = rows \ gone /\ mirror' = mirror \ gone
          /\ kept' = kept /\ UNCHANGED <<active, recent, send, carried>>
        BY <1>9 DEF Delete, MirrorFaithful
    <2> QED
        BY <2>1, <2>2, RemovalKeeps
<1>10. ASSUME Restart PROVE HistoryInv'
    <2>1. recent' = << >> /\ recent' \in Seq(Event) /\ Len(recent') = 0
        BY <1>10, EmptySeq DEF Restart, LoseHistoryMemory
    <2> QED
        BY <1>10, <2>1, BoundsAssumption
           DEF Restart, LoseHistoryMemory, MirrorFaithful, StampedBundle, OnlyReceivedDeleted, Received
<1>11. ASSUME NEW b \in Stamps, FileTrap(b) PROVE HistoryInv'
    BY <1>11, FileTrapKeeps
<1>12. CASE UNCHANGED historyVars
    BY <1>12 DEF historyVars, MirrorFaithful, StampedBundle, OnlyReceivedDeleted, Received
<1> QED
    BY <1>1, <1>2, <1>3, <1>4, <1>5, <1>6, <1>7, <1>8, <1>9, <1>10, <1>11,
       <1>12
       DEF HistorySteps, HistoryRequests

LEMMA HistoryInductive == HistorySpec => []HistoryInv
    BY HistoryInvInit, HistoryInvStep, PTL DEF HistorySpec

\* Every state of the history is well typed; in particular the ring of recent
\* events never outgrows its limit, whichever of the four writers appends.
THEOREM HistoryTypeCorrect == HistorySpec => []HistoryTypeOK
<1>1. HistoryInv => HistoryTypeOK
    BY DEF HistoryInv
<1> QED
    BY <1>1, HistoryInductive, PTL

\* However events are recorded, deleted and cleared, the full-text index of
\* the history holds exactly the events of the table, each under its own id.
THEOREM IndexMirrorsTable == HistorySpec => []MirrorFaithful
<1>1. HistoryInv => MirrorFaithful
    BY DEF HistoryInv
<1> QED
    BY <1>1, HistoryInductive, PTL

\* Every event in the history is filed under the bundle that named its parts,
\* whichever bundles are activated while notifications are being sent.
THEOREM EventsAreStamped == HistorySpec => []StampedBundle
<1>1. HistoryInv => StampedBundle
    BY DEF HistoryInv
<1> QED
    BY <1>1, HistoryInductive, PTL

\* Clearing or deleting received traps never takes a sent or a decoded event,
\* for any number of events, senders and bundles; only a reset does.
THEOREM SentHistoryStays == HistorySpec => []OnlyReceivedDeleted
<1>1. HistoryInv => OnlyReceivedDeleted
    BY DEF HistoryInv
<1> QED
    BY <1>1, HistoryInductive, PTL

=============================================================================
