---------------------------- MODULE ReplayGuard ----------------------------
(***************************************************************************)
(* How one node decides which grid events to act on: the freshness window  *)
(* of validate_incoming (authmon/events.py), the seen_events table with    *)
(* its retention (authmon/state.py), and the agent's use of both           *)
(* (handle_event, pump_outbox and the prune in run, agent/agent.py).       *)
(*                                                                         *)
(* The broker and the clients' send queues may deliver any copy of a       *)
(* message any number of times, at any later time, in any order, or never. *)
(* An event may be sent in several copies with one event_id: pump_outbox   *)
(* stamps a new ts each time it retries a row.  Messages with a wrong      *)
(* version, type or signature are dropped without effect and left out.     *)
(***************************************************************************)
EXTENDS Integers

CONSTANTS
    Ids,          \* event ids
    Own,          \* events announced by this node
    Enforcement,  \* events of a type in ENFORCEMENT_EVENTS
    NoId,         \* no event
    MaxAge,       \* security.max_event_age_seconds
    Retention,    \* state.seen_events_retention_days
    Spread,       \* how long a sender goes on retrying one event
    Skew,         \* bound on a sender's clock error
    MaxTime       \* bound on the clock

ASSUME ConstantsAssumption ==
    /\ Own \subseteq Ids /\ Enforcement \subseteq Ids /\ NoId \notin Ids
    /\ MaxAge \in Nat /\ Retention \in Nat /\ Spread \in Nat
    /\ Skew \in Nat /\ MaxTime \in Nat

\* The configuration under which dedupe outlives freshness: the defaults
\* (14 days, 300 s) satisfy it if no row is retried for 14 days less 600 s.
ASSUME RetentionAssumption == Retention >= 2 * MaxAge + Spread

VARIABLES
    now,       \* the node's clock
    firstTs,   \* id -> ts of the first attempt to send it, or NotTried
    tried,     \* events some node has attempted to send
    wire,      \* copies [id, ts] that reached the broker or a send queue
    seen,      \* table seen_events: id -> seen_at, or Unseen
    handling,  \* the event whose handler is running, or NoId
    claimed,   \* history: id -> times the handler passed the dedupe
    applied    \* history: id -> times the handler completed

vars == <<now, firstTs, tried, wire, seen, handling, claimed, applied>>

Unseen == -1
Copies == [id : Ids, ts : Int]

----------------------------------------------------------------------------
\* mark_seen: INSERT OR IGNORE, so the first seen_at stays.
MarkSeen(id) ==
    [seen EXCEPT ![id] = IF @ = Unseen THEN now ELSE @]

\* validate_incoming: only enforcement events have to be fresh, by the
\* receiver's clock, in both directions.
Fresh(m) ==
    m.id \in Enforcement => /\ now - m.ts <= MaxAge
                            /\ m.ts - now <= MaxAge

\* One attempt to send an event: make_event, or another round of
\* pump_outbox with a new ts and the same event_id.  It may fail with the
\* message lost, or fail and reach the broker all the same.
Attempt(id, ts) ==
    /\ IF id \in tried
       THEN ts \in firstTs[id]..(firstTs[id] + Spread) /\ UNCHANGED firstTs
       ELSE firstTs' = [firstTs EXCEPT ![id] = ts]
    /\ tried' = tried \cup {id}
    /\ wire' \in {wire, wire \cup {[id |-> id, ts |-> ts]}}
    /\ UNCHANGED <<now, handling, claimed, applied>>

\* A peer stamps its own clock.
PeerSends(id) ==
    /\ id \notin Own
    /\ \E ts \in (now - Skew)..(now + Skew) : Attempt(id, ts)
    /\ UNCHANGED seen

\* This node marks its own event seen before each publish.
OwnPublish(id) ==
    /\ id \in Own
    /\ Attempt(id, now)
    /\ seen' = MarkSeen(id)

\* Mutant: has_seen is not asked.
Deliver_no_dedupe(m) ==
    /\ handling = NoId
    /\ Fresh(m)
    /\ seen' = MarkSeen(m.id)
    /\ handling' = m.id
    /\ claimed' = [claimed EXCEPT ![m.id] = @ + 1]
    /\ UNCHANGED <<now, firstTs, tried, wire, applied>>

\* handle_event up to the dispatch: valid, fresh and not seen; the event is
\* marked seen before its handler starts.
Deliver(m) ==
    /\ handling = NoId
    /\ Fresh(m)
    /\ seen[m.id] = Unseen
    /\ seen' = MarkSeen(m.id)
    /\ handling' = m.id
    /\ claimed' = [claimed EXCEPT ![m.id] = @ + 1]
    /\ UNCHANGED <<now, firstTs, tried, wire, applied>>

\* The handler runs to its end.
Apply ==
    /\ handling # NoId
    /\ applied' = [applied EXCEPT ![handling] = @ + 1]
    /\ handling' = NoId
    /\ UNCHANGED <<now, firstTs, tried, wire, seen, claimed>>

\* The process dies in the handler, or the handler raises and _on_message
\* swallows it: the event stays seen.
Abandon ==
    /\ handling # NoId
    /\ handling' = NoId
    /\ UNCHANGED <<now, firstTs, tried, wire, seen, claimed, applied>>

\* Mutant: rows are kept only as long as an event stays fresh.
Prune_by_age ==
    /\ seen' = [id \in Ids |-> IF seen[id] < now - MaxAge THEN Unseen
                                                         ELSE seen[id]]
    /\ UNCHANGED <<now, firstTs, tried, wire, handling, claimed, applied>>

\* prune_seen, every six hours in the main loop.
Prune ==
    /\ seen' = [id \in Ids |-> IF seen[id] < now - Retention THEN Unseen
                                                            ELSE seen[id]]
    /\ UNCHANGED <<now, firstTs, tried, wire, handling, claimed, applied>>

Tick ==
    /\ now < MaxTime
    /\ now' = now + 1
    /\ UNCHANGED <<firstTs, tried, wire, seen, handling, claimed, applied>>

----------------------------------------------------------------------------
Init ==
    /\ now = 0
    /\ firstTs = [id \in Ids |-> 0]
    /\ tried = {}
    /\ wire = {}
    /\ seen = [id \in Ids |-> Unseen]
    /\ handling = NoId
    /\ claimed = [id \in Ids |-> 0]
    /\ applied = [id \in Ids |-> 0]

Next ==
    \/ \E id \in Ids : PeerSends(id) \/ OwnPublish(id)
    \/ \E m \in wire : Deliver(m)
    \/ Apply \/ Abandon \/ Prune \/ Tick

Spec == Init /\ [][Next]_vars

----------------------------------------------------------------------------
\* Types of all variables.
TypeOK ==
    /\ now \in Nat
    /\ firstTs \in [Ids -> Int]
    /\ tried \subseteq Ids
    /\ wire \subseteq Copies
    /\ seen \in [Ids -> Nat \cup {Unseen}]
    /\ handling \in Ids \cup {NoId}
    /\ claimed \in [Ids -> Nat]
    /\ applied \in [Ids -> Nat]

\* No replay: an enforcement event passes the dedupe at most once, whatever
\* the broker repeats and although prune_seen forgets events (events.py:3-7),
\* and the echo of one's own announcement never does (agent.py:356-357).
NoReplay ==
    \A id \in Enforcement : claimed[id] <= IF id \in Own THEN 0 ELSE 1

\* Every copy on the wire was stamped within the sender's retry window.
WireInSpread ==
    \A m \in wire : /\ m.id \in tried
                    /\ firstTs[m.id] <= m.ts
                    /\ m.ts <= firstTs[m.id] + Spread

\* The event can not be accepted any more: its last possible copy is stale.
TooLate(id) == firstTs[id] + Spread + MaxAge < now

\* An enforcement event that must not be accepted any more: its handler
\* was entered once, or this node announced it.
Spent(id) == claimed[id] > 0 \/ (id \in Own /\ id \in tried)

\* What is spent is still marked seen, since an instant not long before its
\* first ts, or it is too late for any copy of it.
Remembered ==
    \A id \in Enforcement :
        Spent(id) => \/ seen[id] # Unseen /\ firstTs[id] <= seen[id] + MaxAge
                     \/ TooLate(id)

\* Only what was sent is marked or accepted.
SentFirst ==
    \A id \in Ids : seen[id] # Unseen \/ claimed[id] > 0 => id \in tried

\* A handler in progress belongs to a claim that is not applied yet.
ClaimInProgress ==
    \A id \in Enforcement :
        /\ applied[id] <= claimed[id]
        /\ handling = id => applied[id] < claimed[id]

\* The inductive invariant: together these keep an enforcement event from
\* being accepted twice, because dedupe hands over to freshness in time.
ReplayInv == /\ TypeOK /\ WireInSpread /\ SentFirst /\ Remembered
             /\ ClaimInProgress /\ NoReplay

\* The node implements the promise of AtMostOnce for enforcement events.
Promise == INSTANCE AtMostOnce
             WITH Ids <- Enforcement,
                  Own <- Own,
                  begun <- [id \in Enforcement |-> claimed[id]],
                  done <- [id \in Enforcement |-> applied[id]]

ImplementsAtMostOnce == Promise!Spec
=============================================================================
