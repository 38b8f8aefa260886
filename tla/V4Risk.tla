-------------------------------- MODULE V4Risk --------------------------------
(***************************************************************************)
(* One node of the version 4 risk pipeline (security-v4): the scorer, the  *)
(* enforcer with its table ip_state and its ipset, and the subscriber that *)
(* takes the events of all nodes from the broker.                          *)
(*                                                                         *)
(* The repository has these as libraries; who calls them is external here, *)
(* after tests/test_security_v4.py (detect, apply, publish; validate,      *)
(* apply) and ROLLOUT.md (detector and subscriber are services, and blocks *)
(* expire by a scheduler): three processes over one database, with a       *)
(* commit after every statement and no lock around the ipset.              *)
(***************************************************************************)
EXTENDS V4Scorer

CONSTANTS
    Allowed,        \* what apply_risk_event skips: the addresses is_allowlisted
                    \* covers, and what is no address
    BlockTtl,       \* block_ttl_seconds
    MaxClock,       \* bound: the last instant
    Budgets         \* bounds: log lines, calls of score_events, events of
                    \* other nodes and faults; a behaviour starts with one

ASSUME RiskAssumption ==
    /\ Ips # {}
    /\ BlockTtl \in Nat /\ MaxClock \in Nat \ {0}
    /\ Budgets \subseteq [{"lines", "calls", "foreign", "faults"} -> Nat]

VARIABLES
    clock,
    net,            \* the events on the broker: delivered any number of times
    seenIds,        \* the table seen_messages
    until,          \* ip_state: blocked_until, 0 for no row
    set,            \* the ipset risk_block_v4
    work,           \* what the detector and the subscriber are applying
    sched,          \* the scheduler: expired rows it has still to lift
    heard,          \* ghost: the event_ids the subscriber has let pass
    promised,       \* ghost: the latest end an event that was applied asked for
    drifted,        \* ghost: addresses the set and the table may differ on
    shared,         \* ghost: addresses two processes applied an event on at a time
    crossed,        \* ghost: addresses one was applying, another lifting at a time
    justified,      \* ghost: the latest end that a risk, or the first copy of an
                    \* event that got past the subscriber, can have asked for
    left            \* what is left of the budget

recordVars == <<shared, crossed, justified>>
nodeVars == <<until, set, work, sched, promised, drifted, recordVars>>
busVars == <<net, seenIds, heard>>
vars == <<scorerVars, nodeVars, busVars, clock, left>>

Appliers == {"detector", "subscriber"}
Idle == [pc |-> "idle", id |-> 0, ip |-> CHOOSE ip \in Ips : TRUE, at |-> 0, now |-> 0]
Events == [id: Nat, ip: Ips, at: Nat, signed: BOOLEAN]

TypeOK ==
    /\ ScorerTypeOK
    /\ clock \in 1..MaxClock /\ at <= clock
    /\ net \in SUBSET Events
    /\ seenIds \subseteq Nat /\ heard \subseteq Nat
    /\ until \in [Ips -> 0..(MaxClock + BlockTtl)]
    /\ set \subseteq Ips \ Allowed
    /\ work \in [Appliers -> [pc: {"idle", "check", "apply", "refresh", "add",
                                   "write", "publish"},
                              id: Nat, ip: Ips, at: Nat, now: 0..MaxClock]]
    /\ sched \in [pc: {"idle", "next", "delete"}, ips: SUBSET Ips, ip: Ips]
    /\ promised \in [Ips -> 0..(MaxClock + BlockTtl)]
    /\ justified \in [Ips -> 0..(MaxClock + BlockTtl)]
    /\ {drifted, shared, crossed} \subseteq SUBSET Ips
    /\ left \in [{"lines", "calls", "foreign", "faults"} -> Nat]

SchedIdle == [pc |-> "idle", ips |-> {}, ip |-> CHOOSE ip \in Ips : TRUE]

Init ==
    /\ ScorerInit
    /\ clock = 1
    /\ net = {} /\ seenIds = {} /\ heard = {}
    /\ until = [ip \in Ips |-> 0]
    /\ set = {}
    /\ work = [w \in Appliers |-> Idle]
    /\ sched = SchedIdle
    /\ promised = [ip \in Ips |-> 0] /\ justified = [ip \in Ips |-> 0]
    /\ drifted = {} /\ shared = {} /\ crossed = {}
    /\ left \in Budgets

Spend(what) ==
    /\ left[what] > 0
    /\ left' = [left EXCEPT ![what] = @ - 1]

Tick ==
    /\ clock < MaxClock
    /\ clock' = clock + 1
    /\ UNCHANGED <<scorerVars, nodeVars, busVars, left>>

-----------------------------------------------------------------------------
\* The scorer reads a line when it is written; score_events never looks at the
\* clock, and its events wait for their call to return.

Scorer ==
    /\ \/ Spend("lines") /\ \E ip \in Ips : LogLine(ip, clock)
       \/ ScoreSignal /\ UNCHANGED left
       \/ CallReturns /\ Spend("calls")
    /\ UNCHANGED <<nodeVars, busVars, clock>>

-----------------------------------------------------------------------------
\* apply_risk_event, by worker w.

Busy(w, ip) == work[w].pc \notin {"idle", "check", "publish"} /\ work[w].ip = ip
Lifting(ip) == sched.pc # "idle" /\ ip \in sched.ips

Add(s, ip, condition) == IF condition THEN s \cup {ip} ELSE s

\* Two processes at work on one address.
NoteOverlap(ip) ==
    /\ shared' = Add(shared, ip, \E w \in Appliers : Busy(w, ip))
    /\ crossed' = Add(crossed, ip, Lifting(ip))

\* An event taken now asks for a block from now on.
Justify(ip) == justified' = [justified EXCEPT ![ip] = clock + BlockTtl]

Job(pc, event) ==
    [pc |-> pc, id |-> event.id, ip |-> event.ip, at |-> event.at, now |-> clock]
Go(w, pc) == work' = [work EXCEPT ![w].pc = pc]

\* What follows for the worker: the detector publishes what it applied.
Done(w) == IF w = "detector" THEN Go(w, "publish")
                             ELSE work' = [work EXCEPT ![w] = Idle]

\* The detector takes a risk that score_events returned.
TakeRisk ==
    /\ work["detector"].pc = "idle"
    /\ risks # <<>>
    /\ work' = [work EXCEPT !["detector"] = Job("apply", Head(risks))]
    /\ risks' = Tail(risks)
    /\ NoteOverlap(Head(risks).ip) /\ Justify(Head(risks).ip)
    /\ UNCHANGED <<callVars, at, nextId, until, set, sched, promised, drifted, busVars,
                   clock, left>>

\* Mutant: a block that ends now counts as active.
StillBlocked_ends_now(ip, now) == until[ip] # 0 /\ until[ip] >= now

StillBlocked(ip, now) == until[ip] # 0 /\ until[ip] > now

Decide(w) ==
    /\ work[w].pc = "apply"
    /\ LET ip == work[w].ip IN
         IF ip \in Allowed THEN Done(w)
         ELSE Go(w, IF StillBlocked(ip, work[w].now) THEN "refresh" ELSE "add")
    /\ UNCHANGED <<scorerVars, until, set, sched, promised, drifted, recordVars,
                   busVars, clock, left>>

\* ipset add -exist with check=True: a failure ends the process, and nobody
\* applies the event again.
AddToSet(w) ==
    /\ work[w].pc = "add"
    /\ \/ /\ set' = set \cup {work[w].ip}
          /\ Go(w, "write")
          /\ UNCHANGED left
       \/ /\ Spend("faults")
          /\ work' = [work EXCEPT ![w] = Idle]
          /\ UNCHANGED set
    /\ UNCHANGED <<scorerVars, until, sched, promised, drifted, recordVars,
                   busVars, clock>>

\* Mutant: an active block keeps the end it has.
NewEnd_keeps(w) == IF work[w].pc = "refresh" /\ until[work[w].ip] # 0
                   THEN until[work[w].ip] ELSE work[w].now + BlockTtl

\* Mutant: the time is added to the end the block has.
NewEnd_adds_up(w) ==
    (IF work[w].pc = "refresh" /\ until[work[w].ip] # 0
     THEN until[work[w].ip] ELSE work[w].now) + BlockTtl

NewEnd(w) == work[w].now + BlockTtl

\* upsert_ip_state.  Whoever lifts the address meanwhile works on what the
\* table and the set were before.
WriteRow(w) ==
    /\ work[w].pc \in {"refresh", "write"}
    /\ LET ip == work[w].ip IN
         /\ until' = [until EXCEPT ![ip] = NewEnd(w)]
         /\ promised' = [promised EXCEPT ![ip] =
                            IF @ < work[w].now + BlockTtl THEN work[w].now + BlockTtl ELSE @]
         /\ drifted' = Add(drifted, ip, ip \in crossed)
    /\ Done(w)
    /\ UNCHANGED <<scorerVars, set, sched, recordVars, busVars, clock, left>>

-----------------------------------------------------------------------------
\* reconcile_expired

Expired == {ip \in Ips : until[ip] # 0 /\ until[ip] <= clock}

ListExpired ==
    /\ sched.pc = "idle"
    /\ Expired # {}
    /\ sched' = [pc |-> "next", ips |-> Expired, ip |-> SchedIdle.ip]
    /\ crossed' = crossed \cup {ip \in Expired : \E w \in Appliers : Busy(w, ip)}
    /\ UNCHANGED <<scorerVars, until, set, work, promised, drifted, shared, justified,
                   busVars, clock, left>>

\* ipset del with check=False: if it fails the row goes all the same, and no
\* later pass lists the address.
Lift(ip) ==
    /\ sched.pc = "next"
    /\ ip \in sched.ips
    /\ sched' = [sched EXCEPT !.pc = "delete", !.ip = ip]
    /\ \/ set' = set \ {ip} /\ UNCHANGED <<left, drifted>>
       \/ /\ Spend("faults")
          /\ drifted' = drifted \cup {ip}
          /\ UNCHANGED set
    /\ UNCHANGED <<scorerVars, until, work, promised, recordVars, busVars, clock>>

\* Mutant: only the rule is lifted.
LiftedRow_stays(ip) == until

LiftedRow(ip) == [until EXCEPT ![ip] = 0]

DeleteRow ==
    /\ sched.pc = "delete"
    /\ LET rest == sched.ips \ {sched.ip} IN
         sched' = IF rest = {} THEN SchedIdle
                  ELSE [sched EXCEPT !.pc = "next", !.ips = rest]
    /\ until' = LiftedRow(sched.ip)
    /\ drifted' = Add(drifted, sched.ip, sched.ip \in crossed)
    /\ UNCHANGED <<scorerVars, set, work, promised, recordVars, busVars, clock, left>>

Scheduler == ListExpired \/ DeleteRow \/ \E ip \in Ips : Lift(ip)

-----------------------------------------------------------------------------
\* The events of the grid.

\* build_signed_event and publish_event of a risk this node applied.
PublishOwn ==
    /\ work["detector"].pc = "publish"
    /\ net' = net \cup {[id |-> work["detector"].id, ip |-> work["detector"].ip,
                         at |-> work["detector"].at, signed |-> TRUE]}
    /\ work' = [work EXCEPT !["detector"] = Idle]
    /\ UNCHANGED <<scorerVars, until, set, sched, promised, drifted, recordVars,
                   seenIds, heard, clock, left>>

\* Another node's event, or one signed with another secret.
Foreign(ip, observed, signed) ==
    /\ Spend("foreign")
    /\ net' = net \cup {[id |-> nextId, ip |-> ip, at |-> observed, signed |-> signed]}
    /\ nextId' = nextId + 1
    /\ UNCHANGED <<callVars, at, risks, nodeVars, seenIds, heard, clock>>

\* validate_incoming_event looks an event up; a duplicate and a bad signature
\* change nothing.
Receive(e) ==
    /\ work["subscriber"].pc = "idle"
    /\ e.id \notin seenIds
    /\ e.signed
    /\ work' = [work EXCEPT !["subscriber"] = Job("check", e)]
    /\ UNCHANGED <<scorerVars, until, set, sched, promised, drifted, recordVars,
                   busVars, clock, left>>

\* is_not_expired, as of the call; every node sends its probe window as ttl_sec.
NotExpired(job) == job.now <= job.at + Window["unique_path_probe_burst"]

\* Mutant: an event that is let pass is marked when it was applied, not before.
MarksSeen_expired_only(job) == ~NotExpired(job)

MarksSeen(job) == TRUE

\* It is marked, and what has not expired goes to apply_risk_event.
Mark ==
    LET job == work["subscriber"] IN
    /\ job.pc = "check"
    /\ seenIds' = IF MarksSeen(job) THEN seenIds \cup {job.id} ELSE seenIds
    /\ \/ /\ NotExpired(job)
          /\ work' = [work EXCEPT !["subscriber"] = Job("apply", job)]
          /\ heard' = heard \cup {job.id}
          /\ NoteOverlap(job.ip)
          /\ IF job.id \in heard THEN UNCHANGED justified ELSE Justify(job.ip)
       \/ /\ ~NotExpired(job)
          /\ work' = [work EXCEPT !["subscriber"] = Idle]
          /\ UNCHANGED <<heard, recordVars>>
    /\ UNCHANGED <<scorerVars, net, until, set, sched, promised, drifted, clock, left>>

-----------------------------------------------------------------------------
\* A process dies; one that had filled the set leaves no row for it.
WorkerDies(w) ==
    /\ work[w].pc # "idle"
    /\ Spend("faults")
    /\ work' = [work EXCEPT ![w] = Idle]
    /\ drifted' = Add(drifted, work[w].ip, work[w].pc = "write")
    /\ UNCHANGED <<scorerVars, until, set, sched, promised, recordVars, busVars,
                   clock>>

SchedulerDies ==
    /\ sched.pc # "idle"
    /\ Spend("faults")
    /\ sched' = SchedIdle
    /\ UNCHANGED <<scorerVars, until, set, work, promised, drifted, recordVars,
                   busVars, clock>>

\* The set is gone, the table is not: a row that has not ended only gets a new
\* end from further events, none of them fills the set again.
Reboot ==
    /\ Spend("faults")
    /\ set' = {}
    /\ work' = [w \in Appliers |-> Idle]
    /\ sched' = SchedIdle
    /\ drifted' = drifted \cup {ip \in Ips : until[ip] # 0}
    /\ ForgetCall /\ risks' = <<>>
    /\ UNCHANGED <<at, nextId, until, promised, recordVars, busVars, clock>>

-----------------------------------------------------------------------------
ApplyStep(w) == Decide(w) \/ AddToSet(w) \/ WriteRow(w)

WorkerGoesOn(w) == ApplyStep(w) \/ (w = "subscriber" /\ Mark)

Next ==
    \/ Tick \/ Scorer \/ TakeRisk \/ PublishOwn \/ Scheduler
    \/ \E w \in Appliers : WorkerGoesOn(w) \/ WorkerDies(w)
    \/ \E ip \in Ips, observed \in 0..clock, signed \in BOOLEAN :
          Foreign(ip, observed, signed)
    \/ \E e \in net : Receive(e)
    \/ SchedulerDies \/ Reboot

\* A process that is at work goes on, and the scheduler comes round.
Spec == Init /\ [][Next]_vars /\ WF_vars(Scheduler)
             /\ \A w \in Appliers : WF_vars(WorkerGoesOn(w))

-----------------------------------------------------------------------------
AtWork(ip) == Lifting(ip) \/ \E w \in Appliers : Busy(w, ip)

\* The set holds the addresses whose row has not ended, and none without a row,
\* whenever nobody is at work on them, but for what an ipset del that failed, a
\* process that died between set and row, a reboot, or an apply that overlapped
\* a lift left behind.  In particular the two ends of a block, "blocked_until > now" for
\* a refresh and "blocked_until <= now" for the lift, leave no gap.
SetMatchesRows ==
    \A ip \in Ips : ~AtWork(ip) /\ ip \notin drifted
                      => /\ until[ip] > clock => ip \in set
                         /\ ip \in set => until[ip] # 0

\* A block lasts its full time from the last event that was applied, whether
\* that event found the address blocked or not.  Left out are the addresses set
\* and table may differ on (drifted: see above) and those two processes applied
\* events to at a time (shared: the earlier of two ends may be written last).
BlockLasts ==
    \A ip \in Ips : clock < promised[ip] /\ ip \notin drifted \cup shared
                      => ip \in set

\* Copies do not prolong a block: a row ends no later than a full block after the
\* last risk of its own the node took or the last event it heard for the first
\* time, however often and late the broker delivers an event, whatever the row
\* was then, and wherever a process died on the way.  (The node's own event comes
\* back to it and counts once more: nothing marks it seen when it is applied.)
CopiesDoNotProlong == \A ip \in Ips : until[ip] <= justified[ip]

\* A block that is over is lifted, or prolonged by a new event, unless a command
\* failed, a process died or two of them overlapped on it.
ExpiredBlockEnds ==
    \A ip \in Ips :
        until[ip] # 0 /\ until[ip] <= clock
          ~> \/ until[ip] = 0 /\ ip \notin set
             \/ until[ip] > clock
             \/ ip \in drifted
=============================================================================
