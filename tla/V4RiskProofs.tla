----------------------------- MODULE V4RiskProofs -----------------------------
(***************************************************************************)
(* V4Risk for any addresses, times and faults: the set agrees with the     *)
(* table, a block lasts as long as promised and no longer than justified,  *)
(* and a call of score_events reports what its history calls for: its      *)
(* deques, pruned as they go, count the signals in the window.             *)
(***************************************************************************)
EXTENDS V4Risk, SequenceTheorems, FiniteSetTheorems, FunctionTheorems, TLAPS

\* What the argument needs of the types.
Labels == {"idle", "check", "apply", "refresh", "add", "write", "publish"}
Jobs == [pc: Labels, id: Nat, ip: Ips, at: Nat, now: 0..MaxClock]
Lifts == [pc: {"idle", "next", "delete"}, ips: SUBSET Ips, ip: Ips]

ScorerTyped ==
    /\ signals.ip \in Ips /\ signals = [ip |-> signals.ip, rules |-> signals.rules]
    /\ at \in Nat /\ nextId \in Nat
    /\ out \in Seq(Risks) /\ risks \in Seq(Risks)

Typed ==
    /\ clock \in 1..MaxClock
    /\ \A e \in net : e.id \in Nat /\ e.ip \in Ips /\ e.at \in Nat
    /\ until \in [Ips -> Nat] /\ promised \in [Ips -> Nat]
    /\ work \in [Appliers -> Jobs]
    /\ \A w \in Appliers : work[w].pc \notin {"idle", "check", "publish"} => work[w].now \in 1..clock
    /\ sched \in Lifts
    /\ sched.pc = "delete" => sched.ip \in sched.ips

\* Table and set, also while somebody is at work.
RowsInSet == \A ip \in Ips \ drifted : until[ip] > clock => ip \in set
SetHasRows ==
    \A ip \in Ips \ drifted :
        ip \in set => \/ until[ip] # 0
                      \/ \E w \in Appliers : work[w].pc = "write" /\ work[w].ip = ip

\* The scheduler lifts what is over, and has lifted what it deletes.
LiftedAreOver == \A ip \in Ips \ drifted : Lifting(ip) => until[ip] <= clock
LiftedAreOut ==
    sched.pc = "delete" => sched.ip \in drifted \cup crossed \/ sched.ip \notin set

\* Whoever applies an event to an address took it for blocked because it is in
\* the set, or has put it there.
TookForBlocked(w) ==
    \/ work[w].pc \in {"refresh", "write"}
    \/ work[w].pc = "apply" /\ StillBlocked(work[w].ip, work[w].now)
AppliersSeeSet ==
    \A w \in Appliers :
        TookForBlocked(w) => work[w].ip \in set \cup drifted \cup crossed

\* All overlaps are on record.
OverlapsNoted ==
    \A ip \in Ips :
        /\ \A w \in Appliers : Lifting(ip) /\ Busy(w, ip) => ip \in crossed
        /\ \A v, w \in Appliers : v # w /\ Busy(v, ip) /\ Busy(w, ip) => ip \in shared

\* The table has the promised end, and whoever is about to write asks for more.
PromisesKept ==
    \A ip \in Ips \ (drifted \cup shared) :
        promised[ip] <= until[ip] \/ promised[ip] <= clock
PromisesGrow ==
    \A ip \in Ips :
        /\ promised[ip] <= clock + BlockTtl
        /\ \A w \in Appliers : Busy(w, ip) /\ ip \notin shared
                                 => promised[ip] <= work[w].now + BlockTtl

RiskInv ==
    /\ ScorerTyped /\ Typed
    /\ RowsInSet /\ SetHasRows
    /\ LiftedAreOver /\ LiftedAreOut
    /\ AppliersSeeSet /\ OverlapsNoted
    /\ PromisesKept /\ PromisesGrow

-----------------------------------------------------------------------------
(* What a worker does.                                                     *)

LEMMA IdleIsJob == Idle \in Jobs /\ Idle.pc = "idle" /\ SchedIdle \in Lifts /\ SchedIdle.pc = "idle"
<1>1. (CHOOSE ip \in Ips : TRUE) \in Ips
  BY RiskAssumption
<1>2. 0 \in 0..MaxClock /\ 0 \in Nat
  BY RiskAssumption
<1> QED
  BY <1>1, <1>2 DEF Idle, SchedIdle, Jobs, Lifts, Labels

LEMMA GoWork ==
    ASSUME Typed, NEW w \in Appliers, NEW label \in Labels, Go(w, label)
    PROVE  /\ work' \in [Appliers -> Jobs]
           /\ work'[w].pc = label /\ work'[w].ip = work[w].ip /\ work'[w].now = work[w].now
           /\ \A v \in Appliers \ {w} : work'[v] = work[v]
<1>1. work \in [Appliers -> Jobs] /\ work' = [work EXCEPT ![w].pc = label]
  BY DEF Typed, Go
<1>2. work[w] \in Jobs
  BY <1>1
<1>3. [work[w] EXCEPT !.pc = label] \in Jobs
  BY <1>2 DEF Jobs
<1>4. /\ [work[w] EXCEPT !.pc = label].pc = label
      /\ [work[w] EXCEPT !.pc = label].ip = work[w].ip
      /\ [work[w] EXCEPT !.pc = label].now = work[w].now
  BY <1>2 DEF Jobs
<1>5. work' = [work EXCEPT ![w] = [work[w] EXCEPT !.pc = label]]
  BY <1>1
<1> HIDE DEF Jobs
<1>6. /\ work'[w] = [work[w] EXCEPT !.pc = label]
      /\ \A v \in Appliers \ {w} : work'[v] = work[v]
  BY <1>1, <1>5
<1>7. work' \in [Appliers -> Jobs]
  BY <1>1, <1>3, <1>5
<1> QED
  BY <1>4, <1>6, <1>7

LEMMA StopWork ==
    ASSUME Typed, NEW w \in Appliers, work' = [work EXCEPT ![w] = Idle]
    PROVE  /\ work' \in [Appliers -> Jobs]
           /\ work'[w].pc = "idle"
           /\ \A v \in Appliers \ {w} : work'[v] = work[v]
BY IdleIsJob DEF Typed

LEMMA DoneWork ==
    ASSUME Typed, NEW w \in Appliers, Done(w)
    PROVE  /\ work' \in [Appliers -> Jobs]
           /\ work'[w].pc \in {"idle", "check", "publish"}
           /\ \A v \in Appliers \ {w} : work'[v] = work[v]
<1>1. CASE w = "detector"
  <2>1. Go(w, "publish") /\ "publish" \in Labels
    BY <1>1 DEF Done, Labels
  <2> QED
    BY <2>1, GoWork
<1>2. CASE w # "detector"
  <2>1. work' = [work EXCEPT ![w] = Idle]
    BY <1>2 DEF Done
  <2> QED
    BY <2>1, StopWork
<1> QED
  BY <1>1, <1>2

LEMMA StartWork ==
    ASSUME Typed, NEW w \in Appliers, NEW label \in Labels,
           NEW e, e.id \in Nat, e.ip \in Ips, e.at \in Nat,
           work' = [work EXCEPT ![w] = Job(label, e)]
    PROVE  /\ work' \in [Appliers -> Jobs]
           /\ work'[w].pc = label /\ work'[w].ip = e.ip /\ work'[w].now = clock
           /\ work'[w].id = e.id
           /\ \A v \in Appliers \ {w} : work'[v] = work[v]
<1> DEFINE job == Job(label, e)
<1>1. job \in Jobs
  BY RiskAssumption DEF Typed, Jobs, Job
<1>2. job.pc = label /\ job.ip = e.ip /\ job.now = clock /\ job.id = e.id
  BY DEF Job
<1>3. work \in [Appliers -> Jobs] /\ work' = [work EXCEPT ![w] = job]
  BY DEF Typed
<1> HIDE DEF job
<1> QED
  BY <1>1, <1>2, <1>3

-----------------------------------------------------------------------------
(* The invariant holds at the start and over every step.                   *)

LEMMA InitInv == Init => RiskInv
<1> SUFFICES ASSUME Init PROVE RiskInv
  OBVIOUS
<1>1. <<>> \in Seq(Risks)
  BY EmptySeq
<1>2. ScorerTyped
  <2>1. (CHOOSE ip \in Ips : TRUE) \in Ips
    BY RiskAssumption
  <2> QED
    BY <1>1, <2>1 DEF Init, ScorerInit, NoCall, NoSignals, ScorerTyped
<1>3. /\ work = [w \in Appliers |-> Idle] /\ sched = SchedIdle
      /\ until = [ip \in Ips |-> 0] /\ promised = [ip \in Ips |-> 0]
      /\ clock = 1 /\ net = {} /\ set = {} /\ drifted = {} /\ seenIds = {} /\ heard = {}
  BY DEF Init
<1>4. \A w \in Appliers : work[w] \in Jobs /\ work[w].pc = "idle"
  BY <1>3, IdleIsJob
<1>5. sched \in Lifts /\ sched.pc = "idle"
  BY <1>3, IdleIsJob
<1>6. Typed
  BY <1>3, <1>4, <1>5, IdleIsJob, RiskAssumption DEF Typed
<1>7. RowsInSet /\ SetHasRows /\ LiftedAreOver /\ LiftedAreOut
  BY <1>3, <1>5 DEF RowsInSet, SetHasRows, LiftedAreOver, LiftedAreOut, Lifting
<1>8. AppliersSeeSet /\ OverlapsNoted
  BY <1>4, <1>5 DEF AppliersSeeSet, TookForBlocked, OverlapsNoted, Lifting, Busy
<1>9. PromisesKept /\ PromisesGrow
  BY <1>3, <1>4, RiskAssumption DEF PromisesKept, PromisesGrow, Busy
<1> QED
  BY <1>2, <1>6, <1>7, <1>8, <1>9 DEF RiskInv

\* The types that have nothing to do with set and table.
OthersTyped ==
    ScorerTyped /\ \A e \in net : e.id \in Nat /\ e.ip \in Ips /\ e.at \in Nat

\* The scorer's own steps, those of the bus, and a step that changes nothing.
LEMMA NodeUnchanged ==
    ASSUME RiskInv, OthersTyped', UNCHANGED <<nodeVars, clock>>
    PROVE  RiskInv'
<1>1. UNCHANGED <<until, set, work, sched, promised, drifted, shared, crossed, clock>>
  BY DEF nodeVars, recordVars
<1>2. Typed'
  BY <1>1 DEF RiskInv, Typed, OthersTyped
<1>3. RowsInSet' /\ SetHasRows' /\ LiftedAreOver' /\ LiftedAreOut'
  BY <1>1 DEF RiskInv, RowsInSet, SetHasRows, LiftedAreOver, LiftedAreOut, Lifting
<1>4. AppliersSeeSet' /\ OverlapsNoted'
  BY <1>1 DEF RiskInv, AppliersSeeSet, TookForBlocked, StillBlocked, OverlapsNoted,
              Lifting, Busy
<1>5. PromisesKept' /\ PromisesGrow'
  BY <1>1 DEF RiskInv, PromisesKept, PromisesGrow, Busy
<1> QED
  BY <1>2, <1>3, <1>4, <1>5 DEF RiskInv, OthersTyped

LEMMA ScorerStep == RiskInv /\ Scorer => RiskInv'
<1> SUFFICES ASSUME RiskInv, Scorer PROVE RiskInv'
  OBVIOUS
<1>1. ScorerTyped /\ Typed
  BY DEF RiskInv
<1>2. /\ UNCHANGED <<nodeVars, clock>> /\ net' = net
  BY DEF Scorer, busVars
<1>3. ASSUME NEW ip \in Ips, LogLine(ip, clock)
      PROVE  ScorerTyped'
  <2>1. ASSUME NEW rules, Line(ip, rules, clock)
        PROVE  ScorerTyped'
    BY <1>1, <2>1, RiskAssumption DEF Line, ScorerTyped, Typed
  <2> QED
    BY <1>3, <2>1 DEF LogLine
<1>4. ASSUME ScoreSignal
      PROVE  ScorerTyped'
  <2>1. UNCHANGED <<at, risks>>
    BY <1>4 DEF ScoreSignal
  <2>2. signals' = [signals EXCEPT !.rules = Tail(@)]
    BY <1>4 DEF ScoreSignal
  <2>3. signals'.ip \in Ips /\ signals' = [ip |-> signals'.ip, rules |-> signals'.rules]
    BY <1>1, <2>2 DEF ScorerTyped
  <2>4. \/ out' = out /\ nextId' = nextId
        \/ /\ out' = Append(out, [id |-> nextId, ip |-> signals.ip, at |-> at])
           /\ nextId' = nextId + 1
    BY <1>4 DEF ScoreSignal, SkipSignal, CountSignal
  <2>5. [id |-> nextId, ip |-> signals.ip, at |-> at] \in Risks
    BY <1>1 DEF ScorerTyped, Risks
  <2>6. out' \in Seq(Risks)
    BY <1>1, <2>4, <2>5, AppendProperties DEF ScorerTyped
  <2>7. nextId' \in Nat
    BY <1>1, <2>4 DEF ScorerTyped
  <2> QED
    BY <1>1, <2>1, <2>3, <2>6, <2>7 DEF ScorerTyped
<1>5. ASSUME CallReturns
      PROVE  ScorerTyped'
  <2>1. risks' = risks \o out /\ ForgetCall /\ at' = at /\ nextId' = nextId
    BY <1>5 DEF CallReturns
  <2>2. risks' \in Seq(Risks) /\ <<>> \in Seq(Risks)
    BY <1>1, <2>1, ConcatProperties, EmptySeq DEF ScorerTyped
  <2>3. (CHOOSE ip \in Ips : TRUE) \in Ips
    BY RiskAssumption
  <2> QED
    BY <1>1, <2>1, <2>2, <2>3 DEF ForgetCall, NoSignals, ScorerTyped
<1>6. ScorerTyped'
  BY <1>3, <1>4, <1>5 DEF Scorer
<1>7. OthersTyped'
  BY <1>1, <1>2, <1>6 DEF RiskInv, Typed, OthersTyped
<1> QED
  BY <1>2, <1>7, NodeUnchanged

LEMMA TickStep == RiskInv /\ Tick => RiskInv'
<1> SUFFICES ASSUME RiskInv, Tick PROVE RiskInv'
  OBVIOUS
<1>1. Typed /\ MaxClock \in Nat /\ BlockTtl \in Nat
  BY RiskAssumption DEF RiskInv
<1>2. /\ clock \in Nat /\ clock' = clock + 1 /\ clock' \in 1..MaxClock
      /\ UNCHANGED <<scorerVars, callVars, signals, out, at, risks>>
      /\ UNCHANGED <<until, set, work, sched, promised, drifted, shared, crossed,
                     net, nextId>>
  BY <1>1 DEF Typed, Tick, nodeVars, recordVars, busVars, scorerVars, callVars
<1>3. ScorerTyped'
  BY <1>2 DEF RiskInv, ScorerTyped
<1>4. Typed'
  <2>1. \A w \in Appliers : work[w].pc \notin {"idle", "check", "publish"} =>
           work[w].now \in 1..clock'
    BY <1>1, <1>2 DEF Typed
  <2> QED
    BY <1>1, <1>2, <2>1 DEF Typed
<1>5. RowsInSet' /\ SetHasRows' /\ LiftedAreOver' /\ LiftedAreOut'
  <2>1. \A ip \in Ips : until[ip] \in Nat
    BY <1>1 DEF Typed
  <2>2. \A ip \in Ips : until[ip] > clock' => until[ip] > clock
    BY <1>2, <2>1
  <2>3. \A ip \in Ips : until[ip] <= clock => until[ip] <= clock'
    BY <1>2, <2>1
  <2>4. RowsInSet'
    BY <1>2, <2>2 DEF RiskInv, RowsInSet
  <2>5. LiftedAreOver'
    BY <1>2, <2>3 DEF RiskInv, LiftedAreOver, Lifting
  <2> QED
    BY <1>2, <2>4, <2>5 DEF RiskInv, SetHasRows, LiftedAreOut
<1>6. AppliersSeeSet' /\ OverlapsNoted'
  BY <1>2 DEF RiskInv, AppliersSeeSet, TookForBlocked, StillBlocked, OverlapsNoted,
              Lifting, Busy
<1>7. PromisesKept' /\ PromisesGrow'
  <2>1. \A ip \in Ips : promised[ip] \in Nat
    BY <1>1 DEF Typed
  <2>2. \A ip \in Ips : promised[ip] <= clock => promised[ip] <= clock'
    BY <1>2, <2>1
  <2>3. \A ip \in Ips : promised[ip] <= clock + BlockTtl => promised[ip] <= clock' + BlockTtl
    BY <1>1, <1>2, <2>1
  <2>4. PromisesKept'
    BY <1>2, <2>2 DEF RiskInv, PromisesKept
  <2>5. PromisesGrow'
    BY <1>2, <2>3 DEF RiskInv, PromisesGrow, Busy
  <2> QED
    BY <2>4, <2>5
<1> QED
  BY <1>3, <1>4, <1>5, <1>6, <1>7 DEF RiskInv

\* A worker takes an event.
LEMMA StartStep ==
    ASSUME RiskInv, NEW w \in Appliers, NEW e, e.id \in Nat, e.ip \in Ips, e.at \in Nat,
           work[w].pc \in {"idle", "check"},
           work' = [work EXCEPT ![w] = Job("apply", e)],
           NoteOverlap(e.ip), UNCHANGED <<until, set, sched, promised, drifted, clock>>,
           OthersTyped'
    PROVE  RiskInv'
<1> DEFINE ip == e.ip
<1>1. Typed /\ MaxClock \in Nat /\ BlockTtl \in Nat /\ clock \in Nat /\ clock \in 1..clock
  BY RiskAssumption DEF RiskInv, Typed
<1>2. /\ work' \in [Appliers -> Jobs]
      /\ work'[w].pc = "apply" /\ work'[w].ip = ip /\ work'[w].now = clock
      /\ \A v \in Appliers \ {w} : work'[v] = work[v]
  BY <1>1, StartWork DEF Labels
<1>3. /\ shared' = IF \E v \in Appliers : Busy(v, ip) THEN shared \cup {ip} ELSE shared
      /\ crossed' = IF Lifting(ip) THEN crossed \cup {ip} ELSE crossed
  BY DEF NoteOverlap, Add
<1>4. \A j \in Ips : ~Busy(w, j) /\ \A v \in Appliers \ {w} : Busy(v, j)' <=> Busy(v, j)
  BY <1>2 DEF Busy
<1>5. Typed'
  BY <1>1, <1>2 DEF Typed, OthersTyped
<1>6. RowsInSet' /\ LiftedAreOver' /\ LiftedAreOut'
  BY <1>3 DEF RiskInv, RowsInSet, LiftedAreOver, LiftedAreOut, Lifting
<1>7. SetHasRows'
  <2> SUFFICES ASSUME NEW j \in Ips \ drifted, j \in set, until[j] = 0
               PROVE  \E v \in Appliers : work'[v].pc = "write" /\ work'[v].ip = j
    BY DEF SetHasRows
  <2>1. PICK v \in Appliers : work[v].pc = "write" /\ work[v].ip = j
    BY DEF RiskInv, SetHasRows
  <2> QED
    BY <1>2, <2>1
<1>8. AppliersSeeSet'
  <2> SUFFICES ASSUME NEW v \in Appliers, TookForBlocked(v)'
               PROVE  work'[v].ip \in set \cup drifted \cup crossed'
    BY DEF AppliersSeeSet
  <2>1. CASE v = w
    <3>1. until[ip] > clock
      BY <1>2, <2>1 DEF TookForBlocked, StillBlocked
    <3> QED
      BY <1>2, <2>1, <3>1 DEF RiskInv, RowsInSet
  <2>2. CASE v # w
    <3>1. TookForBlocked(v)
      BY <1>2, <2>2 DEF TookForBlocked, StillBlocked
    <3> QED
      BY <1>2, <1>3, <2>2, <3>1 DEF RiskInv, AppliersSeeSet
  <2> QED
    BY <2>1, <2>2
<1>9. OverlapsNoted'
  <2> SUFFICES ASSUME NEW j \in Ips
               PROVE  /\ \A v \in Appliers : Lifting(j) /\ Busy(v, j)' => j \in crossed'
                      /\ \A u, v \in Appliers :
                            u # v /\ Busy(u, j)' /\ Busy(v, j)' => j \in shared'
    BY DEF OverlapsNoted, Lifting
  <2>1. Busy(w, j)' => j = ip
    BY <1>2 DEF Busy
  <2> QED
    BY <1>3, <1>4, <2>1 DEF RiskInv, OverlapsNoted
<1>10. PromisesKept'
  BY <1>3 DEF RiskInv, PromisesKept
<1>11. PromisesGrow'
  <2> SUFFICES ASSUME NEW j \in Ips, NEW v \in Appliers, Busy(v, j)', j \notin shared'
               PROVE  promised[j] <= work'[v].now + BlockTtl
    BY DEF RiskInv, PromisesGrow
  <2>1. CASE v = w
    BY <1>2, <2>1 DEF RiskInv, PromisesGrow
  <2>2. CASE v # w
    BY <1>2, <1>3, <1>4, <2>2 DEF RiskInv, PromisesGrow
  <2> QED
    BY <2>1, <2>2
<1> QED
  BY <1>5, <1>6, <1>7, <1>8, <1>9, <1>10, <1>11 DEF RiskInv, OthersTyped

\* A worker is through with an event, or dies over it.
LEMMA StopStep ==
    ASSUME RiskInv, NEW w \in Appliers, work' \in [Appliers -> Jobs],
           work'[w].pc \in {"idle", "check", "publish"},
           \A v \in Appliers \ {w} : work'[v] = work[v],
           UNCHANGED <<until, set, sched, promised, recordVars, clock>>,
           drifted \subseteq drifted',
           work[w].pc = "write" => work[w].ip \in drifted',
           OthersTyped'
    PROVE  RiskInv'
<1>1. UNCHANGED <<shared, crossed>>
  BY DEF recordVars
<1>2. \A j \in Ips, v \in Appliers : Busy(v, j)' => v # w /\ Busy(v, j)
  BY DEF Busy
<1>3. Typed'
  BY DEF RiskInv, Typed, OthersTyped
<1>4. RowsInSet' /\ LiftedAreOver' /\ LiftedAreOut'
  BY <1>1 DEF RiskInv, RowsInSet, LiftedAreOver, LiftedAreOut, Lifting
<1>5. SetHasRows'
  <2> SUFFICES ASSUME NEW j \in Ips \ drifted', j \in set, until[j] = 0
               PROVE  \E v \in Appliers : work'[v].pc = "write" /\ work'[v].ip = j
    BY DEF SetHasRows
  <2>1. PICK v \in Appliers : work[v].pc = "write" /\ work[v].ip = j
    BY DEF RiskInv, SetHasRows
  <2>2. v # w
    BY <2>1
  <2> QED
    BY <2>1, <2>2
<1>6. AppliersSeeSet'
  <2> SUFFICES ASSUME NEW v \in Appliers, TookForBlocked(v)'
               PROVE  work'[v].ip \in set \cup drifted' \cup crossed
    BY <1>1 DEF AppliersSeeSet
  <2>1. v # w
    BY DEF TookForBlocked
  <2>2. TookForBlocked(v)
    BY <2>1 DEF TookForBlocked, StillBlocked
  <2> QED
    BY <2>1, <2>2 DEF RiskInv, AppliersSeeSet
<1>7. OverlapsNoted'
  BY <1>1, <1>2 DEF RiskInv, OverlapsNoted, Lifting
<1>8. PromisesKept' /\ PromisesGrow'
  BY <1>1, <1>2 DEF RiskInv, PromisesKept, PromisesGrow
<1> QED
  BY <1>3, <1>4, <1>5, <1>6, <1>7, <1>8 DEF RiskInv, OthersTyped

LEMMA TakeRiskStep == RiskInv /\ TakeRisk => RiskInv'
<1> SUFFICES ASSUME RiskInv, TakeRisk PROVE RiskInv'
  OBVIOUS
<1>1. /\ work["detector"].pc = "idle" /\ risks # <<>> /\ risks' = Tail(risks)
      /\ work' = [work EXCEPT !["detector"] = Job("apply", Head(risks))]
      /\ NoteOverlap(Head(risks).ip)
      /\ UNCHANGED <<until, set, sched, promised, drifted, clock, signals, at, out>>
      /\ UNCHANGED <<net, nextId>>
  BY DEF TakeRisk, callVars, busVars
<1>2. /\ risks \in Seq(Risks) /\ Head(risks) \in Risks /\ Tail(risks) \in Seq(Risks)
  BY <1>1, HeadTailProperties DEF RiskInv, ScorerTyped
<1>3. Head(risks).id \in Nat /\ Head(risks).ip \in Ips /\ Head(risks).at \in Nat /\ "detector" \in Appliers
  BY <1>2 DEF Risks, Appliers
<1>4. OthersTyped'
  BY <1>1, <1>2 DEF RiskInv, Typed, ScorerTyped, OthersTyped
<1> QED
  BY <1>1, <1>3, <1>4, StartStep

LEMMA DecideStep == ASSUME RiskInv, NEW w \in Appliers, Decide(w) PROVE RiskInv'
<1> DEFINE ip == work[w].ip
<1>1. Typed /\ work[w].pc = "apply" /\ ip \in Ips
  BY DEF RiskInv, Typed, Decide, Jobs
<1>2. /\ UNCHANGED <<until, set, sched, promised, drifted, clock, recordVars, signals, at,
                     out, risks, net, nextId, shared, crossed>>
  BY DEF Decide, scorerVars, callVars, busVars, recordVars
<1>3. OthersTyped'
  BY <1>2 DEF RiskInv, Typed, ScorerTyped, OthersTyped
<1>4. CASE Done(w)
  BY <1>1, <1>2, <1>3, <1>4, DoneWork, StopStep
<1>5. ASSUME NEW label \in {"refresh", "add"}, Go(w, label),
             label = "refresh" => StillBlocked(ip, work[w].now)
      PROVE  RiskInv'
  <2>1. /\ work' \in [Appliers -> Jobs]
        /\ work'[w].pc = label /\ work'[w].ip = ip /\ work'[w].now = work[w].now
        /\ \A v \in Appliers \ {w} : work'[v] = work[v]
    BY <1>1, <1>5, GoWork DEF Labels
  <2>2. \A j \in Ips, v \in Appliers : Busy(v, j)' <=> Busy(v, j)
    BY <1>1, <2>1 DEF Busy
  <2>3. Typed'
    BY <1>1, <1>2, <1>3, <2>1 DEF Typed, OthersTyped
  <2>4. RowsInSet' /\ LiftedAreOver' /\ LiftedAreOut'
    BY <1>2 DEF RiskInv, RowsInSet, LiftedAreOver, LiftedAreOut, Lifting
  <2>5. SetHasRows'
    <3> SUFFICES ASSUME NEW j \in Ips \ drifted, j \in set, until[j] = 0
                 PROVE  \E v \in Appliers : work'[v].pc = "write" /\ work'[v].ip = j
      BY <1>2 DEF SetHasRows
    <3>1. PICK v \in Appliers : work[v].pc = "write" /\ work[v].ip = j
      BY DEF RiskInv, SetHasRows
    <3> QED
      BY <1>1, <2>1, <3>1
  <2>6. AppliersSeeSet'
    <3> SUFFICES ASSUME NEW v \in Appliers, TookForBlocked(v)'
                 PROVE  work'[v].ip \in set \cup drifted \cup crossed
      BY <1>2 DEF AppliersSeeSet
    <3>1. TookForBlocked(v)
      BY <1>1, <1>2, <1>5, <2>1 DEF TookForBlocked, StillBlocked
    <3> QED
      BY <2>1, <3>1 DEF RiskInv, AppliersSeeSet
  <2>7. OverlapsNoted'
    BY <1>2, <2>2 DEF RiskInv, OverlapsNoted, Lifting
  <2>8. PromisesKept' /\ PromisesGrow'
    BY <1>2, <2>1, <2>2 DEF RiskInv, PromisesKept, PromisesGrow
  <2> QED
    BY <1>3, <2>3, <2>4, <2>5, <2>6, <2>7, <2>8 DEF RiskInv, OthersTyped
<1> QED
  BY <1>4, <1>5 DEF Decide

LEMMA AddToSetStep == ASSUME RiskInv, NEW w \in Appliers, AddToSet(w) PROVE RiskInv'
<1> DEFINE ip == work[w].ip
<1>1. Typed /\ work[w].pc = "add" /\ ip \in Ips
  BY DEF RiskInv, Typed, AddToSet, Jobs
<1>2. /\ UNCHANGED <<until, sched, promised, drifted, clock, recordVars, signals, at,
                     out, risks, net, nextId, shared, crossed>>
  BY DEF AddToSet, scorerVars, callVars, busVars, recordVars
<1>3. OthersTyped'
  BY <1>2 DEF RiskInv, Typed, ScorerTyped, OthersTyped
<1>4. ASSUME work' = [work EXCEPT ![w] = Idle], UNCHANGED set
      PROVE  RiskInv'
  BY <1>1, <1>2, <1>3, <1>4, StopWork, StopStep
<1>5. ASSUME set' = set \cup {ip}, Go(w, "write")
      PROVE  RiskInv'
  <2>1. /\ work' \in [Appliers -> Jobs]
        /\ work'[w].pc = "write" /\ work'[w].ip = ip /\ work'[w].now = work[w].now
        /\ \A v \in Appliers \ {w} : work'[v] = work[v]
    BY <1>1, <1>5, GoWork DEF Labels
  <2>2. \A j \in Ips, v \in Appliers : Busy(v, j)' <=> Busy(v, j)
    BY <1>1, <2>1 DEF Busy
  <2>3. Typed'
    BY <1>1, <1>2, <1>3, <2>1 DEF Typed, OthersTyped
  <2>4. RowsInSet' /\ LiftedAreOver'
    BY <1>2, <1>5 DEF RiskInv, RowsInSet, LiftedAreOver, Lifting
  <2>5. LiftedAreOut'
    <3> SUFFICES ASSUME sched.pc = "delete", sched.ip = ip
                 PROVE  ip \in crossed
      BY <1>2, <1>5 DEF RiskInv, LiftedAreOut
    <3>1. Lifting(ip) /\ Busy(w, ip)
      BY <1>1 DEF Typed, Lifting, Busy
    <3> QED
      BY <1>1, <3>1 DEF RiskInv, OverlapsNoted
  <2>6. SetHasRows'
    <3> SUFFICES ASSUME NEW j \in Ips \ drifted, j \in set', until[j] = 0
                 PROVE  \E v \in Appliers : work'[v].pc = "write" /\ work'[v].ip = j
      BY <1>2 DEF SetHasRows
    <3>1. CASE j = ip
      BY <2>1, <3>1
    <3>2. CASE j # ip
      <4>1. PICK v \in Appliers : work[v].pc = "write" /\ work[v].ip = j
        BY <1>5, <3>2 DEF RiskInv, SetHasRows
      <4> QED
        BY <1>1, <2>1, <4>1
    <3> QED
      BY <3>1, <3>2
  <2>7. AppliersSeeSet'
    <3> SUFFICES ASSUME NEW v \in Appliers, TookForBlocked(v)'
                 PROVE  work'[v].ip \in set' \cup drifted \cup crossed
      BY <1>2 DEF AppliersSeeSet
    <3>1. CASE v = w
      BY <1>5, <2>1, <3>1
    <3>2. CASE v # w
      <4>1. TookForBlocked(v)
        BY <1>2, <2>1, <3>2 DEF TookForBlocked, StillBlocked
      <4> QED
        BY <1>5, <2>1, <3>2, <4>1 DEF RiskInv, AppliersSeeSet
    <3> QED
      BY <3>1, <3>2
  <2>8. OverlapsNoted'
    BY <1>2, <2>2 DEF RiskInv, OverlapsNoted, Lifting
  <2>9. PromisesKept' /\ PromisesGrow'
    BY <1>2, <2>1, <2>2 DEF RiskInv, PromisesKept, PromisesGrow
  <2> QED
    BY <1>3, <2>3, <2>4, <2>5, <2>6, <2>7, <2>8, <2>9 DEF RiskInv, OthersTyped
<1> QED
  BY <1>4, <1>5 DEF AddToSet

\* Whoever writes a row either found the address in the set, or put it there,
\* or crossed with the scheduler.
LEMMA WriteRowStep == ASSUME RiskInv, NEW w \in Appliers, WriteRow(w) PROVE RiskInv'
<1> DEFINE ip == work[w].ip
           end == work[w].now + BlockTtl
<1>1. /\ Typed /\ work[w].pc \in {"refresh", "write"} /\ ip \in Ips
      /\ work[w].now \in 1..clock /\ clock \in Nat /\ work[w].now \in Nat
      /\ BlockTtl \in Nat /\ MaxClock \in Nat
  BY RiskAssumption DEF RiskInv, Typed, WriteRow, Jobs
<1>2. /\ until' = [until EXCEPT ![ip] = end]
      /\ promised' = [promised EXCEPT ![ip] = IF @ < end THEN end ELSE @]
      /\ drifted' = IF ip \in crossed THEN drifted \cup {ip} ELSE drifted
      /\ Done(w)
      /\ UNCHANGED <<set, sched, clock, signals, at, out, risks, net, nextId,
                     shared, crossed>>
  BY DEF WriteRow, NewEnd, Add, scorerVars, callVars, busVars, recordVars
<1>3. /\ work' \in [Appliers -> Jobs]
      /\ work'[w].pc \in {"idle", "check", "publish"}
      /\ \A v \in Appliers \ {w} : work'[v] = work[v]
  BY <1>1, <1>2, DoneWork
<1>4. OthersTyped'
  BY <1>2 DEF RiskInv, Typed, ScorerTyped, OthersTyped
<1>5. end \in Nat /\ end # 0 /\ end <= clock + BlockTtl
  BY <1>1
<1> HIDE DEF end
<1>6. /\ until' \in [Ips -> Nat] /\ promised' \in [Ips -> Nat]
      /\ until'[ip] = end /\ \A j \in Ips \ {ip} : until'[j] = until[j]
      /\ promised'[ip] = IF promised[ip] < end THEN end ELSE promised[ip]
      /\ \A j \in Ips \ {ip} : promised'[j] = promised[j]
      /\ promised[ip] \in Nat
  BY <1>1, <1>2, <1>5 DEF Typed
<1>7. \A j \in Ips, v \in Appliers : Busy(v, j)' => v # w /\ Busy(v, j)
  BY <1>3 DEF Busy
<1>8. Busy(w, ip)
  BY <1>1 DEF Busy
<1>9. Typed'
  BY <1>1, <1>2, <1>3, <1>4, <1>6 DEF Typed, OthersTyped
<1>10. ip \notin drifted' => ip \in set /\ ~Lifting(ip)
  BY <1>1, <1>2, <1>8 DEF RiskInv, AppliersSeeSet, TookForBlocked, OverlapsNoted
<1>11. RowsInSet'
  BY <1>2, <1>6, <1>10 DEF RiskInv, RowsInSet
<1>12. SetHasRows'
  <2> SUFFICES ASSUME NEW j \in Ips \ drifted', j \in set, until'[j] = 0
               PROVE  \E v \in Appliers : work'[v].pc = "write" /\ work'[v].ip = j
    BY <1>2 DEF SetHasRows
  <2>1. j # ip /\ until[j] = 0 /\ j \notin drifted
    BY <1>2, <1>5, <1>6
  <2>2. PICK v \in Appliers : work[v].pc = "write" /\ work[v].ip = j
    BY <2>1 DEF RiskInv, SetHasRows
  <2> QED
    BY <1>3, <2>1, <2>2
<1>13. LiftedAreOver'
  BY <1>2, <1>6, <1>10 DEF RiskInv, LiftedAreOver, Lifting
<1>14. LiftedAreOut'
  BY <1>2 DEF RiskInv, LiftedAreOut
<1>15. AppliersSeeSet'
  <2> SUFFICES ASSUME NEW v \in Appliers, TookForBlocked(v)'
               PROVE  work'[v].ip \in set \cup drifted' \cup crossed
    BY <1>2 DEF AppliersSeeSet
  <2>1. v # w /\ work'[v] = work[v]
    BY <1>3 DEF TookForBlocked
  <2>2. CASE work[v].ip = ip
    BY <1>2, <1>10, <2>1, <2>2
  <2>3. CASE work[v].ip # ip
    <3>1. work[v].ip \in Ips
      BY <1>1 DEF Typed, Jobs
    <3>2. TookForBlocked(v)
      BY <1>6, <2>1, <2>3, <3>1 DEF TookForBlocked, StillBlocked
    <3> QED
      BY <1>2, <2>1, <3>2 DEF RiskInv, AppliersSeeSet
  <2> QED
    BY <2>2, <2>3
<1>16. OverlapsNoted'
  BY <1>2, <1>7 DEF RiskInv, OverlapsNoted, Lifting
<1>17. PromisesKept'
  <2> SUFFICES ASSUME NEW j \in Ips \ (drifted' \cup shared)
               PROVE  promised'[j] <= until'[j] \/ promised'[j] <= clock
    BY <1>2 DEF PromisesKept
  <2>1. CASE j = ip
    <3>1. promised[ip] <= end
      BY <1>1, <1>8, <2>1 DEF RiskInv, PromisesGrow, end
    <3> QED
      BY <1>5, <1>6, <2>1, <3>1
  <2>2. CASE j # ip
    BY <1>2, <1>6, <2>2 DEF RiskInv, PromisesKept
  <2> QED
    BY <2>1, <2>2
<1>18. PromisesGrow'
  <2> SUFFICES ASSUME NEW j \in Ips
               PROVE  /\ promised'[j] <= clock + BlockTtl
                      /\ \A v \in Appliers : Busy(v, j)' /\ j \notin shared
                                               => promised'[j] <= work'[v].now + BlockTtl
    BY <1>2 DEF PromisesGrow
  <2>1. CASE j = ip
    <3>1. promised'[j] <= clock + BlockTtl
      BY <1>5, <1>6, <2>1 DEF RiskInv, PromisesGrow
    <3>2. \A v \in Appliers : Busy(v, j)' => j \in shared
      BY <1>1, <1>7, <1>8, <2>1 DEF RiskInv, OverlapsNoted
    <3> QED
      BY <3>1, <3>2
  <2>2. CASE j # ip
    BY <1>3, <1>6, <1>7, <2>2 DEF RiskInv, PromisesGrow
  <2> QED
    BY <2>1, <2>2
<1> QED
  BY <1>4, <1>9, <1>11, <1>12, <1>13, <1>14, <1>15, <1>16, <1>17, <1>18 DEF RiskInv, OthersTyped

LEMMA ListExpiredStep == RiskInv /\ ListExpired => RiskInv'
<1> SUFFICES ASSUME RiskInv, ListExpired PROVE RiskInv'
  OBVIOUS
<1>1. Typed /\ SchedIdle \in Lifts
  BY IdleIsJob DEF RiskInv
<1>2. /\ sched' = [pc |-> "next", ips |-> Expired, ip |-> SchedIdle.ip]
      /\ crossed' = crossed \cup {ip \in Expired : \E w \in Appliers : Busy(w, ip)}
      /\ UNCHANGED <<until, set, work, promised, drifted, shared, clock, signals, at,
                     out, risks, net, nextId>>
  BY DEF ListExpired, scorerVars, callVars, busVars
<1>3. OthersTyped'
  BY <1>2 DEF RiskInv, Typed, ScorerTyped, OthersTyped
<1>4. sched' \in Lifts /\ sched'.pc = "next" /\ sched'.ips = Expired
  BY <1>1, <1>2 DEF Lifts, Expired
<1>5. \A ip \in Ips : Lifting(ip)' => ip \in Expired /\ until[ip] <= clock
  BY <1>4 DEF Lifting, Expired
<1>6. Typed'
  BY <1>1, <1>2, <1>3, <1>4 DEF Typed, OthersTyped
<1>7. RowsInSet' /\ SetHasRows'
  BY <1>2 DEF RiskInv, RowsInSet, SetHasRows
<1>8. LiftedAreOver' /\ LiftedAreOut'
  BY <1>2, <1>4, <1>5 DEF LiftedAreOver, LiftedAreOut
<1>9. AppliersSeeSet'
  <2> SUFFICES ASSUME NEW v \in Appliers, TookForBlocked(v)'
               PROVE  work[v].ip \in set \cup drifted \cup crossed'
    BY <1>2 DEF AppliersSeeSet
  <2>1. TookForBlocked(v)
    BY <1>2 DEF TookForBlocked, StillBlocked
  <2> QED
    BY <1>2, <2>1 DEF RiskInv, AppliersSeeSet
<1>10. \A j \in Ips, v \in Appliers : Busy(v, j)' <=> Busy(v, j)
  BY <1>2 DEF Busy
<1>11. OverlapsNoted'
  BY <1>2, <1>5, <1>10 DEF RiskInv, OverlapsNoted
<1>12. PromisesKept' /\ PromisesGrow'
  BY <1>2, <1>10 DEF RiskInv, PromisesKept, PromisesGrow
<1> QED
  BY <1>3, <1>6, <1>7, <1>8, <1>9, <1>11, <1>12 DEF RiskInv, OthersTyped

\* What leaves the set is over.
LEMMA LiftStep == ASSUME RiskInv, NEW ip \in Ips, Lift(ip) PROVE RiskInv'
<1>1. Typed /\ sched.pc = "next" /\ ip \in sched.ips /\ sched \in Lifts
  BY DEF RiskInv, Typed, Lift
<1>2. /\ sched' = [sched EXCEPT !.pc = "delete", !.ip = ip]
      /\ UNCHANGED <<until, work, promised, shared, crossed, clock, signals, at,
                     out, risks, net, nextId>>
  BY DEF Lift, scorerVars, callVars, busVars, recordVars
<1>3. \/ set' = set \ {ip} /\ drifted' = drifted
      \/ set' = set /\ drifted' = drifted \cup {ip}
  BY DEF Lift
<1>4. OthersTyped'
  BY <1>2 DEF RiskInv, Typed, ScorerTyped, OthersTyped
<1>5. sched' \in Lifts /\ sched'.pc = "delete" /\ sched'.ip = ip /\ sched'.ips = sched.ips
  BY <1>1, <1>2 DEF Lifts
<1>6. Lifting(ip) /\ \A j \in Ips : Lifting(j)' <=> Lifting(j)
  BY <1>1, <1>5 DEF Lifting
<1>7. \A j \in Ips, v \in Appliers : Busy(v, j)' <=> Busy(v, j)
  BY <1>2 DEF Busy
<1>8. Typed'
  BY <1>1, <1>2, <1>4, <1>5 DEF Typed, OthersTyped
<1>9. RowsInSet'
  <2> SUFFICES ASSUME NEW j \in Ips \ drifted', until[j] > clock
               PROVE  j \in set'
    BY <1>2 DEF RowsInSet
  <2>1. j \in set
    BY <1>3 DEF RiskInv, RowsInSet
  <2>2. CASE j = ip
    <3>1. ip \notin drifted => until[ip] <= clock
      BY <1>6 DEF RiskInv, LiftedAreOver
    <3>2. until[ip] \in Nat /\ clock \in Nat
      BY <1>1, RiskAssumption DEF Typed
    <3> QED
      BY <1>3, <2>2, <3>1, <3>2
  <2> QED
    BY <1>3, <2>1, <2>2
<1>10. SetHasRows'
  BY <1>2, <1>3 DEF RiskInv, SetHasRows
<1>11. LiftedAreOver' /\ LiftedAreOut'
  BY <1>2, <1>3, <1>5, <1>6 DEF RiskInv, LiftedAreOver, LiftedAreOut
<1>12. AppliersSeeSet'
  <2> SUFFICES ASSUME NEW v \in Appliers, TookForBlocked(v)'
               PROVE  work[v].ip \in set' \cup drifted' \cup crossed
    BY <1>2 DEF AppliersSeeSet
  <2>1. TookForBlocked(v)
    BY <1>2 DEF TookForBlocked, StillBlocked
  <2>2. CASE work[v].ip = ip
    <3>1. Busy(v, ip)
      BY <2>1, <2>2 DEF TookForBlocked, Busy
    <3> QED
      BY <1>6, <2>2, <3>1 DEF RiskInv, OverlapsNoted
  <2> QED
    BY <1>3, <2>1, <2>2 DEF RiskInv, AppliersSeeSet
<1>13. OverlapsNoted'
  BY <1>2, <1>6, <1>7 DEF RiskInv, OverlapsNoted
<1>14. PromisesKept' /\ PromisesGrow'
  BY <1>2, <1>3, <1>7 DEF RiskInv, PromisesKept, PromisesGrow
<1> QED
  BY <1>4, <1>8, <1>9, <1>10, <1>11, <1>12, <1>13, <1>14 DEF RiskInv, OthersTyped

\* What leaves the table is out of the set.
LEMMA DeleteRowStep == RiskInv /\ DeleteRow => RiskInv'
<1> SUFFICES ASSUME RiskInv, DeleteRow PROVE RiskInv'
  OBVIOUS
<1> DEFINE ip == sched.ip
           rest == sched.ips \ {ip}
<1>1. /\ Typed /\ sched.pc = "delete" /\ ip \in sched.ips /\ ip \in Ips /\ sched \in Lifts
  BY DEF RiskInv, Typed, DeleteRow, Lifts
<1>2. /\ sched' = IF rest = {} THEN SchedIdle ELSE [sched EXCEPT !.pc = "next", !.ips = rest]
      /\ until' = [until EXCEPT ![ip] = 0]
      /\ drifted' = IF ip \in crossed THEN drifted \cup {ip} ELSE drifted
      /\ UNCHANGED <<set, work, promised, shared, crossed, clock, signals, at,
                     out, risks, net, nextId>>
  BY DEF DeleteRow, LiftedRow, Add, scorerVars, callVars, busVars, recordVars
<1>3. OthersTyped'
  BY <1>2 DEF RiskInv, Typed, ScorerTyped, OthersTyped
<1>4. sched' \in Lifts /\ sched'.pc # "delete" /\ \A j \in Ips : Lifting(j)' => Lifting(j)
  <2>1. CASE rest = {}
    BY <1>2, <2>1, IdleIsJob DEF Lifting
  <2>2. CASE rest # {}
    <3>1. sched' = [sched EXCEPT !.pc = "next", !.ips = rest]
      BY <1>2, <2>2
    <3>2. sched'.pc = "next" /\ sched'.ips = rest /\ sched' \in Lifts
      BY <1>1, <3>1 DEF Lifts
    <3> QED
      BY <1>1, <3>2 DEF Lifting
  <2> QED
    BY <2>1, <2>2
<1>5. Lifting(ip)
  BY <1>1 DEF Lifting
<1>6. \A j \in Ips, v \in Appliers : Busy(v, j)' <=> Busy(v, j)
  BY <1>2 DEF Busy
<1>7. /\ until' \in [Ips -> Nat] /\ until'[ip] = 0
      /\ \A j \in Ips \ {ip} : until'[j] = until[j]
  BY <1>1, <1>2 DEF Typed
<1> HIDE DEF ip
<1>8. clock \in Nat /\ clock > 0 /\ clock <= MaxClock
  BY <1>1, RiskAssumption DEF Typed
<1>9. Typed'
  BY <1>1, <1>2, <1>3, <1>4, <1>7 DEF Typed, OthersTyped
<1>10. RowsInSet'
  <2> SUFFICES ASSUME NEW j \in Ips \ drifted', until'[j] > clock
               PROVE  j \in set
    BY <1>2 DEF RowsInSet
  <2>1. j # ip
    BY <1>7, <1>8
  <2> QED
    BY <1>2, <1>7, <2>1 DEF RiskInv, RowsInSet
<1>11. SetHasRows'
  <2> SUFFICES ASSUME NEW j \in Ips \ drifted', j \in set, until'[j] = 0
               PROVE  \E v \in Appliers : work[v].pc = "write" /\ work[v].ip = j
    BY <1>2 DEF SetHasRows
  <2>1. j # ip
    BY <1>1, <1>2 DEF RiskInv, LiftedAreOut, ip
  <2> QED
    BY <1>2, <1>7, <2>1 DEF RiskInv, SetHasRows
<1>12. LiftedAreOver'
  <2> SUFFICES ASSUME NEW j \in Ips \ drifted', Lifting(j)
               PROVE  until'[j] <= clock
    BY <1>2, <1>4 DEF LiftedAreOver
  <2> QED
    BY <1>2, <1>7, <1>8 DEF RiskInv, LiftedAreOver
<1>13. LiftedAreOut'
  BY <1>4 DEF LiftedAreOut
<1>14. AppliersSeeSet'
  <2> SUFFICES ASSUME NEW v \in Appliers, TookForBlocked(v)'
               PROVE  work[v].ip \in set \cup drifted' \cup crossed
    BY <1>2 DEF AppliersSeeSet
  <2>1. work[v].ip \in Ips
    BY <1>1 DEF Typed, Jobs
  <2>2. until'[work[v].ip] # 0 => until'[work[v].ip] = until[work[v].ip]
    BY <1>7, <2>1
  <2>3. TookForBlocked(v)
    BY <1>2, <2>2 DEF TookForBlocked, StillBlocked
  <2> QED
    BY <1>2, <2>3 DEF RiskInv, AppliersSeeSet
<1>15. OverlapsNoted'
  BY <1>2, <1>4, <1>6 DEF RiskInv, OverlapsNoted
<1>16. PromisesKept'
  <2> SUFFICES ASSUME NEW j \in Ips \ (drifted' \cup shared)
               PROVE  promised[j] <= until'[j] \/ promised[j] <= clock
    BY <1>2 DEF PromisesKept
  <2>1. j \notin drifted /\ (promised[j] <= until[j] \/ promised[j] <= clock)
    BY <1>2 DEF RiskInv, PromisesKept
  <2>2. CASE j = ip
    <3>1. until[j] <= clock
      BY <1>5, <2>1, <2>2 DEF RiskInv, LiftedAreOver, ip
    <3>2. promised[j] \in Nat /\ until[j] \in Nat
      BY <1>1 DEF Typed
    <3> QED
      BY <1>8, <2>1, <3>1, <3>2
  <2>3. CASE j # ip
    BY <1>7, <2>1, <2>3
  <2> QED
    BY <2>2, <2>3
<1>17. PromisesGrow'
  BY <1>2, <1>6 DEF RiskInv, PromisesGrow
<1> QED
  BY <1>3, <1>9, <1>10, <1>11, <1>12, <1>13, <1>14, <1>15, <1>16, <1>17 DEF RiskInv, OthersTyped

LEMMA BusStep == RiskInv /\ (PublishOwn \/ \E ip \in Ips, observed \in 0..clock,
                                             signed \in BOOLEAN : Foreign(ip, observed, signed))
                   => RiskInv'
<1> SUFFICES ASSUME RiskInv PROVE (PublishOwn \/ \E ip \in Ips, observed \in 0..clock,
                                    signed \in BOOLEAN : Foreign(ip, observed, signed))
                                  => RiskInv'
  OBVIOUS
<1>1. ScorerTyped /\ Typed
  BY DEF RiskInv
<1>2. ASSUME PublishOwn PROVE RiskInv'
  <2>1. /\ net' = net \cup {[id |-> work["detector"].id, ip |-> work["detector"].ip,
                             at |-> work["detector"].at, signed |-> TRUE]}
        /\ work' = [work EXCEPT !["detector"] = Idle]
        /\ work["detector"].pc = "publish" /\ "detector" \in Appliers
        /\ UNCHANGED <<until, set, sched, promised, drifted, clock, recordVars, signals,
                       at, out, risks, nextId>>
    BY <1>2 DEF PublishOwn, scorerVars, callVars, recordVars, Appliers
  <2>2. /\ work["detector"].id \in Nat
        /\ work["detector"].ip \in Ips /\ work["detector"].at \in Nat
    BY <1>1, <2>1 DEF Typed, Jobs
  <2>3. OthersTyped'
    BY <1>1, <2>1, <2>2 DEF Typed, ScorerTyped, OthersTyped
  <2> QED
    BY <1>1, <2>1, <2>3, StopWork, StopStep
<1>3. ASSUME NEW ip \in Ips, NEW observed \in 0..clock, NEW signed \in BOOLEAN,
             Foreign(ip, observed, signed)
      PROVE  RiskInv'
  <2>1. /\ net' = net \cup {[id |-> nextId, ip |-> ip, at |-> observed, signed |-> signed]}
        /\ nextId' = nextId + 1
        /\ UNCHANGED <<nodeVars, clock, signals, at, out, risks>>
    BY <1>3 DEF Foreign, callVars
  <2>2. observed \in Nat
    BY <1>1 DEF Typed
  <2>3. nextId' \in Nat
    BY <1>1, <2>1 DEF ScorerTyped
  <2>4. OthersTyped'
    BY <1>1, <2>1, <2>2, <2>3 DEF Typed, ScorerTyped, OthersTyped
  <2> QED
    BY <2>1, <2>4, NodeUnchanged
<1> QED
  BY <1>2, <1>3

\* The subscriber looks an event up, and marks it.
LEMMA ReceiveStep == ASSUME RiskInv, NEW e \in net, Receive(e) PROVE RiskInv'
<1>1. ScorerTyped /\ Typed /\ e.id \in Nat /\ e.ip \in Ips /\ e.at \in Nat
  BY DEF RiskInv, Typed
<1>2. /\ work["subscriber"].pc = "idle" /\ "subscriber" \in Appliers /\ "check" \in Labels
      /\ work' = [work EXCEPT !["subscriber"] = Job("check", e)]
      /\ UNCHANGED <<until, set, sched, promised, drifted, recordVars, clock, signals, at,
                     out, risks, nextId, net>>
  BY DEF Receive, Appliers, Labels, scorerVars, callVars, busVars
<1>3. OthersTyped'
  BY <1>1, <1>2 DEF Typed, ScorerTyped, OthersTyped
<1>4. /\ work' \in [Appliers -> Jobs] /\ work'["subscriber"].pc = "check"
      /\ \A v \in Appliers \ {"subscriber"} : work'[v] = work[v]
  BY <1>1, <1>2, StartWork
<1> QED
  BY <1>2, <1>3, <1>4, StopStep

LEMMA MarkStep == RiskInv /\ Mark => RiskInv'
<1> SUFFICES ASSUME RiskInv, Mark PROVE RiskInv'
  OBVIOUS
<1> DEFINE job == work["subscriber"]
<1>1. ScorerTyped /\ Typed /\ "subscriber" \in Appliers
  BY DEF RiskInv, Appliers
<1>2. /\ job.pc = "check"
      /\ UNCHANGED <<until, set, sched, promised, drifted, clock, signals, at,
                     out, risks, nextId, net>>
  BY DEF Mark, scorerVars, callVars
<1>3. job.id \in Nat /\ job.ip \in Ips /\ job.at \in Nat
  BY <1>1 DEF Typed, Jobs
<1>4. OthersTyped'
  BY <1>1, <1>2 DEF Typed, ScorerTyped, OthersTyped
<1>5. CASE NotExpired(job)
  <2>1. work' = [work EXCEPT !["subscriber"] = Job("apply", job)] /\ NoteOverlap(job.ip)
    BY <1>5 DEF Mark
  <2> HIDE DEF job
  <2> QED
    BY <1>1, <1>2, <1>3, <1>4, <2>1, StartStep DEF job
<1>6. CASE ~NotExpired(job)
  <2>1. work' = [work EXCEPT !["subscriber"] = Idle] /\ UNCHANGED recordVars
    BY <1>6 DEF Mark
  <2> QED
    BY <1>1, <1>2, <1>4, <2>1, StopWork, StopStep
<1> QED
  BY <1>5, <1>6

LEMMA WorkerDiesStep == ASSUME RiskInv, NEW w \in Appliers, WorkerDies(w) PROVE RiskInv'
<1>1. /\ work' = [work EXCEPT ![w] = Idle]
      /\ drifted' = IF work[w].pc = "write" THEN drifted \cup {work[w].ip} ELSE drifted
      /\ UNCHANGED <<until, set, sched, promised, clock, recordVars, signals, at,
                     out, risks, net, nextId>>
  BY DEF WorkerDies, Add, scorerVars, callVars, busVars
<1>2. OthersTyped'
  BY <1>1 DEF RiskInv, Typed, ScorerTyped, OthersTyped
<1>3. Typed
  BY DEF RiskInv
<1> QED
  BY <1>1, <1>2, <1>3, StopWork, StopStep

LEMMA SchedulerDiesStep == RiskInv /\ SchedulerDies => RiskInv'
<1> SUFFICES ASSUME RiskInv, SchedulerDies PROVE RiskInv'
  OBVIOUS
<1>1. /\ sched' = SchedIdle
      /\ UNCHANGED <<until, set, work, promised, drifted, clock, shared, crossed, signals,
                     at, out, risks, net, nextId>>
  BY DEF SchedulerDies, scorerVars, callVars, busVars, recordVars
<1>2. OthersTyped'
  BY <1>1 DEF RiskInv, Typed, ScorerTyped, OthersTyped
<1>3. sched' \in Lifts /\ sched'.pc = "idle" /\ \A j \in Ips : ~Lifting(j)'
  BY <1>1, IdleIsJob DEF Lifting
<1>4. Typed'
  BY <1>1, <1>2, <1>3 DEF RiskInv, Typed, OthersTyped
<1>5. RowsInSet' /\ SetHasRows' /\ LiftedAreOver' /\ LiftedAreOut'
  BY <1>1, <1>3 DEF RiskInv, RowsInSet, SetHasRows, LiftedAreOver, LiftedAreOut
<1>6. AppliersSeeSet' /\ OverlapsNoted'
  BY <1>1, <1>3 DEF RiskInv, AppliersSeeSet, TookForBlocked, StillBlocked, OverlapsNoted, Busy
<1>7. PromisesKept' /\ PromisesGrow'
  BY <1>1 DEF RiskInv, PromisesKept, PromisesGrow, Busy
<1> QED
  BY <1>2, <1>4, <1>5, <1>6, <1>7 DEF RiskInv, OthersTyped

LEMMA RebootStep == RiskInv /\ Reboot => RiskInv'
<1> SUFFICES ASSUME RiskInv, Reboot PROVE RiskInv'
  OBVIOUS
<1>1. /\ set' = {} /\ work' = [w \in Appliers |-> Idle] /\ sched' = SchedIdle
      /\ drifted' = drifted \cup {ip \in Ips : until[ip] # 0}
      /\ ForgetCall /\ risks' = <<>>
      /\ UNCHANGED <<at, nextId, until, promised, shared, crossed, clock, net>>
  BY DEF Reboot, busVars, recordVars
<1>2. OthersTyped'
  <2>1. (CHOOSE ip \in Ips : TRUE) \in Ips /\ <<>> \in Seq(Risks)
    BY RiskAssumption, EmptySeq
  <2>2. ScorerTyped'
    BY <1>1, <2>1 DEF RiskInv, ScorerTyped, ForgetCall, NoSignals
  <2> QED
    BY <1>1, <2>2 DEF RiskInv, Typed, OthersTyped
<1>3. sched' \in Lifts /\ sched'.pc = "idle" /\ \A j \in Ips : ~Lifting(j)'
  BY <1>1, IdleIsJob DEF Lifting
<1>4. /\ work' \in [Appliers -> Jobs] /\ \A w \in Appliers : work'[w].pc = "idle"
      /\ \A j \in Ips, w \in Appliers : ~Busy(w, j)'
  BY <1>1, IdleIsJob DEF Busy
<1>5. Typed'
  BY <1>1, <1>2, <1>3, <1>4 DEF RiskInv, Typed, OthersTyped
<1>6. RowsInSet'
  <2>1. \A ip \in Ips \ drifted' : ~(until[ip] > clock)
    BY <1>1, RiskAssumption DEF RiskInv, Typed
  <2> QED
    BY <1>1, <2>1 DEF RowsInSet
<1>7. SetHasRows' /\ LiftedAreOver' /\ LiftedAreOut'
  BY <1>1, <1>3 DEF SetHasRows, LiftedAreOver, LiftedAreOut
<1>8. AppliersSeeSet' /\ OverlapsNoted'
  BY <1>3, <1>4 DEF AppliersSeeSet, TookForBlocked, OverlapsNoted
<1>9. PromisesKept' /\ PromisesGrow'
  BY <1>1, <1>4 DEF RiskInv, PromisesKept, PromisesGrow
<1> QED
  BY <1>2, <1>5, <1>6, <1>7, <1>8, <1>9 DEF RiskInv, OthersTyped

LEMMA StutterStep == RiskInv /\ UNCHANGED vars => RiskInv'
<1> SUFFICES ASSUME RiskInv, UNCHANGED vars PROVE RiskInv'
  OBVIOUS
<1>1. UNCHANGED <<nodeVars, clock, signals, at, out, risks, net, nextId>>
  BY DEF vars, scorerVars, callVars, busVars
<1>2. OthersTyped'
  BY <1>1 DEF RiskInv, Typed, ScorerTyped, OthersTyped
<1> QED
  BY <1>1, <1>2, NodeUnchanged

LEMMA StepInv == RiskInv /\ [Next]_vars => RiskInv'
<1> SUFFICES ASSUME RiskInv, [Next]_vars PROVE RiskInv'
  OBVIOUS
<1>1. CASE Tick \/ Scorer \/ TakeRisk
  BY <1>1, TickStep, ScorerStep, TakeRiskStep
<1>2. CASE Scheduler
  BY <1>2, ListExpiredStep, LiftStep, DeleteRowStep DEF Scheduler
<1>3. ASSUME NEW w \in Appliers, WorkerGoesOn(w) \/ WorkerDies(w) PROVE RiskInv'
  BY <1>3, DecideStep, AddToSetStep, WriteRowStep, MarkStep, WorkerDiesStep
     DEF WorkerGoesOn, ApplyStep
<1>4. CASE PublishOwn \/ \E ip \in Ips, observed \in 0..clock, signed \in BOOLEAN :
              Foreign(ip, observed, signed)
  BY <1>4, BusStep
<1>5. ASSUME NEW e \in net, Receive(e) PROVE RiskInv'
  BY <1>5, ReceiveStep
<1>6. CASE SchedulerDies \/ Reboot
  BY <1>6, SchedulerDiesStep, RebootStep
<1>7. CASE UNCHANGED vars
  BY <1>7, StutterStep
<1> QED
  BY <1>1, <1>2, <1>3, <1>4, <1>5, <1>6, <1>7 DEF Next

-----------------------------------------------------------------------------
(* The theorems.                                                           *)

LEMMA AlwaysInv == Spec => []RiskInv
BY InitInv, StepInv, PTL DEF Spec

\* Set and table agree on every address nobody works on, unless something went
\* wrong that is on record (security-v4: enforcer.py:101-186, state.py:93-139).
THEOREM SetMatchesRowsHolds == Spec => []SetMatchesRows
<1>1. RiskInv => SetMatchesRows
  <2> SUFFICES ASSUME RiskInv, NEW ip \in Ips, ~AtWork(ip), ip \notin drifted
               PROVE  /\ until[ip] > clock => ip \in set
                      /\ ip \in set => until[ip] # 0
    BY DEF SetMatchesRows
  <2>1. \A w \in Appliers : ~(work[w].pc = "write" /\ work[w].ip = ip)
    BY DEF AtWork, Busy
  <2> QED
    BY <2>1 DEF RiskInv, RowsInSet, SetHasRows
<1> QED
  BY <1>1, AlwaysInv, PTL

\* A block lasts until the latest end that an applied event asked for, unless two
\* processes applied events to the address at a time (security-v4:
\* enforcer.py:101-117).
THEOREM BlockLastsHolds == Spec => []BlockLasts
<1>1. RiskInv => BlockLasts
  <2> SUFFICES ASSUME RiskInv, NEW ip \in Ips, clock < promised[ip],
                      ip \notin drifted \cup shared
               PROVE  ip \in set
    BY DEF BlockLasts
  <2>1. clock \in Nat /\ promised[ip] \in Nat /\ until[ip] \in Nat
    BY RiskAssumption DEF RiskInv, Typed
  <2>2. until[ip] > clock
    BY <2>1 DEF RiskInv, PromisesKept
  <2> QED
    BY <2>2 DEF RiskInv, RowsInSet
<1> QED
  BY <1>1, AlwaysInv, PTL

-----------------------------------------------------------------------------
(* The deques of the scorer.                                               *)

LEMMA LeastOf ==
  ASSUME NEW T, T \subseteq Nat, T # {}
  PROVE  \E x \in T : \A y \in T : x <= y
<1>1. PICK m \in T : m \in Nat
  OBVIOUS
<1> DEFINE F == {1..k : k \in {n \in T : n <= m}}
           R == StrictSubsetOrdering(1..m)
<1>2. IsWellFoundedOn(R, SUBSET (1..m))
  <2>1. IsFiniteSet(1..m)
    BY <1>1, FS_Interval
  <2>2. FiniteSubsetsOf(1..m) = SUBSET (1..m)
    BY <2>1, FS_FiniteSubsetsOfFinite
  <2> QED
    BY <2>2, FS_StrictSubsetOrderingWellFounded
<1>3. F \subseteq SUBSET (1..m) /\ F # {}
  BY <1>1
<1>4. PICK s \in F : \A t \in F : ~(<<t, s>> \in R)
  <2> HIDE DEF F, R
  <2> QED
    BY <1>2, <1>3, WFMin
<1>5. PICK x \in T : x <= m /\ s = 1..x
  BY <1>4
<1>6. ASSUME NEW y \in T, y < x PROVE FALSE
  <2>1. y \in Nat /\ x \in Nat /\ y <= m
    BY <1>1, <1>5, <1>6
  <2>2. 1..y \in F
    BY <2>1
  <2>3. 1..y \subseteq 1..x /\ x \in 1..x /\ x \notin 1..y
    BY <1>6, <2>1
  <2>4. <<1..y, 1..x>> \in R
    BY <1>3, <1>4, <1>5, <2>2, <2>3 DEF StrictSubsetOrdering
  <2> QED
    BY <1>4, <1>5, <2>2, <2>4
<1>7. \A y \in T : x <= y
  BY <1>5, <1>6
<1> QED
  BY <1>7

Signals == [ip: Ips, rule: Rules, at: Nat]

\* By time, as score_events sorts its signals.
Sorted(h) == \A i, j \in DOMAIN h : i < j => h[i].at <= h[j].at

\* A deque holds the times of signals of the history with its address and rule,
\* in their order, and of all that are not too old.
Holds(dq, h, ip, rule, f) ==
    /\ f \in [DOMAIN dq -> DOMAIN h]
    /\ \A k, l \in DOMAIN dq : k < l => f[k] < f[l]
    /\ \A k \in DOMAIN dq : h[f[k]] = [ip |-> ip, rule |-> rule, at |-> dq[k]]
HoldsAll(dq, h, ip, rule, now, f) ==
    \A j \in DOMAIN h :
        h[j].ip = ip /\ h[j].rule = rule /\ InWindow(h[j].at, rule, now)
          => \E k \in DOMAIN dq : f[k] = j
Counts(dq, h, ip, rule, now) ==
    \E f \in [DOMAIN dq -> DOMAIN h] :
        Holds(dq, h, ip, rule, f) /\ HoldsAll(dq, h, ip, rule, now, f)

\* popleft takes the times that are too old and no other.
LEMMA PrunedTimes ==
  ASSUME NEW dq \in Seq(Nat), NEW rule \in Rules, NEW now \in Nat,
         \A k, l \in DOMAIN dq : k < l => dq[k] <= dq[l]
  PROVE  \E d \in 0..Len(dq) :
           /\ Pruned(dq, rule, now) \in Seq(Nat)
           /\ Len(Pruned(dq, rule, now)) = Len(dq) - d
           /\ \A k \in 1..(Len(dq) - d) : Pruned(dq, rule, now)[k] = dq[k + d]
           /\ \A k \in 1..Len(dq) : InWindow(dq[k], rule, now) <=> k > d
<1> DEFINE fresh == {k \in DOMAIN dq : InWindow(dq[k], rule, now)}
           n == Len(dq)
<1>1. n \in Nat /\ DOMAIN dq = 1..n /\ \A k \in 1..n : dq[k] \in Nat
  BY LenProperties, ElementOfSeq
<1>2. Window[rule] \in Nat
  BY ScorerAssumption
<1>3. CASE fresh = {}
  <2>1. Pruned(dq, rule, now) = <<>>
    BY <1>3 DEF Pruned
  <2>2. <<>> \in Seq(Nat) /\ Len(<<>>) = 0
    BY EmptySeq
  <2>3. \A k \in 1..n : ~InWindow(dq[k], rule, now)
    BY <1>1, <1>3
  <2>4. n \in 0..n /\ n - n = 0 /\ \A k \in 1..n : ~(k > n)
    BY <1>1
  <2> HIDE DEF n
  <2>5. /\ Len(Pruned(dq, rule, now)) = n - n
        /\ \A k \in 1..(n - n) : Pruned(dq, rule, now)[k] = dq[k + n]
    BY <2>1, <2>2, <2>4
  <2> QED
    BY <2>1, <2>2, <2>3, <2>4, <2>5 DEF n
<1>4. CASE fresh # {}
  <2> DEFINE m == Min(fresh)
  <2>1. fresh \subseteq Nat
    BY <1>1
  <2>2. m \in fresh /\ \A k \in fresh : m <= k
    <3>1. \E x \in fresh : \A y \in fresh : x <= y
      <4> HIDE DEF fresh
      <4> QED
        BY <1>4, <2>1, LeastOf
    <3> HIDE DEF fresh
    <3> QED
      BY <3>1 DEF Min
  <2>3. Pruned(dq, rule, now) = SubSeq(dq, m, n)
    BY <1>4 DEF Pruned
  <2>4. m \in 1..n /\ InWindow(dq[m], rule, now)
    BY <1>1, <2>2
  <2> HIDE DEF m
  <2>5. \A k \in 1..n : InWindow(dq[k], rule, now) => m <= k
    BY <1>1, <2>2
  <2>6. \A k \in 1..n : m <= k => InWindow(dq[k], rule, now)
    <3> SUFFICES ASSUME NEW k \in 1..n, m <= k PROVE InWindow(dq[k], rule, now)
      OBVIOUS
    <3>1. dq[m] <= dq[k] /\ dq[m] \in Nat /\ dq[k] \in Nat
      BY <1>1, <2>4
    <3> QED
      BY <1>2, <2>4, <3>1 DEF InWindow
  <2> HIDE DEF n, fresh
  <2>7. \A i \in m..n : dq[i] \in Nat
    BY <1>1, <2>4
  <2>8. /\ SubSeq(dq, m, n) \in Seq(Nat)
        /\ Len(SubSeq(dq, m, n)) = n - m + 1
        /\ \A i \in 1..(n - m + 1) : SubSeq(dq, m, n)[i] = dq[m + i - 1]
    <3>1. m \in Int /\ n \in Int /\ m <= n
      BY <1>1, <2>4
    <3> QED
      BY <2>7, <3>1, SubSeqProperties
  <2> DEFINE d == m - 1
  <2>9. d \in 0..n /\ n - d = n - m + 1 /\ \A k \in 1..n : k > d <=> m <= k
    BY <1>1, <2>4
  <2>10. \A k \in 1..(n - m + 1) : m + k - 1 = k + d
    BY <1>1, <2>4
  <2>11. /\ Len(Pruned(dq, rule, now)) = n - d
         /\ \A k \in 1..(n - d) : Pruned(dq, rule, now)[k] = dq[k + d]
         /\ \A k \in 1..n : InWindow(dq[k], rule, now) <=> k > d
    <3> HIDE DEF d
    <3> QED
      BY <2>3, <2>5, <2>6, <2>8, <2>9, <2>10
  <2> QED
    BY <2>3, <2>8, <2>9, <2>11 DEF n
<1> QED
  BY <1>3, <1>4
\* Deques of sorted histories are sorted.
LEMMA HeldInOrder ==
  ASSUME NEW dq \in Seq(Nat), NEW h \in Seq(Signals), Sorted(h), NEW ip, NEW rule,
         NEW f, Holds(dq, h, ip, rule, f)
  PROVE  \A k, l \in DOMAIN dq : k < l => dq[k] <= dq[l]
<1> SUFFICES ASSUME NEW k \in DOMAIN dq, NEW l \in DOMAIN dq, k < l
             PROVE  dq[k] <= dq[l]
  OBVIOUS
<1>1. f[k] \in DOMAIN h /\ f[l] \in DOMAIN h /\ f[k] < f[l]
  BY DEF Holds
<1>2. /\ h[f[k]] = [ip |-> ip, rule |-> rule, at |-> dq[k]]
      /\ h[f[l]] = [ip |-> ip, rule |-> rule, at |-> dq[l]]
  BY DEF Holds
<1>3. h[f[k]].at = dq[k] /\ h[f[l]].at = dq[l]
  BY <1>2
<1> QED
  BY <1>1, <1>3 DEF Sorted

\* A signal of another address or rule, or none, and a later time.
LEMMA CountsStays ==
  ASSUME NEW dq \in Seq(Nat), NEW h \in Seq(Signals), NEW ip \in Ips, NEW rule \in Rules,
         NEW now \in Nat, NEW later \in Nat, now <= later, Counts(dq, h, ip, rule, now),
         NEW s \in Signals, NEW g \in {h, Append(h, s)},
         g # h => s.ip # ip \/ s.rule # rule
  PROVE  Counts(dq, g, ip, rule, later)
<1>1. PICK f \in [DOMAIN dq -> DOMAIN h] :
        Holds(dq, h, ip, rule, f) /\ HoldsAll(dq, h, ip, rule, now, f)
  BY DEF Counts
<1>2. /\ DOMAIN h = 1..Len(h) /\ Len(h) \in Nat /\ \A j \in DOMAIN h : h[j] \in Signals
  BY LenProperties, ElementOfSeq
<1>3. DOMAIN h \subseteq DOMAIN g /\ \A j \in DOMAIN h : g[j] = h[j]
  <2>1. CASE g = h
    BY <2>1
  <2>2. CASE g = Append(h, s)
    <3>1. /\ g \in Seq(Signals) /\ Len(g) = Len(h) + 1
          /\ \A j \in 1..Len(h) : g[j] = h[j]
      BY <2>2, AppendProperties
    <3>2. DOMAIN g = 1..(Len(h) + 1)
      BY <3>1, LenProperties
    <3> QED
      BY <1>2, <3>1, <3>2
  <2> QED
    BY <2>1, <2>2
<1>4. \A j \in DOMAIN g : g[j].ip = ip /\ g[j].rule = rule => j \in DOMAIN h
  <2>1. CASE g = h
    BY <2>1
  <2>2. CASE g # h
    <3>0. g = Append(h, s)
      BY <2>2
    <3>1. /\ g \in Seq(Signals) /\ Len(g) = Len(h) + 1 /\ g[Len(h) + 1] = s
      BY <3>0, AppendProperties
    <3>2. DOMAIN g = 1..(Len(h) + 1)
      BY <3>1, LenProperties
    <3> QED
      BY <1>2, <2>2, <3>1, <3>2
  <2> QED
    BY <2>1, <2>2
<1>5. f \in [DOMAIN dq -> DOMAIN g]
  BY <1>3
<1>6. Holds(dq, g, ip, rule, f)
  BY <1>1, <1>3, <1>5 DEF Holds
<1>7. HoldsAll(dq, g, ip, rule, later, f)
  <2> SUFFICES ASSUME NEW j \in DOMAIN g, g[j].ip = ip, g[j].rule = rule,
                      InWindow(g[j].at, rule, later)
               PROVE  \E k \in DOMAIN dq : f[k] = j
    BY DEF HoldsAll
  <2>1. j \in DOMAIN h /\ h[j] = g[j] /\ h[j].at \in Nat
    BY <1>2, <1>3, <1>4 DEF Signals
  <2>2. InWindow(h[j].at, rule, now)
    BY <2>1, ScorerAssumption DEF InWindow
  <2> QED
    BY <1>1, <2>1, <2>2 DEF HoldsAll
<1> QED
  BY <1>5, <1>6, <1>7 DEF Counts

\* The new signal goes to its own deque.
LEMMA CountsNew ==
  ASSUME NEW dq \in Seq(Nat), NEW h \in Seq(Signals), NEW ip \in Ips, NEW rule \in Rules,
         NEW now \in Nat, Counts(dq, h, ip, rule, now)
  PROVE  Counts(Append(dq, now), Append(h, [ip |-> ip, rule |-> rule, at |-> now]),
                ip, rule, now)
<1> DEFINE s == [ip |-> ip, rule |-> rule, at |-> now]
           g == Append(h, s)
           dr == Append(dq, now)
           n == Len(h) + 1
           m == Len(dq) + 1
<1>1. PICK f \in [DOMAIN dq -> DOMAIN h] :
        Holds(dq, h, ip, rule, f) /\ HoldsAll(dq, h, ip, rule, now, f)
  BY DEF Counts
<1>2. /\ DOMAIN h = 1..Len(h) /\ Len(h) \in Nat
      /\ DOMAIN dq = 1..Len(dq) /\ Len(dq) \in Nat
  BY LenProperties
<1>3. s \in Signals
  BY DEF Signals
<1>4. /\ g \in Seq(Signals) /\ Len(g) = n /\ g[n] = s /\ \A j \in DOMAIN h : g[j] = h[j]
      /\ DOMAIN g = 1..n
  <2> HIDE DEF s
  <2>1. /\ g \in Seq(Signals) /\ Len(g) = n /\ g[n] = s
        /\ \A j \in 1..Len(h) : g[j] = h[j]
    BY <1>3, AppendProperties
  <2> HIDE DEF g
  <2> QED
    BY <1>2, <2>1, LenProperties
<1>5. /\ dr \in Seq(Nat) /\ Len(dr) = m /\ dr[m] = now /\ \A k \in DOMAIN dq : dr[k] = dq[k]
      /\ DOMAIN dr = 1..m
  <2>1. /\ dr \in Seq(Nat) /\ Len(dr) = m /\ dr[m] = now
        /\ \A k \in 1..Len(dq) : dr[k] = dq[k]
    BY AppendProperties
  <2> HIDE DEF dr
  <2> QED
    BY <1>2, <2>1, LenProperties
<1> HIDE DEF g, dr
<1> DEFINE e == [k \in DOMAIN dr |-> IF k = m THEN n ELSE f[k]]
<1>6. /\ \A k \in DOMAIN dq : k \in DOMAIN dr /\ k # m /\ k < m /\ e[k] = f[k]
                               /\ f[k] \in DOMAIN h /\ f[k] < n
      /\ m \in DOMAIN dr /\ e[m] = n
      /\ \A k \in DOMAIN dr : k # m => k \in DOMAIN dq
      /\ DOMAIN h \subseteq DOMAIN g /\ n \in DOMAIN g
      /\ \A j \in DOMAIN g : j # n => j \in DOMAIN h
  <2>1. \A k \in DOMAIN dq : k \in DOMAIN dr /\ k # m /\ k < m
    BY <1>2, <1>5
  <2>2. \A k \in DOMAIN dq : f[k] \in DOMAIN h /\ f[k] < n
    BY <1>1, <1>2
  <2>3. m \in DOMAIN dr /\ \A k \in DOMAIN dr : k # m => k \in DOMAIN dq
    BY <1>2, <1>5
  <2>4. /\ DOMAIN h \subseteq DOMAIN g /\ n \in DOMAIN g
        /\ \A j \in DOMAIN g : j # n => j \in DOMAIN h
    BY <1>2, <1>4
  <2>5. e[m] = n /\ \A k \in DOMAIN dq : e[k] = f[k]
    BY <2>1, <2>3
  <2> QED
    BY <2>1, <2>2, <2>3, <2>4, <2>5
<1>7. e \in [DOMAIN dr -> DOMAIN g]
  BY <1>6
<1> HIDE DEF e, n, m
<1>8. Holds(dr, g, ip, rule, e)
  <2>1. \A k, l \in DOMAIN dr : k < l => e[k] < e[l]
    <3> SUFFICES ASSUME NEW k \in DOMAIN dr, NEW l \in DOMAIN dr, k < l
                 PROVE  e[k] < e[l]
      OBVIOUS
    <3>1. k # m
      BY <1>2, <1>5 DEF m
    <3>2. CASE l = m
      BY <1>6, <3>1, <3>2
    <3>3. CASE l # m
      BY <1>1, <1>6, <3>1, <3>3 DEF Holds
    <3> QED
      BY <3>2, <3>3
  <2>2. \A k \in DOMAIN dr : g[e[k]] = [ip |-> ip, rule |-> rule, at |-> dr[k]]
    <3> SUFFICES ASSUME NEW k \in DOMAIN dr
                 PROVE  g[e[k]] = [ip |-> ip, rule |-> rule, at |-> dr[k]]
      OBVIOUS
    <3>1. CASE k = m
      BY <1>4, <1>5, <1>6, <3>1
    <3>2. CASE k # m
      BY <1>1, <1>4, <1>5, <1>6, <3>2 DEF Holds
    <3> QED
      BY <3>1, <3>2
  <2> QED
    BY <1>7, <2>1, <2>2 DEF Holds
<1>9. HoldsAll(dr, g, ip, rule, now, e)
  <2> SUFFICES ASSUME NEW j \in DOMAIN g, g[j].ip = ip, g[j].rule = rule,
                      InWindow(g[j].at, rule, now)
               PROVE  \E k \in DOMAIN dr : e[k] = j
    BY DEF HoldsAll
  <2>1. CASE j = n
    BY <1>6, <2>1
  <2>2. CASE j # n
    <3>1. j \in DOMAIN h /\ h[j] = g[j]
      BY <1>4, <1>6, <2>2
    <3>2. PICK k \in DOMAIN dq : f[k] = j
      BY <1>1, <3>1 DEF HoldsAll
    <3> QED
      BY <1>6, <3>2
  <2> QED
    BY <2>1, <2>2
<1>10. Counts(dr, g, ip, rule, now)
  BY <1>7, <1>8, <1>9 DEF Counts
<1> QED
  BY <1>10 DEF dr, g

Counting(h, ip, rule, now) ==
    {j \in DOMAIN h : h[j].ip = ip /\ h[j].rule = rule /\ InWindow(h[j].at, rule, now)}

\* What is left of a deque counts the signals in the window.
LEMMA CountsPruned ==
  ASSUME NEW dq \in Seq(Nat), NEW h \in Seq(Signals), Sorted(h), NEW ip \in Ips,
         NEW rule \in Rules, NEW now \in Nat, Counts(dq, h, ip, rule, now)
  PROVE  /\ Pruned(dq, rule, now) \in Seq(Nat)
         /\ Counts(Pruned(dq, rule, now), h, ip, rule, now)
         /\ Len(Pruned(dq, rule, now))
              = Cardinality(Counting(h, ip, rule, now))
<1> DEFINE dr == Pruned(dq, rule, now)
           inWindow == Counting(h, ip, rule, now)
<1> USE DEF Counting
<1>1. PICK f \in [DOMAIN dq -> DOMAIN h] :
        Holds(dq, h, ip, rule, f) /\ HoldsAll(dq, h, ip, rule, now, f)
  BY DEF Counts
<1>2. \A k, l \in DOMAIN dq : k < l => dq[k] <= dq[l]
  BY <1>1, HeldInOrder
<1>3. PICK d \in 0..Len(dq) :
        /\ dr \in Seq(Nat) /\ Len(dr) = Len(dq) - d
        /\ \A k \in 1..(Len(dq) - d) : dr[k] = dq[k + d]
        /\ \A k \in 1..Len(dq) : InWindow(dq[k], rule, now) <=> k > d
  BY <1>2, PrunedTimes
<1> HIDE DEF dr
<1>4. /\ DOMAIN dq = 1..Len(dq) /\ Len(dq) \in Nat /\ d \in Nat
      /\ DOMAIN dr = 1..Len(dr) /\ Len(dr) \in Nat
      /\ DOMAIN h = 1..Len(h) /\ Len(h) \in Nat
  BY <1>3, LenProperties
<1> DEFINE e == [k \in DOMAIN dr |-> f[k + d]]
<1>5. /\ \A k \in DOMAIN dr : /\ k + d \in DOMAIN dq /\ k + d > d /\ e[k] = f[k + d]
                              /\ dr[k] = dq[k + d] /\ f[k + d] \in DOMAIN h
      /\ \A l \in DOMAIN dq : l > d => l - d \in DOMAIN dr /\ (l - d) + d = l
      /\ \A k, l \in DOMAIN dr : k < l => k + d < l + d
  <2>1. \A k \in DOMAIN dr : k + d \in DOMAIN dq /\ k + d > d /\ k \in 1..(Len(dq) - d)
    BY <1>3, <1>4
  <2>2. \A l \in DOMAIN dq : l > d => l - d \in DOMAIN dr /\ (l - d) + d = l
    BY <1>3, <1>4
  <2>3. \A k, l \in DOMAIN dr : k < l => k + d < l + d
    BY <1>4
  <2>4. \A k \in DOMAIN dr : f[k + d] \in DOMAIN h /\ e[k] = f[k + d]
    BY <2>1
  <2>5. \A k \in DOMAIN dr : dr[k] = dq[k + d]
    BY <1>3, <2>1
  <2> QED
    BY <2>1, <2>2, <2>3, <2>4, <2>5
<1>6. e \in [DOMAIN dr -> DOMAIN h]
  BY <1>5
<1> HIDE DEF e
<1>7. Holds(dr, h, ip, rule, e)
  BY <1>1, <1>5, <1>6 DEF Holds
<1>8. HoldsAll(dr, h, ip, rule, now, e)
  <2> SUFFICES ASSUME NEW j \in DOMAIN h, h[j].ip = ip, h[j].rule = rule,
                      InWindow(h[j].at, rule, now)
               PROVE  \E k \in DOMAIN dr : e[k] = j
    BY DEF HoldsAll
  <2>1. PICK l \in DOMAIN dq : f[l] = j
    BY <1>1 DEF HoldsAll
  <2>2. h[j] = [ip |-> ip, rule |-> rule, at |-> dq[l]]
    BY <1>1, <2>1 DEF Holds
  <2>3. h[j].at = dq[l]
    BY <2>2
  <2>4. l > d
    BY <1>3, <1>4, <2>1, <2>3
  <2> QED
    BY <1>5, <2>1, <2>4
<1>9. e \in [DOMAIN dr -> inWindow]
  <2> SUFFICES ASSUME NEW k \in DOMAIN dr PROVE e[k] \in inWindow
    BY <1>6
  <2>1. h[e[k]] = [ip |-> ip, rule |-> rule, at |-> dr[k]]
    BY <1>7 DEF Holds
  <2>2. InWindow(dr[k], rule, now)
    BY <1>3, <1>4, <1>5
  <2> QED
    BY <1>6, <2>1, <2>2
<1>10. Len(dr) = Cardinality(inWindow)
  <2>1. \A k, l \in DOMAIN dr : e[k] = e[l] => k = l
    <3> SUFFICES ASSUME NEW k \in DOMAIN dr, NEW l \in DOMAIN dr, e[k] = e[l], k # l
                 PROVE  FALSE
      OBVIOUS
    <3>1. k < l \/ l < k
      BY <1>4
    <3>2. e[k] \in Nat /\ e[l] \in Nat
      BY <1>4, <1>6
    <3> QED
      BY <1>7, <3>1, <3>2 DEF Holds
  <2>2. \A j \in inWindow : \E k \in DOMAIN dr : e[k] = j
    BY <1>8 DEF HoldsAll
  <2> HIDE DEF inWindow
  <2>3. e \in Bijection(DOMAIN dr, inWindow)
    BY <1>9, <2>1, <2>2, Fun_IsBij
  <2>4. ExistsBijection(1..Len(dr), inWindow)
    BY <1>4, <2>3 DEF ExistsBijection
  <2> QED
    BY <1>4, <2>4, FS_CountingElements
<1>11. Counts(dr, h, ip, rule, now)
  BY <1>6, <1>7, <1>8 DEF Counts
<1> QED
  BY <1>3, <1>10, <1>11 DEF dr
-----------------------------------------------------------------------------
(* One call of score_events.                                               *)

CallTyped ==
    /\ buckets \in [Ips -> [Rules -> Seq(Nat)]]
    /\ lastEmit \in [Ips -> [emitted: BOOLEAN, at: Nat]]
    /\ signals.rules \in Seq(Rules)
    /\ history \in Seq(Signals) /\ \A j \in DOMAIN history : history[j].at <= at
    /\ reported \subseteq DOMAIN history

DequesCount ==
    \A ip \in Ips \ Ignored, r \in Rules : Counts(buckets[ip][r], history, ip, r, at)

\* last_emit has the last report of the address.
LastReport ==
    /\ \A ip \in Ips :
         lastEmit[ip].emitted => \E j \in reported : /\ history[j].ip = ip
                                                     /\ history[j].at = lastEmit[ip].at
    /\ \A j \in reported : /\ lastEmit[history[j].ip].emitted
                           /\ history[j].at <= lastEmit[history[j].ip].at

\* RiskReported of any history.
InTime(h, i, rule) ==
    {j \in 1..i : /\ h[j].ip = h[i].ip /\ h[j].rule = rule
                  /\ h[i].at - h[j].at <= Window[rule]}
RiskIn(h, i) == Score([r \in Rules |-> Cardinality(InTime(h, i, r))]) >= BlockScore
Lately(h, marks, i) ==
    \E j \in marks : j < i /\ h[j].ip = h[i].ip /\ h[i].at < h[j].at + Debounce
Reports(h, marks) ==
    \A i \in DOMAIN h :
        i \in marks <=> h[i].ip \notin Ignored /\ RiskIn(h, i) /\ ~Lately(h, marks, i)

CallInv ==
    /\ CallTyped /\ Sorted(history) /\ DequesCount /\ LastReport
    /\ Reports(history, reported)

LEMMA CallReports == CallInv => RiskReported
<1> SUFFICES ASSUME CallInv, NEW i \in DOMAIN history
             PROVE  LET recent == {j \in reported : /\ j < i
                                       /\ history[j].ip = history[i].ip
                                       /\ history[i].at < history[j].at + Debounce}
                    IN  i \in reported <=> history[i].ip \notin Ignored /\ Risky(i) /\ recent = {}
  BY DEF RiskReported
<1>1. Risky(i) <=> RiskIn(history, i)
  BY DEF Risky, Seen, RiskIn, InTime
<1>2. i \in reported <=> /\ history[i].ip \notin Ignored /\ RiskIn(history, i)
                         /\ ~Lately(history, reported, i)
  BY DEF CallInv, Reports
<1> QED
  BY <1>1, <1>2 DEF Lately

\* A call that starts.
LEMMA CallStarts ==
  ASSUME at \in Nat, NoCall PROVE CallInv
<1>1. /\ buckets = [ip \in Ips |-> [r \in Rules |-> <<>>]]
      /\ lastEmit = [ip \in Ips |-> Never] /\ signals = NoSignals
      /\ history = <<>> /\ reported = {}
  BY DEF NoCall
<1>2. /\ <<>> \in Seq(Nat) /\ <<>> \in Seq(Signals) /\ <<>> \in Seq(Rules)
      /\ DOMAIN <<>> = {}
  BY EmptySeq
<1>3. CallTyped
  BY <1>1, <1>2 DEF CallTyped, Never, NoSignals
<1>4. \A ip \in Ips, r \in Rules : buckets[ip][r] = <<>>
  BY <1>1
<1>5. DequesCount
  <2> SUFFICES ASSUME NEW ip \in Ips \ Ignored, NEW r \in Rules
               PROVE  Counts(<<>>, <<>>, ip, r, at)
    BY <1>1, <1>4 DEF DequesCount
  <2> DEFINE f == [k \in {} |-> 0]
  <2>1. f \in [DOMAIN <<>> -> DOMAIN <<>>]
    BY <1>2
  <2>2. Holds(<<>>, <<>>, ip, r, f)
    BY <1>2, <2>1 DEF Holds
  <2>3. HoldsAll(<<>>, <<>>, ip, r, at, f)
    BY <1>2 DEF HoldsAll
  <2> QED
    BY <2>1, <2>2, <2>3 DEF Counts
<1>6. Sorted(history) /\ Reports(history, reported)
  BY <1>1, <1>2 DEF Sorted, Reports
<1>7. LastReport
  BY <1>1 DEF LastReport, Never
<1> QED
  BY <1>3, <1>5, <1>6, <1>7 DEF CallInv

\* A call that waits, while time may go on.
LEMMA CallWaits ==
  ASSUME CallInv, UNCHANGED <<buckets, lastEmit, history, reported>>,
         signals'.rules \in Seq(Rules), at \in Nat, at' \in Nat, at <= at'
  PROVE  CallInv'
<1>1. CallTyped'
  <2>1. \A j \in DOMAIN history : history[j].at \in Nat /\ history[j].at <= at
    <3>1. history \in Seq(Signals) /\ \A j \in DOMAIN history : history[j].at <= at
      BY DEF CallInv, CallTyped
    <3>2. \A j \in DOMAIN history : history[j] \in Signals
      BY <3>1, LenProperties, ElementOfSeq
    <3> QED
      BY <3>1, <3>2 DEF Signals
  <2>2. \A j \in DOMAIN history : history[j].at <= at'
    BY <2>1
  <2> QED
    BY <2>2 DEF CallInv, CallTyped
<1>2. DequesCount'
  <2> SUFFICES ASSUME NEW ip \in Ips \ Ignored, NEW r \in Rules
               PROVE  Counts(buckets[ip][r], history, ip, r, at')
    BY DEF DequesCount
  <2>1. /\ buckets[ip][r] \in Seq(Nat) /\ history \in Seq(Signals)
        /\ Counts(buckets[ip][r], history, ip, r, at)
    BY DEF CallInv, CallTyped, DequesCount
  <2>2. [ip |-> ip, rule |-> r, at |-> 0] \in Signals
    BY DEF Signals
  <2> QED
    BY <2>1, <2>2, CountsStays
<1> QED
  BY <1>1, <1>2 DEF CallInv, LastReport

\* What a history says of its signals stays when it grows.
LEMMA OldSignals ==
  ASSUME NEW h \in Seq(Signals), NEW g \in Seq(Signals), Len(g) = Len(h) + 1,
         \A j \in DOMAIN h : g[j] = h[j],
         NEW marks, marks \subseteq DOMAIN g, NEW more, more \subseteq DOMAIN g,
         \A j \in DOMAIN h : j \in more <=> j \in marks,
         NEW i \in DOMAIN h
  PROVE  /\ RiskIn(g, i) <=> RiskIn(h, i)
         /\ Lately(g, more, i) <=> Lately(h, marks, i)
         /\ i \in more <=> i \in marks
<1> DEFINE n == Len(h)
<1>0. n \in Nat /\ DOMAIN h = 1..n /\ Len(g) = n + 1 /\ \A j \in 1..n : g[j] = h[j]
  BY LenProperties
<1> HIDE DEF n
<1> USE <1>0
<1>1. \A j \in 1..i : j \in 1..n /\ g[j] = h[j] /\ g[i] = h[i]
  OBVIOUS
<1>2. \A r \in Rules : InTime(g, i, r) = InTime(h, i, r)
  BY <1>1 DEF InTime
<1>3. [r \in Rules |-> Cardinality(InTime(g, i, r))] = [r \in Rules |-> Cardinality(InTime(h, i, r))]
  BY <1>2
<1>4. RiskIn(g, i) <=> RiskIn(h, i)
  BY <1>3 DEF RiskIn
<1>5. \A j \in more \cup marks : j < i => /\ j \in marks /\ j \in more
                                         /\ g[j] = h[j] /\ g[i] = h[i]
  <2>1. DOMAIN g = 1..(n + 1)
    BY LenProperties
  <2>2. \A j \in DOMAIN g : j < i => j \in DOMAIN h
    BY <2>1
  <2> QED
    BY <2>2
<1>6. Lately(g, more, i) <=> Lately(h, marks, i)
  BY <1>5 DEF Lately
<1>7. i \in more <=> i \in marks
  OBVIOUS
<1> QED
  BY <1>4, <1>6, <1>7
\* The history with one more signal; the deques of other addresses count in it
\* what they counted.
LEMMA HistoryGrows ==
  ASSUME CallInv, at \in Nat, signals.ip \in Ips, signals.rules # <<>>,
         history' = Append(history,
                           [ip |-> signals.ip, rule |-> Head(signals.rules), at |-> at])
  PROVE  /\ Head(signals.rules) \in Rules
         /\ history' \in Seq(Signals) /\ Len(history') = Len(history) + 1
         /\ \A j \in 1..Len(history) : history'[j] = history[j]
         /\ history'[Len(history) + 1]
              = [ip |-> signals.ip, rule |-> Head(signals.rules), at |-> at]
         /\ Sorted(history')
         /\ \A ip \in Ips \ Ignored, r \in Rules :
              ip # signals.ip => Counts(buckets[ip][r], history', ip, r, at)
<1> DEFINE ip == signals.ip
           rule == Head(signals.rules)
           s == [ip |-> ip, rule |-> rule, at |-> at]
           n == Len(history)
           h == history'
<1>1. /\ history \in Seq(Signals) /\ Sorted(history)
      /\ \A j \in DOMAIN history : history[j].at <= at
  BY DEF CallInv, CallTyped
<1>2. rule \in Rules
  BY HeadTailProperties DEF CallInv, CallTyped
<1>3. s \in Signals
  BY <1>2 DEF Signals
<1>4. n \in Nat /\ DOMAIN history = 1..n /\ \A j \in 1..n : history[j] \in Signals
  BY <1>1, LenProperties, ElementOfSeq
<1>5. /\ h \in Seq(Signals) /\ Len(h) = n + 1
      /\ \A j \in 1..n : h[j] = history[j]
      /\ h[n + 1] = s
  <2>1. h = Append(history, s)
    OBVIOUS
  <2> HIDE DEF s
  <2> QED
    BY <1>1, <1>3, <2>1, AppendProperties
<1>6. DOMAIN h = 1..(n + 1)
  BY <1>5, LenProperties
<1>7. Sorted(h)
  <2> SUFFICES ASSUME NEW i \in 1..(n + 1), NEW j \in 1..(n + 1), i < j
               PROVE  h[i].at <= h[j].at
    BY <1>6 DEF Sorted
  <2>1. i \in 1..n
    BY <1>4
  <2>2. CASE j \in 1..n
    BY <1>1, <1>4, <1>5, <2>1, <2>2 DEF Sorted
  <2>3. CASE j = n + 1
    BY <1>1, <1>4, <1>5, <2>1, <2>3
  <2> QED
    BY <2>2, <2>3
<1>8. ASSUME NEW other \in Ips \ Ignored, other # ip, NEW r \in Rules
      PROVE  Counts(buckets[other][r], h, other, r, at)
  <2>1. /\ buckets[other][r] \in Seq(Nat) /\ Counts(buckets[other][r], history, other, r, at)
    BY DEF CallInv, CallTyped, DequesCount
  <2>2. h \in {history, Append(history, s)} /\ s.ip # other
    BY <1>8
  <2> HIDE DEF s
  <2> QED
    BY <1>1, <1>3, <2>1, <2>2, CountsStays
<1> QED
  BY <1>2, <1>5, <1>7, <1>8

\* The deques of an address that is not ignored count, after a signal of it, what
\* is in the window, and keep what they need.
LEMMA CountedCounts ==
  ASSUME CallInv, at \in Nat, signals.ip \in Ips \ Ignored, signals.rules # <<>>,
         history' = Append(history,
                           [ip |-> signals.ip, rule |-> Head(signals.rules), at |-> at]),
         NEW r \in Rules
  PROVE  /\ Counted[r] \in Seq(Nat)
         /\ Counts(Counted[r], history', signals.ip, r, at)
         /\ Len(Counted[r]) = Cardinality(InTime(history', Len(history) + 1, r))
<1> DEFINE ip == signals.ip
           rule == Head(signals.rules)
           s == [ip |-> ip, rule |-> rule, at |-> at]
           n == Len(history)
           h == history'
<1>1. /\ history \in Seq(Signals) /\ Sorted(history)
      /\ \A j \in DOMAIN history : history[j].at <= at
  BY DEF CallInv, CallTyped
<1>2. rule \in Rules
  BY HistoryGrows
<1>3. s \in Signals
  BY <1>2 DEF Signals
<1>4. n \in Nat /\ DOMAIN history = 1..n /\ \A j \in 1..n : history[j] \in Signals
  BY <1>1, LenProperties, ElementOfSeq
<1>5. /\ h \in Seq(Signals) /\ Len(h) = n + 1
      /\ \A j \in 1..n : h[j] = history[j]
      /\ h[n + 1] = s
  BY HistoryGrows
<1>6. DOMAIN h = 1..(n + 1)
  BY <1>5, LenProperties
<1>7. Sorted(h)
  BY HistoryGrows
<1> DEFINE dq == IF r = rule THEN Append(buckets[ip][r], at) ELSE buckets[ip][r]
<1>8. buckets[ip][r] \in Seq(Nat) /\ Counts(buckets[ip][r], history, ip, r, at)
  BY DEF CallInv, CallTyped, DequesCount
<1>9. dq \in Seq(Nat) /\ Counts(dq, h, ip, r, at)
  <2>1. CASE r = rule
    BY <1>1, <1>8, <2>1, AppendProperties, CountsNew
  <2>2. CASE r # rule
    <3>1. dq = buckets[ip][r] /\ h \in {history, Append(history, s)} /\ s.rule # r
      BY <2>2
    <3> HIDE DEF dq, s
    <3> QED
      BY <1>1, <1>3, <1>8, <3>1, CountsStays
  <2> QED
    BY <2>1, <2>2
<1>10. Counted[r] = Pruned(dq, r, at)
  BY DEF Counted
<1> HIDE DEF dq, h
<1>11. /\ Counted[r] \in Seq(Nat)
      /\ Counts(Counted[r], h, ip, r, at)
      /\ Len(Counted[r]) = Cardinality(Counting(h, ip, r, at))
  <2>1. h \in Seq(Signals) /\ Sorted(h) /\ ip \in Ips /\ at \in Nat
    BY <1>5, <1>7
  <2> HIDE DEF ip
  <2> QED
    BY <1>9, <1>10, <2>1, CountsPruned
<1>12. h[n + 1].ip = ip /\ h[n + 1].at = at
  BY <1>5
<1>13. \A j \in 1..(n + 1) : h[j].at \in Nat
  BY <1>3, <1>4, <1>5 DEF Signals
<1>14. Window[r] \in Nat
  BY ScorerAssumption
<1>15. \A j \in 1..(n + 1) : InWindow(h[j].at, r, at) <=> at - h[j].at <= Window[r]
  BY <1>13, <1>14 DEF InWindow
<1>16. Counting(h, ip, r, at) = InTime(h, n + 1, r)
  BY <1>6, <1>12, <1>15 DEF InTime, Counting
<1>17. Len(Counted[r]) = Cardinality(InTime(h, n + 1, r))
  BY <1>11, <1>16
<1> QED
  BY <1>11, <1>17 DEF h

\* A signal is counted, and what it makes a risk is reported or was a moment ago.
LEMMA CountKeepsCall ==
  ASSUME CallInv, at \in Nat, signals.ip \in Ips, ScoreSignal, CountSignal
  PROVE  CallInv'
<1> DEFINE ip == signals.ip
           s == [ip |-> ip, rule |-> Head(signals.rules), at |-> at]
           n == Len(history)
           h == history'
           counts == [r \in Rules |-> Len(Counted[r])]
           reports == Score(counts) >= BlockScore /\ ~Debounced
<1>1. /\ signals.rules # <<>> /\ h = Append(history, s)
      /\ buckets' = [buckets EXCEPT ![ip] = Counted]
      /\ signals' = [signals EXCEPT !.rules = Tail(@)] /\ at' = at
      /\ ip \in Ips \ Ignored
  BY DEF ScoreSignal, CountSignal
<1>2. IF reports
      THEN /\ lastEmit' = [lastEmit EXCEPT ![ip] = [emitted |-> TRUE, at |-> at]]
           /\ reported' = reported \cup {n + 1}
      ELSE UNCHANGED <<lastEmit, reported>>
  BY DEF CountSignal
<1>3. /\ h \in Seq(Signals) /\ Len(h) = n + 1
      /\ \A j \in 1..n : h[j] = history[j]
      /\ h[n + 1] = s
      /\ Sorted(h)
      /\ \A r \in Rules :
           /\ Counted[r] \in Seq(Nat)
           /\ Counts(Counted[r], h, ip, r, at)
           /\ Len(Counted[r]) = Cardinality(InTime(h, n + 1, r))
      /\ \A other \in Ips \ Ignored, r \in Rules :
            other # ip => Counts(buckets[other][r], h, other, r, at)
  BY <1>1, HistoryGrows, CountedCounts
<1>4. /\ n \in Nat /\ DOMAIN history = 1..n /\ DOMAIN h = 1..(n + 1)
      /\ history \in Seq(Signals) /\ \A j \in 1..n : history[j] \in Signals
      /\ \A j \in 1..n : history[j].at <= at
      /\ reported \subseteq 1..n
  <2>1. history \in Seq(Signals)
    BY DEF CallInv, CallTyped
  <2>2. n \in Nat /\ DOMAIN history = 1..n /\ \A j \in 1..n : history[j] \in Signals
    BY <2>1, LenProperties, ElementOfSeq
  <2>3. DOMAIN h = 1..(n + 1)
    <3> HIDE DEF h
    <3> QED
      BY <1>3, LenProperties
  <2> QED
    BY <2>1, <2>2, <2>3 DEF CallInv, CallTyped
<1>5. s.ip = ip /\ s.at = at /\ h[n + 1].ip = ip /\ h[n + 1].at = at
  BY <1>3
<1>6. reported' = IF reports THEN reported \cup {n + 1} ELSE reported
  BY <1>2, <1>3
<1> HIDE DEF h, s, reports
<1>7. /\ lastEmit \in [Ips -> [emitted: BOOLEAN, at: Nat]]
      /\ reports => /\ lastEmit'[ip].emitted /\ lastEmit'[ip].at = at
                    /\ \A other \in Ips \ {ip} : lastEmit'[other] = lastEmit[other]
      /\ ~reports => lastEmit' = lastEmit
      /\ lastEmit' \in [Ips -> [emitted: BOOLEAN, at: Nat]]
  <2>1. lastEmit \in [Ips -> [emitted: BOOLEAN, at: Nat]]
    BY DEF CallInv, CallTyped
  <2>2. CASE reports
    <3>1. lastEmit' = [lastEmit EXCEPT ![ip] = [emitted |-> TRUE, at |-> at]]
      BY <1>2, <2>2
    <3>2. [emitted |-> TRUE, at |-> at] \in [emitted: BOOLEAN, at: Nat]
      OBVIOUS
    <3> QED
      BY <2>1, <2>2, <3>1, <3>2
  <2>3. CASE ~reports
    BY <1>2, <2>1, <2>3
  <2> QED
    BY <2>1, <2>2, <2>3
<1>8. CallTyped'
  <2>1. Counted \in [Rules -> Seq(Nat)]
    <3>1. DOMAIN Counted = Rules /\ Counted = [r \in Rules |-> Counted[r]]
      BY DEF Counted
    <3> QED
      BY <1>3, <3>1
  <2>2. buckets' \in [Ips -> [Rules -> Seq(Nat)]]
    BY <1>1, <2>1 DEF CallInv, CallTyped
  <2>3. signals'.rules \in Seq(Rules)
    BY <1>1, HeadTailProperties DEF CallInv, CallTyped
  <2>4. \A j \in DOMAIN h : h[j].at <= at
    <3>1. \A j \in DOMAIN h : j \in 1..n \/ j = n + 1
      BY <1>4
    <3> QED
      BY <1>3, <1>4, <1>5, <3>1
  <2>5. reported' \subseteq DOMAIN h
    <3>1. reported' \subseteq reported \cup {n + 1}
      BY <1>6
    <3>2. 1..n \subseteq DOMAIN h /\ n + 1 \in DOMAIN h
      BY <1>4
    <3> QED
      BY <1>4, <3>1, <3>2
  <2> QED
    BY <1>1, <1>3, <1>7, <2>2, <2>3, <2>4, <2>5 DEF CallTyped, h
<1>9. DequesCount'
  <2> SUFFICES ASSUME NEW other \in Ips \ Ignored, NEW r \in Rules
               PROVE  Counts(buckets'[other][r], h, other, r, at)
    BY <1>1 DEF DequesCount, h
  <2>1. buckets \in [Ips -> [Rules -> Seq(Nat)]]
    BY DEF CallInv, CallTyped
  <2>2. buckets'[other] = IF other = ip THEN Counted ELSE buckets[other]
    BY <1>1, <2>1
  <2> QED
    BY <1>3, <2>2
<1>10. LastReport'
  <2>1. \A j \in reported : history[j].ip \in Ips /\ h[j] = history[j]
    BY <1>3, <1>4 DEF Signals
  <2>2. CASE reports
    <3>1. ASSUME NEW other \in Ips, lastEmit'[other].emitted
          PROVE  \E j \in reported' : h[j].ip = other /\ h[j].at = lastEmit'[other].at
      <4>1. CASE other = ip
        BY <1>5, <1>6, <1>7, <2>2, <4>1
      <4>2. CASE other # ip
        <5>1. PICK j \in reported : history[j].ip = other /\ history[j].at = lastEmit[other].at
          BY <1>7, <2>2, <3>1, <4>2 DEF CallInv, LastReport
        <5> QED
          BY <1>6, <1>7, <2>1, <2>2, <4>2, <5>1
      <4> QED
        BY <4>1, <4>2
    <3>2. ASSUME NEW j \in reported'
          PROVE  lastEmit'[h[j].ip].emitted /\ h[j].at <= lastEmit'[h[j].ip].at
      <4>1. CASE j = n + 1
        BY <1>5, <1>7, <2>2, <4>1
      <4>2. CASE j # n + 1
        <5>1. j \in reported /\ j \in 1..n
          BY <1>4, <1>6, <4>2
        <5>2. CASE h[j].ip = ip
          BY <1>3, <1>4, <1>7, <2>2, <5>1, <5>2
        <5>3. CASE h[j].ip # ip
          BY <1>7, <2>1, <2>2, <5>1, <5>3 DEF CallInv, LastReport
        <5> QED
          BY <5>2, <5>3
      <4> QED
        BY <4>1, <4>2
    <3> QED
      BY <3>1, <3>2 DEF LastReport, h
  <2>3. CASE ~reports
    <3>1. lastEmit' = lastEmit /\ reported' = reported
      BY <1>6, <1>7, <2>3
    <3> QED
      BY <2>1, <3>1 DEF CallInv, LastReport, h
  <2> QED
    BY <2>2, <2>3
<1>11. RiskIn(h, n + 1) <=> Score(counts) >= BlockScore
  <2>1. counts = [r \in Rules |-> Cardinality(InTime(h, n + 1, r))]
    BY <1>3
  <2> HIDE DEF counts
  <2> QED
    BY <2>1 DEF RiskIn
<1>12. Lately(h, reported', n + 1) <=> Debounced
  <2>0. Debounce \in Nat /\ lastEmit[ip].at \in Nat
    BY <1>7, ScorerAssumption
  <2>1. ASSUME Debounced PROVE Lately(h, reported', n + 1)
    <3>1. lastEmit[ip].emitted /\ at < lastEmit[ip].at + Debounce
      BY <2>1 DEF Debounced
    <3>2. PICK j \in reported : history[j].ip = ip /\ history[j].at = lastEmit[ip].at
      BY <3>1 DEF CallInv, LastReport
    <3>3. j \in 1..n /\ h[j] = history[j] /\ j \in reported' /\ j < n + 1
      BY <1>3, <1>4, <1>6
    <3> QED
      BY <1>5, <3>1, <3>2, <3>3 DEF Lately
  <2>2. ASSUME Lately(h, reported', n + 1) PROVE Debounced
    <3>1. PICK j \in reported' : j < n + 1 /\ h[j].ip = ip /\ at < h[j].at + Debounce
      BY <1>5, <2>2 DEF Lately
    <3>2. j \in reported /\ j \in 1..n /\ h[j] = history[j] /\ history[j].at \in Nat
      <4>1. j \in reported /\ j \in 1..n
        <5>1. j \in reported \/ j = n + 1
          BY <1>6
        <5>2. ~(n + 1 < n + 1)
          BY <1>4
        <5> QED
          BY <1>4, <3>1, <5>1, <5>2
      <4> QED
        BY <1>3, <1>4, <4>1 DEF Signals
    <3>3. lastEmit[ip].emitted /\ h[j].at <= lastEmit[ip].at
      BY <3>1, <3>2 DEF CallInv, LastReport
    <3> QED
      BY <2>0, <3>1, <3>2, <3>3 DEF Debounced
  <2> QED
    BY <2>1, <2>2
<1>13. Reports(h, reported')
  <2> SUFFICES ASSUME NEW i \in DOMAIN h
               PROVE  i \in reported' <=> /\ h[i].ip \notin Ignored /\ RiskIn(h, i)
                                          /\ ~Lately(h, reported', i)
    BY DEF Reports
  <2>1. CASE i = n + 1
    <3>1. i \in reported' <=> reports
      BY <1>4, <1>6, <2>1
    <3> QED
      BY <1>1, <1>5, <1>11, <1>12, <2>1, <3>1 DEF reports
  <2>2. CASE i # n + 1
    <3>1. i \in 1..n
      BY <1>4, <2>2
    <3>2. /\ RiskIn(h, i) <=> RiskIn(history, i)
          /\ Lately(h, reported', i) <=> Lately(history, reported, i)
          /\ i \in reported' <=> i \in reported
      <4>1. /\ h \in Seq(Signals) /\ history \in Seq(Signals)
            /\ Len(h) = Len(history) + 1 /\ \A j \in DOMAIN history : h[j] = history[j]
            /\ i \in DOMAIN history
        BY <1>3, <1>4, <3>1
      <4>2. /\ reported \subseteq DOMAIN h /\ reported' \subseteq DOMAIN h
            /\ \A j \in DOMAIN history : j \in reported' <=> j \in reported
        <5>1. reported \subseteq DOMAIN h /\ n + 1 \in DOMAIN h /\ n + 1 \notin DOMAIN history
          BY <1>4
        <5> QED
          BY <1>6, <5>1
      <4>3. RiskIn(h, i) <=> RiskIn(history, i)
        BY <4>1, <4>2, OldSignals
      <4>4. Lately(h, reported', i) <=> Lately(history, reported, i)
        BY <4>1, <4>2, OldSignals
      <4>5. i \in reported' <=> i \in reported
        BY <4>1, <4>2, OldSignals
      <4> QED
        BY <4>3, <4>4, <4>5
    <3>3. h[i] = history[i] /\ i \in DOMAIN history
      BY <1>3, <1>4, <3>1
    <3> QED
      BY <3>2, <3>3 DEF CallInv, Reports
  <2> QED
    BY <2>1, <2>2
<1> QED
  BY <1>3, <1>8, <1>9, <1>10, <1>13 DEF CallInv, h

\* The signal of an ignored address is on record, and changes nothing else.
LEMMA SkipKeepsCall ==
  ASSUME CallInv, at \in Nat, signals.ip \in Ips, ScoreSignal, SkipSignal
  PROVE  CallInv'
<1> DEFINE ip == signals.ip
           s == [ip |-> ip, rule |-> Head(signals.rules), at |-> at]
           n == Len(history)
           h == history'
<1>1. /\ signals.rules # <<>> /\ h = Append(history, s)
      /\ signals' = [signals EXCEPT !.rules = Tail(@)]
      /\ UNCHANGED <<at, buckets, lastEmit, reported>> /\ ip \in Ignored
  BY DEF ScoreSignal, SkipSignal
<1>2. /\ h \in Seq(Signals) /\ Len(h) = n + 1
      /\ \A j \in 1..n : h[j] = history[j]
      /\ h[n + 1].ip = ip /\ h[n + 1].at = at
      /\ Sorted(h)
      /\ \A other \in Ips \ Ignored, r \in Rules :
            other # ip => Counts(buckets[other][r], h, other, r, at)
  BY <1>1, HistoryGrows
<1>3. /\ n \in Nat /\ DOMAIN history = 1..n /\ DOMAIN h = 1..(n + 1)
      /\ history \in Seq(Signals) /\ reported \subseteq 1..n
  <2>1. history \in Seq(Signals) /\ reported \subseteq DOMAIN history
    BY DEF CallInv, CallTyped
  <2>2. n \in Nat /\ DOMAIN history = 1..n
    BY <2>1, LenProperties
  <2>3. DOMAIN h = 1..(n + 1)
    <3> HIDE DEF h
    <3> QED
      BY <1>2, LenProperties
  <2> QED
    BY <2>1, <2>2, <2>3
<1> HIDE DEF h, s, n, ip
<1>4. CallTyped'
  <2>1. signals'.rules \in Seq(Rules)
    BY <1>1, HeadTailProperties DEF CallInv, CallTyped
  <2>2. \A j \in DOMAIN h : h[j].at <= at
    <3>1. \A j \in DOMAIN h : j \in 1..n \/ j = n + 1
      BY <1>3
    <3>2. \A j \in 1..n : history[j].at <= at
      BY <1>3 DEF CallInv, CallTyped
    <3> QED
      BY <1>2, <3>1, <3>2
  <2>3. reported \subseteq DOMAIN h
    BY <1>3
  <2> QED
    BY <1>1, <1>2, <2>1, <2>2, <2>3 DEF CallInv, CallTyped, h
<1>5. DequesCount'
  BY <1>1, <1>2 DEF DequesCount, h
<1>6. LastReport'
  <2>1. \A j \in reported : h[j] = history[j]
    BY <1>2, <1>3
  <2>2. LastReport /\ lastEmit' = lastEmit /\ reported' = reported
    BY <1>1 DEF CallInv
  <2>3. \A o \in Ips : lastEmit[o].emitted
          => \E j \in reported : h[j].ip = o /\ h[j].at = lastEmit[o].at
    BY <2>1, <2>2 DEF LastReport
  <2>4. \A j \in reported : lastEmit[h[j].ip].emitted /\ h[j].at <= lastEmit[h[j].ip].at
    BY <2>1, <2>2 DEF LastReport
  <2> QED
    BY <2>2, <2>3, <2>4 DEF LastReport, h
<1>7. Reports(h, reported)
  <2> SUFFICES ASSUME NEW i \in DOMAIN h
               PROVE  i \in reported <=> /\ h[i].ip \notin Ignored /\ RiskIn(h, i)
                                         /\ ~Lately(h, reported, i)
    BY DEF Reports
  <2>1. CASE i = n + 1
    BY <1>1, <1>2, <1>3, <2>1
  <2>2. CASE i # n + 1
    <3>1. i \in DOMAIN history /\ h[i] = history[i] /\ reported \subseteq DOMAIN h
      BY <1>2, <1>3, <2>2
    <3>2. Len(h) = Len(history) + 1 /\ \A j \in DOMAIN history : h[j] = history[j]
      BY <1>2, <1>3 DEF n
    <3>3. RiskIn(h, i) <=> RiskIn(history, i)
      BY <1>2, <1>3, <3>1, <3>2, OldSignals
    <3>4. Lately(h, reported, i) <=> Lately(history, reported, i)
      BY <1>2, <1>3, <3>1, <3>2, OldSignals
    <3> QED
      BY <3>1, <3>3, <3>4 DEF CallInv, Reports
  <2> QED
    BY <2>1, <2>2
<1> QED
  BY <1>1, <1>2, <1>4, <1>5, <1>6, <1>7 DEF CallInv, h

LEMMA ScoreKeepsCall ==
  ASSUME CallInv, at \in Nat, signals.ip \in Ips, ScoreSignal
  PROVE  CallInv'
BY CountKeepsCall, SkipKeepsCall DEF ScoreSignal
-----------------------------------------------------------------------------
(* The types, and what keeps numbers in their bounds.                      *)

Ends == 0..(MaxClock + BlockTtl)
Counters == {"lines", "calls", "foreign", "faults"}

\* Whoever is to block an address found it outside the allowlist.
Bounded ==
    /\ at <= clock
    /\ until \in [Ips -> Ends] /\ promised \in [Ips -> Ends]
    /\ set \subseteq Ips \ Allowed
    /\ \A w \in Appliers : work[w].pc \in {"refresh", "add", "write"}
                             => work[w].ip \notin Allowed
    /\ drifted \subseteq Ips /\ shared \subseteq Ips /\ crossed \subseteq Ips
    /\ left \in [Counters -> Nat]

EventsTyped == net \subseteq Events /\ seenIds \subseteq Nat /\ heard \subseteq Nat

\* A row, and whoever is to write one, asks for no more than is justified.  An
\* event_id that was let pass is marked, so its copies are not let pass again.
NoCopies ==
    /\ justified \in [Ips -> Ends]
    /\ \A ip \in Ips : justified[ip] <= clock + BlockTtl
    /\ CopiesDoNotProlong
    /\ \A w \in Appliers, ip \in Ips :
          Busy(w, ip) => work[w].now + BlockTtl <= justified[ip]
    /\ heard \subseteq seenIds
    /\ work["subscriber"].pc = "check" => work["subscriber"].id \notin seenIds

FullInv == RiskInv /\ CallInv /\ Bounded /\ EventsTyped /\ NoCopies

LEMMA FullTypes == FullInv => TypeOK
<1> SUFFICES ASSUME FullInv PROVE TypeOK
  OBVIOUS
<1>1. ScorerTyped /\ Typed /\ CallTyped /\ Bounded /\ EventsTyped /\ NoCopies
  BY DEF FullInv, RiskInv, CallInv
<1>2. ScorerTypeOK
  <2>1. signals \in [ip: Ips, rules: Seq(Rules)]
    BY <1>1 DEF ScorerTyped, CallTyped
  <2>2. history \in Seq([ip: Ips, rule: Rules, at: 0..at])
    <3>1. history \in Seq(Signals) /\ \A j \in DOMAIN history : history[j].at <= at
      BY <1>1 DEF CallTyped
    <3>2. /\ Len(history) \in Nat /\ DOMAIN history = 1..Len(history)
          /\ \A j \in 1..Len(history) : history[j] \in Signals
      BY <3>1, LenProperties, ElementOfSeq
    <3>3. \A j \in 1..Len(history) : history[j] \in [ip: Ips, rule: Rules, at: 0..at]
      BY <1>1, <3>1, <3>2 DEF Signals, ScorerTyped
    <3>4. history = [j \in 1..Len(history) |-> history[j]]
      BY <3>1, LenProperties
    <3> DEFINE n == Len(history)
               Past == [ip: Ips, rule: Rules, at: 0..at]
    <3>5. n \in Nat /\ history \in [1..n -> Past]
      BY <3>2, <3>3, <3>4
    <3> HIDE DEF n, Past
    <3>6. history \in Seq(Past)
      BY <3>5, SeqDef
    <3> QED
      BY <3>6 DEF Past
  <2> QED
    BY <1>1, <2>1, <2>2 DEF ScorerTypeOK, ScorerTyped, CallTyped
<1>3. /\ work \in [Appliers -> [pc: {"idle", "check", "apply", "refresh", "add", "write",
                                     "publish"},
                                id: Nat, ip: Ips, at: Nat, now: 0..MaxClock]]
      /\ sched \in [pc: {"idle", "next", "delete"}, ips: SUBSET Ips, ip: Ips]
      /\ clock \in 1..MaxClock
  BY <1>1 DEF Typed, Jobs, Labels, Lifts
<1>4. /\ until \in [Ips -> 0..(MaxClock + BlockTtl)]
      /\ promised \in [Ips -> 0..(MaxClock + BlockTtl)]
      /\ justified \in [Ips -> 0..(MaxClock + BlockTtl)]
      /\ set \subseteq Ips \ Allowed
      /\ {drifted, shared, crossed} \subseteq SUBSET Ips
      /\ left \in [{"lines", "calls", "foreign", "faults"} -> Nat]
      /\ at <= clock
  BY <1>1 DEF Bounded, NoCopies, Ends, Counters
<1> QED
  BY <1>1, <1>2, <1>3, <1>4 DEF TypeOK, EventsTyped

LEMMA InitFull == Init => FullInv
<1> SUFFICES ASSUME Init PROVE FullInv
  OBVIOUS
<1>1. RiskInv
  BY InitInv
<1>2. CallInv
  BY <1>1, CallStarts DEF Init, ScorerInit
<1>3. Bounded
  <2>1. 0 \in Ends
    BY RiskAssumption DEF Ends
  <2>2. left \in [Counters -> Nat]
    BY RiskAssumption DEF Init, Counters
  <2>3. \A w \in Appliers : work[w].pc = "idle"
    BY IdleIsJob DEF Init
  <2> QED
    BY <2>1, <2>2, <2>3 DEF Init, ScorerInit, Bounded
<1>4. EventsTyped
  BY DEF Init, EventsTyped
<1>5. NoCopies
  <2>1. \A w \in Appliers : work[w].pc = "idle"
    BY IdleIsJob DEF Init
  <2>2. 0 \in Ends
    BY RiskAssumption DEF Ends
  <2>3. \A ip \in Ips : until[ip] = 0 /\ justified[ip] = 0
    BY DEF Init
  <2>4. justified \in [Ips -> Ends] /\ heard \subseteq seenIds
    BY <2>2 DEF Init
  <2>5. \A ip \in Ips : until[ip] <= justified[ip] /\ justified[ip] <= clock + BlockTtl
    <3>1. clock = 1 /\ BlockTtl \in Nat
      BY RiskAssumption DEF Init
    <3> QED
      BY <2>3, <3>1
  <2>6. work["subscriber"].pc # "check"
    BY <2>1 DEF Appliers
  <2>7. \A w \in Appliers, ip \in Ips : ~Busy(w, ip)
    BY <2>1 DEF Busy
  <2> QED
    BY <2>4, <2>5, <2>6, <2>7 DEF NoCopies, CopiesDoNotProlong
<1> QED
  BY <1>1, <1>2, <1>3, <1>4, <1>5 DEF FullInv

LEMMA SpendTypes ==
  ASSUME left \in [Counters -> Nat], NEW what \in Counters, Spend(what)
  PROVE  left' \in [Counters -> Nat]
BY DEF Spend

LEMMA CallSame ==
  ASSUME RiskInv, CallInv, UNCHANGED <<callVars, at>>
  PROVE  CallInv'
<1>1. UNCHANGED <<buckets, lastEmit, signals, history, reported, at>>
  BY DEF callVars
<1>2. at \in Nat /\ signals.rules \in Seq(Rules)
  BY DEF RiskInv, ScorerTyped, CallInv, CallTyped
<1> QED
  BY <1>1, <1>2, CallWaits

LEMMA CallForgotten ==
  ASSUME at \in Nat, ForgetCall, at' = at PROVE CallInv'
<1>1. NoCall'
  BY DEF ForgetCall, NoCall
<1>2. (at \in Nat)'
  OBVIOUS
<1>3. (at \in Nat /\ NoCall => CallInv)'
  BY CallStarts, PTL
<1> QED
  BY <1>1, <1>2, <1>3

LEMMA EventsSame == EventsTyped /\ UNCHANGED busVars => EventsTyped'
BY DEF EventsTyped, busVars

LEMMA LineKeepsCall ==
  ASSUME RiskInv, CallInv, Bounded, NEW ip \in Ips, LogLine(ip, clock)
  PROVE  CallInv' /\ at' = clock
<1>1. at \in Nat /\ clock \in Nat /\ at <= clock
  BY RiskAssumption DEF RiskInv, ScorerTyped, Typed, Bounded
<1>2. ASSUME NEW rules \in Seq(Rules), Line(ip, rules, clock)
      PROVE  CallInv' /\ at' = clock
  <2>1. /\ at' = clock /\ signals' = [ip |-> ip, rules |-> rules]
        /\ UNCHANGED <<buckets, lastEmit, history, reported>>
    BY <1>2 DEF Line
  <2>2. signals'.rules \in Seq(Rules) /\ at' \in Nat /\ at <= at'
    BY <1>1, <2>1
  <2> QED
    BY <1>1, <2>1, <2>2, CallWaits
<1>3. <<"auth_fail_burst">> \in Seq(Rules)
  BY DEF Rules
<1>4. ASSUME NEW request PROVE SignalsOf(request) \in Seq(Rules)
  <2>1. <<>> \in Seq(Rules) /\ \A rule \in Rules : <<rule>> \in Seq(Rules)
    BY EmptySeq
  <2> DEFINE a == When(request.status = "denied", "nginx_404_burst")
             b == When(request.path \in Immediate, "immediate_block_hit")
             c == When(request.path \in HighRisk, "high_risk_path_burst")
             d == When(request.status \in {"denied", "error"}, "unique_path_probe_burst")
  <2>2. {"nginx_404_burst", "immediate_block_hit", "high_risk_path_burst",
         "unique_path_probe_burst"} \subseteq Rules
    BY DEF Rules
  <2> HIDE DEF Rules
  <2>3. a \in Seq(Rules) /\ b \in Seq(Rules)
    BY <2>1, <2>2 DEF When
  <2>4. c \in Seq(Rules) /\ d \in Seq(Rules)
    BY <2>1, <2>2 DEF When
  <2>5. SignalsOf(request) = <<>> \/ SignalsOf(request) = a \o b \o c \o d
    BY DEF SignalsOf
  <2> HIDE DEF a, b, c, d
  <2>6. a \o b \o c \o d \in Seq(Rules)
    BY <2>3, <2>4, ConcatProperties
  <2> QED
    BY <2>1, <2>5, <2>6
<1> QED
  BY <1>2, <1>3, <1>4 DEF LogLine

LEMMA ScorerFull == FullInv /\ Scorer => CallInv' /\ Bounded' /\ EventsTyped'
<1> SUFFICES ASSUME FullInv, Scorer PROVE CallInv' /\ Bounded' /\ EventsTyped'
  OBVIOUS
<1>1. RiskInv /\ CallInv /\ Bounded /\ EventsTyped
  BY DEF FullInv
<1>2. at \in Nat /\ signals.ip \in Ips /\ clock \in Nat
  BY <1>1, RiskAssumption DEF RiskInv, ScorerTyped, Typed
<1>3. /\ UNCHANGED <<until, promised, set, work, drifted, shared, crossed, clock>>
      /\ UNCHANGED busVars
  BY DEF Scorer, nodeVars, recordVars
<1>4. left \in [Counters -> Nat] /\ at <= clock
  BY <1>1 DEF Bounded
<1>5. CallInv' /\ at' <= clock /\ left' \in [Counters -> Nat]
  <2>1. CASE Spend("lines") /\ \E ip \in Ips : LogLine(ip, clock)
    BY <1>1, <1>2, <1>4, <2>1, LineKeepsCall, SpendTypes DEF Counters
  <2>2. CASE ScoreSignal /\ UNCHANGED left
    BY <1>1, <1>2, <1>4, <2>2, ScoreKeepsCall DEF ScoreSignal
  <2>3. CASE CallReturns /\ Spend("calls")
    BY <1>1, <1>2, <1>4, <2>3, CallForgotten, SpendTypes DEF CallReturns, Counters
  <2> QED
    BY <2>1, <2>2, <2>3 DEF Scorer
<1>6. Bounded'
  BY <1>1, <1>3, <1>5 DEF Bounded
<1> QED
  BY <1>1, <1>3, <1>5, <1>6, EventsSame

\* The node's steps leave the scorer alone.  The bounds of one that changes no
\* row stay when its worker is spared the allowlist.
LEMMA NodeFull ==
  ASSUME FullInv, UNCHANGED <<callVars, at, clock, busVars>>,
         until' \in [Ips -> Ends], promised' \in [Ips -> Ends],
         set' \subseteq Ips \ Allowed,
         \A w \in Appliers : work'[w].pc \in {"refresh", "add", "write"}
                               => work'[w].ip \notin Allowed,
         drifted' \subseteq Ips, shared' \subseteq Ips, crossed' \subseteq Ips,
         left' \in [Counters -> Nat]
  PROVE  CallInv' /\ Bounded' /\ EventsTyped'
<1>1. RiskInv /\ CallInv /\ Bounded /\ EventsTyped
  BY DEF FullInv
<1>2. CallInv'
  BY <1>1, CallSame
<1>3. EventsTyped'
  BY <1>1, EventsSame
<1> QED
  BY <1>1, <1>2, <1>3 DEF Bounded

LEMMA TickFull == FullInv /\ Tick => CallInv' /\ Bounded' /\ EventsTyped'
<1> SUFFICES ASSUME FullInv, Tick PROVE CallInv' /\ Bounded' /\ EventsTyped'
  OBVIOUS
<1>1. RiskInv /\ CallInv /\ Bounded /\ EventsTyped
  BY DEF FullInv
<1>2. /\ clock' = clock + 1 /\ UNCHANGED <<callVars, at, busVars, left>>
      /\ UNCHANGED <<until, promised, set, work, drifted, shared, crossed>>
  BY DEF Tick, scorerVars, nodeVars, recordVars
<1>3. at \in Nat /\ clock \in Nat
  BY <1>1, RiskAssumption DEF RiskInv, ScorerTyped, Typed
<1>4. CallInv' /\ EventsTyped'
  BY <1>1, <1>2, CallSame, EventsSame
<1>5. at' <= clock'
  BY <1>1, <1>2, <1>3 DEF Bounded
<1> QED
  BY <1>1, <1>2, <1>4, <1>5 DEF Bounded

\* Everything but what a worker's step is about.
NodeBounds ==
    /\ until \in [Ips -> Ends] /\ promised \in [Ips -> Ends]
    /\ set \subseteq Ips \ Allowed
    /\ drifted \subseteq Ips /\ shared \subseteq Ips /\ crossed \subseteq Ips
    /\ left \in [Counters -> Nat]

LEMMA ReadFull ==
  ASSUME FullInv
  PROVE  /\ Typed /\ ScorerTyped /\ NodeBounds
         /\ \A w \in Appliers : work[w].pc \in {"refresh", "add", "write"}
                                  => work[w].ip \notin Allowed
         /\ \A w \in Appliers : work[w].ip \in Ips /\ work[w].now \in 0..MaxClock
         /\ at \in Nat /\ clock \in Nat
<1>1. Typed /\ ScorerTyped /\ Bounded
  BY DEF FullInv, RiskInv
<1>2. work \in [Appliers -> Jobs]
  BY <1>1 DEF Typed
<1>3. \A w \in Appliers : work[w] \in Jobs
  BY <1>2
<1>4. \A w \in Appliers : work[w].ip \in Ips /\ work[w].now \in 0..MaxClock
  BY <1>3 DEF Jobs
<1>5. at \in Nat /\ clock \in Nat
  BY <1>1, RiskAssumption DEF Typed, ScorerTyped
<1> QED
  BY <1>1, <1>4, <1>5 DEF Bounded, NodeBounds

LEMMA NoteTypes ==
  ASSUME shared \subseteq Ips, crossed \subseteq Ips, NEW ip \in Ips, NoteOverlap(ip)
  PROVE  shared' \subseteq Ips /\ crossed' \subseteq Ips
BY DEF NoteOverlap, Add

\* A worker that did not come to block anything.
LEMMA OthersSpared ==
  ASSUME FullInv, NEW w \in Appliers,
         \A v \in Appliers \ {w} : work'[v] = work[v],
         work'[w].pc \in {"refresh", "add", "write"} => work'[w].ip \notin Allowed
  PROVE  \A v \in Appliers : work'[v].pc \in {"refresh", "add", "write"}
                               => work'[v].ip \notin Allowed
BY ReadFull

LEMMA TakeRiskFull == FullInv /\ TakeRisk => CallInv' /\ Bounded' /\ EventsTyped'
<1> SUFFICES ASSUME FullInv, TakeRisk PROVE CallInv' /\ Bounded' /\ EventsTyped'
  OBVIOUS
<1> DEFINE risk == Head(risks)
           w == "detector"
<1>1. Typed /\ ScorerTyped /\ NodeBounds
  BY ReadFull
<1>2. Head(risks) \in Risks
  <2>1. risks \in Seq(Risks) /\ risks # <<>>
    BY <1>1 DEF ScorerTyped, TakeRisk
  <2> QED
    BY <2>1, HeadTailProperties
<1>3. risk.id \in Nat /\ risk.ip \in Ips /\ risk.at \in Nat /\ w \in Appliers
  BY <1>2 DEF Risks, Appliers
<1>4. /\ work' = [work EXCEPT ![w] = Job("apply", risk)]
      /\ NoteOverlap(risk.ip)
      /\ UNCHANGED <<callVars, at, clock, busVars, until, promised, set, drifted, left>>
  BY DEF TakeRisk
<1> HIDE DEF risk, w
<1>5. work'[w].pc = "apply" /\ \A v \in Appliers \ {w} : work'[v] = work[v]
  BY <1>1, <1>3, <1>4, StartWork DEF Labels
<1>6. \A v \in Appliers : work'[v].pc \in {"refresh", "add", "write"} => work'[v].ip \notin Allowed
  BY <1>3, <1>5, OthersSpared
<1>7. shared' \subseteq Ips /\ crossed' \subseteq Ips
  BY <1>1, <1>3, <1>4, NoteTypes DEF NodeBounds
<1> QED
  BY <1>1, <1>4, <1>6, <1>7, NodeFull DEF NodeBounds

LEMMA DecideFull ==
  ASSUME FullInv, NEW w \in Appliers, Decide(w) PROVE CallInv' /\ Bounded' /\ EventsTyped'
<1>1. Typed /\ NodeBounds
  BY ReadFull
<1>2. UNCHANGED <<callVars, at, clock, busVars, until, promised, set, drifted, shared,
                  crossed, left>>
  BY DEF Decide, scorerVars, recordVars
<1>3. /\ work'[w].pc \in {"refresh", "add", "write"} => work'[w].ip \notin Allowed
      /\ \A v \in Appliers \ {w} : work'[v] = work[v]
  <2>1. CASE work[w].ip \in Allowed
    <3>1. Done(w)
      BY <2>1 DEF Decide
    <3>2. /\ work'[w].pc \in {"idle", "check", "publish"}
          /\ \A v \in Appliers \ {w} : work'[v] = work[v]
      BY <1>1, <3>1, DoneWork
    <3> QED
      BY <3>2
  <2>2. CASE work[w].ip \notin Allowed
    <3>1. PICK label \in {"refresh", "add"} : Go(w, label)
      BY <2>2 DEF Decide
    <3>2. label \in Labels
      BY <3>1 DEF Labels
    <3>3. work'[w].ip = work[w].ip /\ \A v \in Appliers \ {w} : work'[v] = work[v]
      BY <1>1, <3>1, <3>2, GoWork
    <3> QED
      BY <2>2, <3>3
  <2> QED
    BY <2>1, <2>2
<1>4. \A v \in Appliers : work'[v].pc \in {"refresh", "add", "write"} => work'[v].ip \notin Allowed
  BY <1>3, OthersSpared
<1> QED
  BY <1>1, <1>2, <1>4, NodeFull DEF NodeBounds

LEMMA AddToSetFull ==
  ASSUME FullInv, NEW w \in Appliers, AddToSet(w) PROVE CallInv' /\ Bounded' /\ EventsTyped'
<1>1. /\ Typed /\ NodeBounds
      /\ work[w].ip \in Ips /\ (work[w].pc = "add" => work[w].ip \notin Allowed)
  BY ReadFull
<1>2. /\ UNCHANGED <<callVars, at, clock, busVars, until, promised, drifted, shared, crossed>>
      /\ work[w].pc = "add"
  BY DEF AddToSet, scorerVars, recordVars
<1>3. CASE set' = set \cup {work[w].ip} /\ Go(w, "write") /\ UNCHANGED left
  <2>1. set' \subseteq Ips \ Allowed
    BY <1>1, <1>2, <1>3 DEF NodeBounds
  <2>2. "write" \in Labels
    BY DEF Labels
  <2>3. work'[w].ip = work[w].ip /\ \A v \in Appliers \ {w} : work'[v] = work[v]
    BY <1>1, <1>3, <2>2, GoWork
  <2>4. \A v \in Appliers : work'[v].pc \in {"refresh", "add", "write"} => work'[v].ip \notin Allowed
    BY <1>1, <1>2, <2>3, OthersSpared
  <2> QED
    BY <1>1, <1>2, <1>3, <2>1, <2>4, NodeFull DEF NodeBounds
<1>4. CASE Spend("faults") /\ work' = [work EXCEPT ![w] = Idle] /\ UNCHANGED set
  <2>1. left' \in [Counters -> Nat]
    BY <1>1, <1>4, SpendTypes DEF NodeBounds, Counters
  <2>2. work'[w].pc = "idle" /\ \A v \in Appliers \ {w} : work'[v] = work[v]
    BY <1>1, <1>4, StopWork
  <2>3. \A v \in Appliers : work'[v].pc \in {"refresh", "add", "write"} => work'[v].ip \notin Allowed
    BY <2>2, OthersSpared
  <2> QED
    BY <1>1, <1>2, <1>4, <2>1, <2>3, NodeFull DEF NodeBounds
<1> QED
  BY <1>3, <1>4 DEF AddToSet

LEMMA WriteRowFull ==
  ASSUME FullInv, NEW w \in Appliers, WriteRow(w) PROVE CallInv' /\ Bounded' /\ EventsTyped'
<1> DEFINE ip == work[w].ip
           end == work[w].now + BlockTtl
<1>1. Typed /\ NodeBounds /\ ip \in Ips /\ work[w].now \in 0..MaxClock
  BY ReadFull
<1>2. /\ UNCHANGED <<callVars, at, clock, busVars, set, shared, crossed, left>>
      /\ Done(w)
  BY DEF WriteRow, scorerVars, recordVars
<1>3. end \in Ends
  BY <1>1, RiskAssumption DEF Ends
<1>4. /\ until' = [until EXCEPT ![ip] = end]
      /\ promised' = [promised EXCEPT ![ip] = IF @ < end THEN end ELSE @]
      /\ drifted' = Add(drifted, ip, ip \in crossed)
  BY DEF WriteRow, NewEnd
<1> HIDE DEF ip, end
<1>5. until' \in [Ips -> Ends] /\ promised' \in [Ips -> Ends]
  BY <1>1, <1>3, <1>4 DEF NodeBounds
<1>6. drifted' \subseteq Ips
  BY <1>1, <1>4 DEF NodeBounds, Add
<1>7. /\ work'[w].pc \in {"idle", "check", "publish"}
      /\ \A v \in Appliers \ {w} : work'[v] = work[v]
  BY <1>1, <1>2, DoneWork
<1>8. \A v \in Appliers : work'[v].pc \in {"refresh", "add", "write"} => work'[v].ip \notin Allowed
  BY <1>7, OthersSpared
<1> QED
  BY <1>1, <1>2, <1>5, <1>6, <1>8, NodeFull DEF NodeBounds

LEMMA SchedulerFull == FullInv /\ Scheduler => CallInv' /\ Bounded' /\ EventsTyped'
<1> SUFFICES ASSUME FullInv, Scheduler PROVE CallInv' /\ Bounded' /\ EventsTyped'
  OBVIOUS
<1>1. /\ Typed /\ NodeBounds
      /\ \A w \in Appliers : work[w].pc \in {"refresh", "add", "write"}
                               => work[w].ip \notin Allowed
  BY ReadFull
<1>2. UNCHANGED <<callVars, at, clock, busVars, work, promised, shared>>
  BY DEF Scheduler, ListExpired, Lift, DeleteRow, scorerVars, recordVars
<1>3. sched.ip \in Ips
  BY <1>1 DEF Typed, Lifts
<1>4. CASE ListExpired
  <2>1. crossed' \subseteq Ips /\ UNCHANGED <<until, set, drifted, left>>
    BY <1>1, <1>4 DEF ListExpired, NodeBounds, Expired
  <2> QED
    BY <1>1, <1>2, <2>1, NodeFull DEF NodeBounds
<1>5. ASSUME NEW ip \in Ips, Lift(ip) PROVE CallInv' /\ Bounded' /\ EventsTyped'
  <2>1. UNCHANGED <<until, crossed>> /\ set' \subseteq set
        /\ (UNCHANGED left \/ Spend("faults"))
        /\ (UNCHANGED drifted \/ drifted' = drifted \cup {ip})
    BY <1>5 DEF Lift, recordVars
  <2>2. left' \in [Counters -> Nat]
    BY <1>1, <2>1, SpendTypes DEF NodeBounds, Counters
  <2> QED
    BY <1>1, <1>2, <2>1, <2>2, NodeFull DEF NodeBounds
<1>6. CASE DeleteRow
  <2>1. /\ UNCHANGED <<set, crossed, left>> /\ until' = [until EXCEPT ![sched.ip] = 0]
        /\ drifted' = Add(drifted, sched.ip, sched.ip \in crossed)
    BY <1>6 DEF DeleteRow, LiftedRow, recordVars
  <2>2. until' \in [Ips -> Ends]
    <3>1. 0 \in Ends
      BY RiskAssumption DEF Ends
    <3> QED
      BY <1>1, <2>1, <3>1 DEF NodeBounds
  <2>3. drifted' \subseteq Ips
    BY <1>1, <1>3, <2>1 DEF NodeBounds, Add
  <2> QED
    BY <1>1, <1>2, <2>1, <2>2, <2>3, NodeFull DEF NodeBounds
<1> QED
  BY <1>4, <1>5, <1>6 DEF Scheduler

LEMMA WorkerDiesFull ==
  ASSUME FullInv, NEW w \in Appliers, WorkerDies(w) PROVE CallInv' /\ Bounded' /\ EventsTyped'
<1>1. Typed /\ NodeBounds /\ work[w].ip \in Ips
  BY ReadFull
<1>2. /\ UNCHANGED <<callVars, at, clock, busVars, until, promised, set, shared, crossed>>
      /\ Spend("faults") /\ work' = [work EXCEPT ![w] = Idle]
      /\ drifted' = Add(drifted, work[w].ip, work[w].pc = "write")
  BY DEF WorkerDies, scorerVars, recordVars
<1>3. left' \in [Counters -> Nat] /\ drifted' \subseteq Ips
  BY <1>1, <1>2, SpendTypes DEF NodeBounds, Counters, Add
<1>4. work'[w].pc = "idle" /\ \A v \in Appliers \ {w} : work'[v] = work[v]
  BY <1>1, <1>2, StopWork
<1>5. \A v \in Appliers : work'[v].pc \in {"refresh", "add", "write"} => work'[v].ip \notin Allowed
  BY <1>4, OthersSpared
<1> QED
  BY <1>1, <1>2, <1>3, <1>5, NodeFull DEF NodeBounds

LEMMA SchedulerDiesFull == FullInv /\ SchedulerDies => CallInv' /\ Bounded' /\ EventsTyped'
<1> SUFFICES ASSUME FullInv, SchedulerDies PROVE CallInv' /\ Bounded' /\ EventsTyped'
  OBVIOUS
<1>1. /\ Typed /\ NodeBounds
      /\ \A w \in Appliers : work[w].pc \in {"refresh", "add", "write"}
                               => work[w].ip \notin Allowed
  BY ReadFull
<1>2. /\ UNCHANGED <<callVars, at, clock, busVars, until, promised, set, work, drifted,
                     shared, crossed>>
      /\ Spend("faults")
  BY DEF SchedulerDies, scorerVars, recordVars
<1>3. left' \in [Counters -> Nat]
  BY <1>1, <1>2, SpendTypes DEF NodeBounds, Counters
<1> QED
  BY <1>1, <1>2, <1>3, NodeFull DEF NodeBounds

LEMMA RebootFull == FullInv /\ Reboot => CallInv' /\ Bounded' /\ EventsTyped'
<1> SUFFICES ASSUME FullInv, Reboot PROVE CallInv' /\ Bounded' /\ EventsTyped'
  OBVIOUS
<1>1. NodeBounds /\ Bounded /\ EventsTyped /\ at \in Nat
  BY ReadFull DEF FullInv
<1>2. /\ UNCHANGED <<at, clock, busVars, until, promised, shared, crossed>>
      /\ Spend("faults") /\ work' = [w \in Appliers |-> Idle] /\ set' = {}
      /\ drifted' = drifted \cup {ip \in Ips : until[ip] # 0} /\ ForgetCall
  BY DEF Reboot, recordVars
<1>3. left' \in [Counters -> Nat]
  BY <1>1, <1>2, SpendTypes DEF NodeBounds, Counters
<1>4. \A w \in Appliers : work'[w].pc = "idle"
  BY <1>2, IdleIsJob
<1>5. CallInv' /\ EventsTyped'
  BY <1>1, <1>2, CallForgotten, EventsSame
<1>6. Bounded'
  BY <1>1, <1>2, <1>3, <1>4 DEF Bounded
<1> QED
  BY <1>5, <1>6

-----------------------------------------------------------------------------
(* The broker.                                                             *)

LEMMA NewEvent ==
  ASSUME EventsTyped, NEW id \in Nat, NEW ip \in Ips, NEW time \in Nat, NEW signed \in BOOLEAN,
         net' = net \cup {[id |-> id, ip |-> ip, at |-> time, signed |-> signed]},
         UNCHANGED <<seenIds, heard>>
  PROVE  EventsTyped'
<1>1. [id |-> id, ip |-> ip, at |-> time, signed |-> signed] \in Events
  BY DEF Events
<1> QED
  BY <1>1 DEF EventsTyped

LEMMA PublishOwnFull == FullInv /\ PublishOwn => CallInv' /\ Bounded' /\ EventsTyped'
<1> SUFFICES ASSUME FullInv, PublishOwn PROVE CallInv' /\ Bounded' /\ EventsTyped'
  OBVIOUS
<1> DEFINE w == "detector"
<1>1. Typed /\ NodeBounds /\ RiskInv /\ CallInv /\ Bounded /\ EventsTyped
  BY ReadFull DEF FullInv
<1>2. w \in Appliers
  BY DEF Appliers
<1>3. work[w].id \in Nat /\ work[w].ip \in Ips /\ work[w].at \in Nat
  <2>1. work[w] \in Jobs
    BY <1>1, <1>2 DEF Typed
  <2> QED
    BY <2>1 DEF Jobs
<1>4. /\ net' = net \cup {[id |-> work[w].id, ip |-> work[w].ip, at |-> work[w].at,
                           signed |-> TRUE]}
      /\ UNCHANGED <<seenIds, heard>>
      /\ work' = [work EXCEPT ![w] = Idle]
      /\ UNCHANGED <<callVars, at, clock, until, promised, set, drifted, shared, crossed, left>>
  BY DEF PublishOwn, scorerVars, recordVars
<1> HIDE DEF w
<1>5. EventsTyped'
  BY <1>1, <1>3, <1>4, NewEvent
<1>6. CallInv'
  BY <1>1, <1>4, CallSame
<1>7. work'[w].pc = "idle" /\ \A v \in Appliers \ {w} : work'[v] = work[v]
  BY <1>1, <1>2, <1>4, StopWork
<1>8. \A v \in Appliers : work'[v].pc \in {"refresh", "add", "write"} => work'[v].ip \notin Allowed
  BY <1>2, <1>7, OthersSpared
<1> QED
  BY <1>1, <1>4, <1>5, <1>6, <1>8 DEF Bounded

LEMMA ForeignFull ==
  ASSUME FullInv, NEW ip \in Ips, NEW observed \in 0..clock, NEW signed \in BOOLEAN,
         Foreign(ip, observed, signed)
  PROVE  CallInv' /\ Bounded' /\ EventsTyped'
<1>1. /\ NodeBounds /\ RiskInv /\ CallInv /\ Bounded /\ EventsTyped /\ clock \in Nat
      /\ nextId \in Nat
  BY ReadFull DEF FullInv, ScorerTyped
<1>2. observed \in Nat
  BY <1>1
<1>3. /\ net' = net \cup {[id |-> nextId, ip |-> ip, at |-> observed, signed |-> signed]}
      /\ UNCHANGED <<seenIds, heard>> /\ Spend("foreign")
      /\ UNCHANGED <<callVars, at, clock, until, promised, set, work, drifted, shared, crossed>>
  BY DEF Foreign, nodeVars, recordVars
<1>4. EventsTyped'
  BY <1>1, <1>2, <1>3, NewEvent
<1>5. CallInv'
  BY <1>1, <1>3, CallSame
<1>6. left' \in [Counters -> Nat]
  BY <1>1, <1>3, SpendTypes DEF NodeBounds, Counters
<1> QED
  BY <1>1, <1>3, <1>4, <1>5, <1>6 DEF Bounded

LEMMA ReceiveFull ==
  ASSUME FullInv, NEW e \in net, Receive(e) PROVE CallInv' /\ Bounded' /\ EventsTyped'
<1> DEFINE w == "subscriber"
<1>1. Typed /\ NodeBounds /\ w \in Appliers
  BY ReadFull DEF Appliers
<1>2. e.id \in Nat /\ e.ip \in Ips /\ e.at \in Nat
  BY <1>1 DEF Typed
<1>3. /\ UNCHANGED <<callVars, at, clock, busVars, until, promised, set, drifted, shared,
                     crossed, left>>
      /\ work' = [work EXCEPT ![w] = Job("check", e)] /\ "check" \in Labels
  BY DEF Receive, scorerVars, recordVars, Labels
<1> HIDE DEF w
<1>4. work'[w].pc = "check" /\ \A v \in Appliers \ {w} : work'[v] = work[v]
  BY <1>1, <1>2, <1>3, StartWork
<1>5. \A v \in Appliers : work'[v].pc \in {"refresh", "add", "write"} => work'[v].ip \notin Allowed
  BY <1>1, <1>4, OthersSpared
<1> QED
  BY <1>1, <1>3, <1>5, NodeFull DEF NodeBounds

LEMMA MarkFull == FullInv /\ Mark => CallInv' /\ Bounded' /\ EventsTyped'
<1> SUFFICES ASSUME FullInv, Mark PROVE CallInv' /\ Bounded' /\ EventsTyped'
  OBVIOUS
<1> DEFINE w == "subscriber"
<1>1. /\ Typed /\ NodeBounds /\ RiskInv /\ CallInv /\ Bounded /\ EventsTyped
      /\ w \in Appliers
  BY ReadFull DEF FullInv, Appliers
<1>2. work[w].id \in Nat /\ work[w].ip \in Ips /\ work[w].at \in Nat
  <2>1. work[w] \in Jobs
    BY <1>1 DEF Typed
  <2> QED
    BY <2>1 DEF Jobs
<1>3. /\ seenIds' = seenIds \cup {work[w].id}
      /\ heard' = heard \cup {work[w].id} \/ heard' = heard
      /\ UNCHANGED <<net, callVars, at, clock, until, promised, set, drifted, left>>
  BY DEF Mark, MarksSeen, scorerVars
<1>4. EventsTyped'
  BY <1>1, <1>2, <1>3 DEF EventsTyped
<1>5. CallInv'
  BY <1>1, <1>3, CallSame
<1>6. /\ work'[w].pc \in {"idle", "apply"} /\ \A v \in Appliers \ {w} : work'[v] = work[v]
      /\ shared' \subseteq Ips /\ crossed' \subseteq Ips
  <2>1. CASE NotExpired(work[w])
    <3>1. work' = [work EXCEPT ![w] = Job("apply", work[w])] /\ NoteOverlap(work[w].ip)
      BY <2>1 DEF Mark
    <3> HIDE DEF w
    <3>2. work'[w].pc = "apply" /\ \A v \in Appliers \ {w} : work'[v] = work[v]
      BY <1>1, <1>2, <3>1, StartWork DEF Labels
    <3>3. shared' \subseteq Ips /\ crossed' \subseteq Ips
      BY <1>1, <1>2, <3>1, NoteTypes DEF NodeBounds
    <3> QED
      BY <3>2, <3>3
  <2>2. CASE ~NotExpired(work[w])
    <3>1. work' = [work EXCEPT ![w] = Idle] /\ UNCHANGED <<shared, crossed>>
      BY <2>2 DEF Mark, recordVars
    <3> HIDE DEF w
    <3>2. work'[w].pc = "idle" /\ \A v \in Appliers \ {w} : work'[v] = work[v]
      BY <1>1, <3>1, StopWork
    <3> QED
      BY <1>1, <3>1, <3>2 DEF NodeBounds
  <2> QED
    BY <2>1, <2>2
<1> HIDE DEF w
<1>7. \A v \in Appliers : work'[v].pc \in {"refresh", "add", "write"} => work'[v].ip \notin Allowed
  BY <1>1, <1>6, OthersSpared
<1> QED
  BY <1>1, <1>3, <1>4, <1>5, <1>6, <1>7 DEF Bounded

-----------------------------------------------------------------------------
(* Copies of an event.                                                     *)

\* A step that takes no event: a row changes only to what is justified, nobody
\* starts, and the subscriber looks up nothing new.
LEMMA NoCopiesStays ==
  ASSUME NoCopies, UNCHANGED <<seenIds, heard, justified>>,
         clock \in Nat, clock' = clock \/ clock' = clock + 1,
         \A ip \in Ips : until'[ip] <= justified[ip],
         \A v \in Appliers, ip \in Ips : Busy(v, ip)' => Busy(v, ip) /\ work'[v].now = work[v].now,
         work'["subscriber"].pc = "check"
           => work["subscriber"].pc = "check" /\ work'["subscriber"].id = work["subscriber"].id
  PROVE  NoCopies'
<1>1. BlockTtl \in Nat /\ \A ip \in Ips : justified[ip] \in Nat
  BY RiskAssumption DEF NoCopies, Ends
<1>2. \A ip \in Ips : justified[ip] <= clock' + BlockTtl
  BY <1>1 DEF NoCopies
<1>3. \A v \in Appliers, ip \in Ips : Busy(v, ip)' => work'[v].now + BlockTtl <= justified[ip]
  BY DEF NoCopies
<1> QED
  BY <1>2, <1>3 DEF NoCopies, CopiesDoNotProlong

\* One worker goes on with its event, or leaves it.
LEMMA WorkerNoCopies ==
  ASSUME NoCopies, Typed, NEW w \in Appliers, UNCHANGED <<seenIds, heard, justified, clock>>,
         \A ip \in Ips : until'[ip] <= justified[ip],
         \A v \in Appliers \ {w} : work'[v] = work[v],
         \/ work'[w].pc \in {"idle", "publish"}
         \/ /\ work[w].pc \in {"apply", "refresh", "add", "write"}
            /\ work'[w].pc \in {"apply", "refresh", "add", "write"}
            /\ work'[w].ip = work[w].ip /\ work'[w].now = work[w].now
  PROVE  NoCopies'
<1>1. \A v \in Appliers, ip \in Ips : Busy(v, ip)' => Busy(v, ip) /\ work'[v].now = work[v].now
  BY DEF Busy
<1>2. work'["subscriber"].pc = "check"
        => work["subscriber"].pc = "check" /\ work'["subscriber"].id = work["subscriber"].id
  BY DEF Appliers
<1>3. clock \in Nat
  BY RiskAssumption DEF Typed
<1> QED
  BY <1>1, <1>2, <1>3, NoCopiesStays

\* An event is taken: the block it asks for is justified.
LEMMA StartNoCopies ==
  ASSUME NoCopies, Typed, NEW w \in Appliers, NEW ip \in Ips, Justify(ip),
         \A v \in Appliers \ {w} : work'[v] = work[v],
         work'[w].pc = "apply", work'[w].ip = ip, work'[w].now = clock,
         UNCHANGED <<until, clock>>,
         heard' \subseteq seenIds',
         w # "subscriber" => UNCHANGED <<seenIds, heard>>
  PROVE  NoCopies'
<1>1. /\ justified \in [Ips -> Ends] /\ justified' = [justified EXCEPT ![ip] = clock + BlockTtl]
      /\ clock \in 1..MaxClock /\ clock \in Nat /\ BlockTtl \in Nat /\ MaxClock \in Nat
  BY RiskAssumption DEF NoCopies, Justify, Typed
<1>2. \A j \in Ips : justified[j] \in Nat /\ justified[j] <= clock + BlockTtl
  BY <1>1 DEF NoCopies, Ends
<1>3. clock + BlockTtl \in Ends
  BY <1>1 DEF Ends
<1>4. /\ justified' \in [Ips -> Ends] /\ justified'[ip] = clock + BlockTtl
      /\ \A j \in Ips \ {ip} : justified'[j] = justified[j]
  BY <1>1, <1>3
<1>5. \A j \in Ips : justified'[j] \in Nat /\ justified[j] <= justified'[j]
                     /\ justified'[j] <= clock + BlockTtl
  BY <1>1, <1>2, <1>4
<1>6. \A j \in Ips : until[j] \in Nat /\ until[j] <= justified'[j]
  BY <1>2, <1>5 DEF NoCopies, CopiesDoNotProlong, Typed
<1>7. ASSUME NEW v \in Appliers, NEW j \in Ips, Busy(v, j)'
      PROVE  work'[v].now + BlockTtl <= justified'[j]
  <2>1. CASE v = w
    BY <1>1, <1>4, <1>7, <2>1 DEF Busy
  <2>2. CASE v # w
    <3>1. work'[v] = work[v] /\ Busy(v, j)
      BY <1>7, <2>2 DEF Busy
    <3>2. work[v].now \in Nat /\ work[v].now + BlockTtl <= justified[j]
      BY <3>1, <1>1 DEF NoCopies, Typed, Jobs
    <3> QED
      BY <1>1, <1>2, <1>5, <3>1, <3>2
  <2> QED
    BY <2>1, <2>2
<1>8. work'["subscriber"].pc = "check" => work'["subscriber"].id \notin seenIds'
  BY DEF NoCopies, Appliers
<1> QED
  BY <1>4, <1>5, <1>6, <1>7, <1>8 DEF NoCopies, CopiesDoNotProlong

LEMMA ReadNoCopies ==
  ASSUME FullInv
  PROVE  /\ NoCopies /\ Typed /\ clock \in Nat
         /\ \A ip \in Ips : until[ip] \in Nat /\ justified[ip] \in Nat
                            /\ until[ip] <= justified[ip]
<1>1. NoCopies /\ Typed
  BY DEF FullInv, RiskInv
<1> QED
  BY <1>1, RiskAssumption DEF NoCopies, CopiesDoNotProlong, Typed, Ends

LEMMA TakeRiskNoCopies == FullInv /\ TakeRisk => NoCopies'
<1> SUFFICES ASSUME FullInv, TakeRisk PROVE NoCopies'
  OBVIOUS
<1> DEFINE risk == Head(risks)
<1>1. NoCopies /\ Typed /\ ScorerTyped /\ "detector" \in Appliers /\ "apply" \in Labels
  BY ReadNoCopies, ReadFull DEF Appliers, Labels
<1>2. risk \in Risks
  BY <1>1, HeadTailProperties DEF ScorerTyped, TakeRisk
<1>3. risk.id \in Nat /\ risk.ip \in Ips /\ risk.at \in Nat
  BY <1>2 DEF Risks
<1>4. /\ work' = [work EXCEPT !["detector"] = Job("apply", risk)]
      /\ Justify(risk.ip)
      /\ UNCHANGED <<until, clock, seenIds, heard>>
  BY DEF TakeRisk, busVars
<1> HIDE DEF risk
<1>5. /\ work'["detector"].pc = "apply" /\ work'["detector"].ip = risk.ip
      /\ work'["detector"].now = clock
      /\ \A v \in Appliers \ {"detector"} : work'[v] = work[v]
  <2>1. Typed /\ "detector" \in Appliers /\ "apply" \in Labels
    BY <1>1
  <2>2. work' = [work EXCEPT !["detector"] = Job("apply", risk)]
    BY <1>4
  <2>3. /\ work'["detector"].pc = "apply"
        /\ \A v \in Appliers \ {"detector"} : work'[v] = work[v]
    BY <2>1, <2>2, <1>3, StartWork
  <2>4. work'["detector"].ip = risk.ip /\ work'["detector"].now = clock
    BY <2>1, <2>2, <1>3, StartWork DEF Labels
  <2> QED
    BY <2>3, <2>4
<1>6. heard' \subseteq seenIds'
  BY <1>1, <1>4 DEF NoCopies
<1> QED
  BY <1>1, <1>3, <1>4, <1>5, <1>6, StartNoCopies

\* What is let pass was not marked, so it was not let pass before.
LEMMA MarkNoCopies == FullInv /\ Mark => NoCopies'
<1> SUFFICES ASSUME FullInv, Mark PROVE NoCopies'
  OBVIOUS
<1> DEFINE w == "subscriber"
           job == work[w]
<1>1. /\ NoCopies /\ Typed /\ clock \in Nat /\ w \in Appliers /\ "apply" \in Labels
      /\ \A ip \in Ips : until[ip] <= justified[ip]
  BY ReadNoCopies DEF Appliers, Labels
<1>2. job.id \in Nat /\ job.ip \in Ips /\ job.at \in Nat
  BY <1>1 DEF Typed, Jobs
<1>3. /\ job.pc = "check" /\ seenIds' = seenIds \cup {job.id}
      /\ UNCHANGED <<until, clock>>
  BY DEF Mark, MarksSeen
<1>4. job.id \notin heard /\ heard \subseteq seenIds
  BY <1>1, <1>3 DEF NoCopies
<1>5. CASE NotExpired(job)
  <2>1. /\ work' = [work EXCEPT ![w] = Job("apply", job)]
        /\ heard' = heard \cup {job.id} /\ Justify(job.ip)
    BY <1>4, <1>5 DEF Mark
  <2> HIDE DEF job, w
  <2>2. /\ work'[w].pc = "apply" /\ work'[w].ip = job.ip /\ work'[w].now = clock
        /\ \A v \in Appliers \ {w} : work'[v] = work[v]
    <3>1. Typed /\ w \in Appliers /\ "apply" \in Labels
      BY <1>1
    <3>2. work' = [work EXCEPT ![w] = Job("apply", job)]
      BY <2>1
    <3>3. work'[w].pc = "apply" /\ \A v \in Appliers \ {w} : work'[v] = work[v]
      BY <3>1, <3>2, <1>2, StartWork
    <3>4. work'[w].ip = job.ip /\ work'[w].now = clock
      BY <3>1, <3>2, <1>2, StartWork DEF Labels
    <3> QED
      BY <3>3, <3>4
  <2>3. heard' \subseteq seenIds'
    BY <1>3, <1>4, <2>1
  <2> QED
    BY <1>1, <1>2, <1>3, <2>1, <2>2, <2>3, StartNoCopies DEF w
<1>6. CASE ~NotExpired(job)
  <2>1. work' = [work EXCEPT ![w] = Idle] /\ UNCHANGED <<heard, justified>>
    BY <1>6 DEF Mark, recordVars
  <2> HIDE DEF job
  <2>2. work'[w].pc = "idle" /\ \A v \in Appliers \ {w} : work'[v] = work[v]
    BY <1>1, <2>1, StopWork
  <2>3. \A v \in Appliers, ip \in Ips : Busy(v, ip)' => Busy(v, ip) /\ work'[v].now = work[v].now
    BY <2>2 DEF Busy
  <2>4. heard' \subseteq seenIds'
    BY <1>3, <1>4, <2>1
  <2> QED
    BY <1>1, <1>3, <2>1, <2>2, <2>3, <2>4 DEF NoCopies, CopiesDoNotProlong
<1> QED
  BY <1>5, <1>6

LEMMA ReceiveNoCopies == ASSUME FullInv, NEW e \in net, Receive(e) PROVE NoCopies'
<1> DEFINE w == "subscriber"
<1>1. /\ NoCopies /\ Typed /\ w \in Appliers /\ "check" \in Labels
      /\ \A ip \in Ips : until[ip] <= justified[ip]
  BY ReadNoCopies DEF Appliers, Labels
<1>2. e.id \in Nat /\ e.ip \in Ips /\ e.at \in Nat
  BY <1>1 DEF Typed
<1>3. /\ work' = [work EXCEPT ![w] = Job("check", e)] /\ e.id \notin seenIds
      /\ UNCHANGED <<until, clock, seenIds, heard, justified>>
  BY DEF Receive, recordVars, busVars
<1> HIDE DEF w
<1>4. /\ work'[w].pc = "check" /\ work'[w].id = e.id
      /\ \A v \in Appliers \ {w} : work'[v] = work[v]
  <2>1. Typed /\ w \in Appliers /\ "check" \in Labels
    BY <1>1
  <2>2. work' = [work EXCEPT ![w] = Job("check", e)]
    BY <1>3
  <2>3. work'[w].pc = "check" /\ \A v \in Appliers \ {w} : work'[v] = work[v]
    BY <2>1, <2>2, <1>2, StartWork
  <2>4. work'[w].id = e.id
    BY <2>1, <2>2, <1>2, StartWork DEF Labels
  <2> QED
    BY <2>3, <2>4
<1>5. \A v \in Appliers, ip \in Ips : Busy(v, ip)' => Busy(v, ip) /\ work'[v].now = work[v].now
  BY <1>4 DEF Busy
<1> QED
  BY <1>1, <1>3, <1>4, <1>5 DEF NoCopies, CopiesDoNotProlong, w

LEMMA ApplyNoCopies ==
  ASSUME FullInv, NEW w \in Appliers, ApplyStep(w) \/ WorkerDies(w) PROVE NoCopies'
<1>1. /\ NoCopies /\ Typed /\ \A ip \in Ips : until[ip] <= justified[ip]
  BY ReadNoCopies
<1>2. UNCHANGED <<seenIds, heard, justified, clock>>
  BY DEF ApplyStep, WorkerDies, Decide, AddToSet, WriteRow, busVars, recordVars
<1>3. CASE WriteRow(w)
  <2>1. /\ until' = [until EXCEPT ![work[w].ip] = work[w].now + BlockTtl]
        /\ Done(w) /\ work[w].pc \in {"refresh", "write"}
    BY <1>3 DEF WriteRow, NewEnd
  <2>2. Busy(w, work[w].ip) /\ work[w].ip \in Ips /\ until \in [Ips -> Nat]
    BY <1>1, <2>1 DEF Busy, Typed, Jobs
  <2>3. work[w].now + BlockTtl <= justified[work[w].ip]
    BY <1>1, <2>2 DEF NoCopies
  <2>4. \A ip \in Ips : until'[ip] <= justified[ip]
    BY <1>1, <2>1, <2>2, <2>3
  <2>5. /\ work'[w].pc \in {"idle", "publish"}
        /\ \A v \in Appliers \ {w} : work'[v] = work[v]
    <3>1. \/ Go(w, "publish")
          \/ work' = [work EXCEPT ![w] = Idle]
      BY <2>1 DEF Done
    <3>2. "publish" \in Labels
      BY DEF Labels
    <3> QED
      BY <1>1, <3>1, <3>2, GoWork, StopWork
  <2> QED
    BY <1>1, <1>2, <2>4, <2>5, WorkerNoCopies
<1>4. ASSUME work' = [work EXCEPT ![w] = Idle], UNCHANGED until PROVE NoCopies'
  BY <1>1, <1>2, <1>4, StopWork, WorkerNoCopies
<1>5. ASSUME NEW label \in {"refresh", "add", "write", "publish"}, Go(w, label),
             work[w].pc \in {"apply", "add"}, UNCHANGED until
      PROVE  NoCopies'
  <2>1. /\ work'[w].pc = label /\ work'[w].ip = work[w].ip /\ work'[w].now = work[w].now
        /\ \A v \in Appliers \ {w} : work'[v] = work[v]
    BY <1>1, <1>5, GoWork DEF Labels
  <2> QED
    BY <1>1, <1>2, <1>5, <2>1, WorkerNoCopies
<1>6. CASE Decide(w)
  BY <1>4, <1>5, <1>6 DEF Decide, Done
<1>7. CASE AddToSet(w)
  BY <1>4, <1>5, <1>7 DEF AddToSet
<1>8. CASE WorkerDies(w)
  BY <1>4, <1>8 DEF WorkerDies
<1> QED
  BY <1>3, <1>6, <1>7, <1>8 DEF ApplyStep

\* Whoever takes no event and writes no row.
LEMMA OthersNoCopies ==
  ASSUME FullInv,
         \/ Tick \/ Scorer \/ PublishOwn \/ Scheduler \/ SchedulerDies \/ Reboot
         \/ UNCHANGED vars
         \/ \E ip \in Ips, observed \in 0..clock, signed \in BOOLEAN :
               Foreign(ip, observed, signed)
  PROVE  NoCopies'
<1>1. /\ NoCopies /\ Typed /\ clock \in Nat
      /\ \A ip \in Ips : until[ip] \in Nat /\ justified[ip] \in Nat
                         /\ until[ip] <= justified[ip]
  BY ReadNoCopies
<1>2. ASSUME UNCHANGED <<seenIds, heard, justified, work>>,
             clock' = clock \/ clock' = clock + 1,
             \A ip \in Ips : until'[ip] = until[ip] \/ until'[ip] = 0
      PROVE  NoCopies'
  <2>1. \A ip \in Ips : until'[ip] <= justified[ip]
    BY <1>1, <1>2
  <2>2. \A v \in Appliers, ip \in Ips : Busy(v, ip)' => Busy(v, ip) /\ work'[v].now = work[v].now
    BY <1>2 DEF Busy
  <2> QED
    BY <1>1, <1>2, <2>1, <2>2, NoCopiesStays
<1>3. CASE Tick \/ Scorer \/ SchedulerDies \/ UNCHANGED vars
  <2>1. UNCHANGED <<seenIds, heard, justified, work, until>>
    BY <1>3 DEF Tick, Scorer, SchedulerDies, vars, nodeVars, busVars, recordVars
  <2>2. clock' = clock \/ clock' = clock + 1
    BY <1>3 DEF Tick, Scorer, SchedulerDies, vars
  <2> QED
    BY <1>2, <2>1, <2>2
<1>4. CASE Scheduler
  <2>1. UNCHANGED <<seenIds, heard, justified, work, clock>>
    BY <1>4 DEF Scheduler, ListExpired, Lift, DeleteRow, busVars, recordVars
  <2>2. until' = until \/ until' = [until EXCEPT ![sched.ip] = 0]
    BY <1>4 DEF Scheduler, ListExpired, Lift, DeleteRow, LiftedRow
  <2>3. \A ip \in Ips : until'[ip] = until[ip] \/ until'[ip] = 0
    BY <1>1, <2>2 DEF Typed
  <2> QED
    BY <1>2, <2>1, <2>3
<1>5. CASE PublishOwn
  <2>1. /\ work' = [work EXCEPT !["detector"] = Idle] /\ "detector" \in Appliers
        /\ UNCHANGED <<seenIds, heard, justified, clock, until>>
    BY <1>5 DEF PublishOwn, recordVars, Appliers
  <2>2. work'["detector"].pc = "idle" /\ \A v \in Appliers \ {"detector"} : work'[v] = work[v]
    BY <1>1, <2>1, StopWork
  <2> QED
    BY <1>1, <2>1, <2>2, WorkerNoCopies
<1>6. CASE Reboot
  <2>1. /\ work' = [w \in Appliers |-> Idle]
        /\ UNCHANGED <<seenIds, heard, justified, clock, until>>
    BY <1>6 DEF Reboot, busVars, recordVars
  <2>2. \A w \in Appliers : work'[w].pc = "idle"
    BY <2>1, IdleIsJob
  <2>3. \A v \in Appliers, ip \in Ips : Busy(v, ip)' => Busy(v, ip) /\ work'[v].now = work[v].now
    BY <2>2 DEF Busy
  <2>4. work'["subscriber"].pc # "check"
    BY <2>2 DEF Appliers
  <2> QED
    BY <1>1, <2>1, <2>3, <2>4, NoCopiesStays
<1>7. ASSUME NEW ip \in Ips, NEW observed \in 0..clock, NEW signed \in BOOLEAN,
             Foreign(ip, observed, signed)
      PROVE  NoCopies'
  BY <1>2, <1>7 DEF Foreign, nodeVars, recordVars
<1> QED
  BY <1>3, <1>4, <1>5, <1>6, <1>7

LEMMA StepNoCopies == FullInv /\ [Next]_vars => NoCopies'
<1> SUFFICES ASSUME FullInv, [Next]_vars PROVE NoCopies'
  OBVIOUS
<1>1. ASSUME NEW e \in net, Receive(e) PROVE NoCopies'
  BY <1>1, ReceiveNoCopies
<1>2. ASSUME NEW w \in Appliers, WorkerGoesOn(w) \/ WorkerDies(w) PROVE NoCopies'
  BY <1>2, ApplyNoCopies, MarkNoCopies DEF WorkerGoesOn
<1> QED
  BY <1>1, <1>2, TakeRiskNoCopies, OthersNoCopies DEF Next

LEMMA StutterFull == FullInv /\ UNCHANGED vars => CallInv' /\ Bounded' /\ EventsTyped'
<1> SUFFICES ASSUME FullInv, UNCHANGED vars PROVE CallInv' /\ Bounded' /\ EventsTyped'
  OBVIOUS
<1>1. RiskInv /\ CallInv /\ Bounded /\ EventsTyped
  BY DEF FullInv
<1>2. UNCHANGED <<callVars, at, clock, busVars, until, promised, set, work, drifted, shared,
                  crossed, left>>
  BY DEF vars, scorerVars, nodeVars, recordVars
<1>3. CallInv' /\ EventsTyped'
  BY <1>1, <1>2, CallSame, EventsSame
<1> QED
  BY <1>1, <1>2, <1>3 DEF Bounded

LEMMA StepFull == FullInv /\ [Next]_vars => FullInv'
<1> SUFFICES ASSUME FullInv, [Next]_vars PROVE CallInv' /\ Bounded' /\ EventsTyped'
  BY StepInv, StepNoCopies DEF FullInv
<1>1. CASE Tick \/ Scorer \/ TakeRisk \/ PublishOwn
  BY <1>1, TickFull, ScorerFull, TakeRiskFull, PublishOwnFull
<1>2. CASE Scheduler \/ SchedulerDies \/ Reboot
  BY <1>2, SchedulerFull, SchedulerDiesFull, RebootFull
<1>3. ASSUME NEW w \in Appliers, WorkerGoesOn(w) \/ WorkerDies(w)
      PROVE  CallInv' /\ Bounded' /\ EventsTyped'
  BY <1>3, DecideFull, AddToSetFull, WriteRowFull, MarkFull, WorkerDiesFull
     DEF WorkerGoesOn, ApplyStep
<1>4. ASSUME NEW ip \in Ips, NEW observed \in 0..clock, NEW signed \in BOOLEAN,
             Foreign(ip, observed, signed)
      PROVE  CallInv' /\ Bounded' /\ EventsTyped'
  BY <1>4, ForeignFull
<1>5. ASSUME NEW e \in net, Receive(e) PROVE CallInv' /\ Bounded' /\ EventsTyped'
  BY <1>5, ReceiveFull
<1>6. CASE UNCHANGED vars
  BY <1>6, StutterFull
<1> QED
  BY <1>1, <1>2, <1>3, <1>4, <1>5, <1>6 DEF Next

LEMMA AlwaysFull == Spec => []FullInv
BY InitFull, StepFull, PTL DEF Spec

\* Rows, set, workers, events and the scorer's call stay within their types: no
\* row ends later than the last instant plus the block time, the set never holds
\* an address of the allowlist, and a call's history is never ahead of its last
\* line (security-v4: detector.py:135-230, enforcer.py:101-186, subscriber.py:17-97).
THEOREM TypeInvariance == Spec => []TypeOK
BY AlwaysFull, FullTypes, PTL

\* A call of score_events reports an address exactly when it is not ignored, the
\* rules that reached their threshold in their windows weigh enough, and the call
\* did not report the address less than the debounce before (security-v4:
\* detector.py:60-72, 159-230).
THEOREM RiskReportedHolds == Spec => []RiskReported
<1>1. FullInv => RiskReported
  BY CallReports DEF FullInv
<1> QED
  BY <1>1, AlwaysFull, PTL

\* No row ends later than a full block after the last risk the node took or the
\* last event that got past its subscriber for the first time: copies, late or
\* repeated, do not prolong a block (security-v4: subscriber.py:36-97,
\* state.py:60-73, enforcer.py:80-165).
THEOREM CopiesDoNotProlongHolds == Spec => []CopiesDoNotProlong
<1>1. FullInv => CopiesDoNotProlong
  BY DEF FullInv, NoCopies
<1> QED
  BY <1>1, AlwaysFull, PTL
====
