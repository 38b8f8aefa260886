------------------------------ MODULE Detector ------------------------------
(***************************************************************************)
(* detector/detect.py: the one-minute passes that turn lines of the logs   *)
(* into signals, signals into offenders and offenders into rows of the     *)
(* outbox, with the tables signals, log_offsets, outbox and blocks of      *)
(* authmon/state.py, and the agent that works on two of them meanwhile.    *)
(*                                                                         *)
(* One log stands for each way a line gets its time: "combined" for the    *)
(* logs of nginx, apache, lighttpd and haproxy, whose lines carry it,      *)
(* "json" for those of caddy and traefik and "auth" for auth.log, whose    *)
(* lines get the time they are read.  How a log is read is LogTail's       *)
(* subject; here its next lines, as many as a read takes, are one batch.   *)
(* A path stands for its class, decoded; a traversal is a path of the      *)
(* immediate ones.                                                         *)
(***************************************************************************)
EXTENDS Naturals, Sequences, FiniteSets

CONSTANTS
    Ips,            \* the addresses in the logs
    Skipped,        \* those skip_ip leaves alone
    Requests,       \* per web log: [path, status, scanner], with a status
                    \* "ok", "bad" or "missing"
    IgnorePatterns, Immediate, HighRisk,  \* the configured sets of paths
    Window, Threshold,    \* for each kind of signal that has them
    PathThreshold,  \* unique_path_threshold
    Ttl,            \* default_ttl_seconds
    MaxRead,        \* MAX_BYTES_PER_READ, in lines
    MaxPass,        \* how long a pass may take
    MaxClock,       \* bound: the last instant
    Budgets         \* bounds: lines and crashes; a behaviour starts with one

MaxWindow ==
    CHOOSE w \in {Window[k] : k \in DOMAIN Window} :
        \A k \in DOMAIN Window : Window[k] <= w

\* A pass takes seconds, the windows of the configuration are minutes.
ASSUME DetectorAssumption ==
    /\ Skipped \subseteq Ips
    /\ DOMAIN Requests = {"combined", "json"}
    /\ DOMAIN Window = {"http_404", "bad_status", "auth_fail"}
    /\ DOMAIN Threshold = DOMAIN Window
    /\ \A k \in DOMAIN Window : Window[k] \in Nat /\ Threshold[k] \in Nat
    /\ MaxPass \in 0..MaxWindow
    /\ {PathThreshold, Ttl} \subseteq Nat /\ {MaxClock, MaxRead} \subseteq Nat \ {0}
    /\ Budgets \subseteq [{"lines", "crashes"} -> Nat]

VARIABLES
    clock,
    lines,          \* the logs
    offset,         \* per log: log_offsets
    signals,        \* the table, with what the open transaction added
    pending,        \* the rows the open transaction added
    outbox,         \* the addresses reported and not yet applied
    until,          \* per address: expires_at of its active row, or 0
    pc, todo,       \* where the pass is, and the logs it has still to read
    batch,          \* the lines it is working on
    age,            \* for how long it runs
    offenders,      \* what it flagged
    left,           \* what is left of the budget
    history,        \* ghost: all rows the table ever got and did not roll back
    due,            \* ghost: who has to be reported by the pass
    answered,       \* ghost: who the pass reported, or found blocked already
    pruned,         \* ghost: when prune_signals ran last
    capped          \* ghost, per log: the lines it had at the last read that did
                    \* not take all of them

tables == <<offset, signals, pending, history>>
agentVars == <<outbox, until>>
flow == <<pc, todo, batch, age>>
passVars == <<flow, offenders, due, answered>>
backlog == <<pruned, capped>>
vars == <<clock, lines, tables, agentVars, passVars, backlog, left>>

Logs == <<"combined", "json", "auth">>
LogNames == {"combined", "json", "auth"}
Kinds == {"http_404", "bad_status", "high_risk_path", "auth_fail"}

NoRequest == [path |-> "", status |-> "bad", scanner |-> FALSE]
Shown(l) == IF l = "auth" THEN {NoRequest} ELSE Requests[l]
Shows == UNION {Shown(l) : l \in LogNames}
Line == [log: LogNames, ip: Ips, request: Shows, at: 1..MaxClock]
Signal == [id: Nat, log: LogNames, ip: Ips, kind: Kinds, ts: 1..MaxClock,
           path: {r.path : r \in Shows}]

TypeOK ==
    /\ clock \in 1..MaxClock
    /\ \A l \in LogNames : /\ lines[l] \in Seq(Line)
                           /\ offset[l] \in 0..Len(lines[l])
    /\ pending \subseteq signals /\ signals \subseteq history
    /\ history \subseteq Signal
    /\ outbox \subseteq Ips \ Skipped
    /\ until \in [Ips -> 0..(MaxClock + Ttl)]
    /\ pc \in {"off", "read", "emit"}
    /\ todo \in Seq(LogNames) /\ batch \in Seq(Line)
    /\ {offenders, due, answered} \subseteq SUBSET (Ips \ Skipped)
    /\ age \in 0..MaxPass
    /\ pruned \in 0..clock
    /\ \A l \in LogNames : capped[l] \in 0..Len(lines[l])
    /\ left \in [{"lines", "crashes"} -> Nat]

Init ==
    /\ clock = 1
    /\ lines = [l \in LogNames |-> <<>>]
    /\ offset = [l \in LogNames |-> 0]
    /\ signals = {} /\ history = {} /\ pending = {}
    /\ outbox = {} /\ until = [ip \in Ips |-> 0]
    /\ pc = "off" /\ todo = <<>> /\ batch = <<>> /\ age = 0
    /\ offenders = {} /\ due = {} /\ answered = {}
    /\ pruned = 0 /\ capped = [l \in LogNames |-> 0]
    /\ left \in Budgets

Spend(what) == left[what] > 0 /\ left' = [left EXCEPT ![what] = @ - 1]

-----------------------------------------------------------------------------
\* Time, the services that log, and the agent of the node.

Tick ==
    /\ clock < MaxClock
    /\ clock' = clock + 1
    /\ pc # "off" => age < MaxPass
    /\ age' = IF pc = "off" THEN 0 ELSE age + 1
    /\ UNCHANGED <<lines, tables, agentVars, pc, todo, batch, offenders, due,
                   answered, backlog, left>>

Write(l, ip, request) ==
    /\ Spend("lines")
    /\ request \in Shown(l)
    /\ lines' = [lines EXCEPT ![l] = Append(@, [log |-> l, ip |-> ip,
                                       request |-> request, at |-> clock])]
    /\ UNCHANGED <<clock, tables, agentVars, passVars, backlog>>

Apply(ip) ==
    /\ ip \in outbox
    /\ outbox' = outbox \ {ip}
    /\ until' = [until EXCEPT ![ip] = clock + Ttl]
    /\ UNCHANGED <<clock, lines, tables, passVars, backlog, left>>

Reap(ip) ==
    /\ until[ip] # 0 /\ until[ip] <= clock
    /\ until' = [until EXCEPT ![ip] = 0]
    /\ UNCHANGED <<clock, lines, tables, outbox, passVars, backlog, left>>

-----------------------------------------------------------------------------
\* Detector.run: the logs.

Begin ==
    /\ pc = "off"
    /\ pc' = "read"
    /\ todo' = Logs
    /\ due' = {} /\ answered' = {}
    /\ UNCHANGED <<clock, lines, tables, agentVars, batch, age, offenders, backlog,
                   left>>

\* Mutant: saving the offset does not commit what was added before.
Saved_later(l) == pending

\* save_offset and, before auth.log, the commit after the web logs.
Saved(l) == IF offset[l] < Len(lines[l]) \/ l = "auth"
            THEN {} ELSE pending

\* Where a read ends: at the end of the log, or at the most a read takes.
ReadTo(l) == IF offset[l] + MaxRead < Len(lines[l]) THEN offset[l] + MaxRead
                                                    ELSE Len(lines[l])

\* The next lines of the next log.  Their offset is on disk at once, what they
\* say only when something commits.  Lines beyond MaxRead wait for a later pass.
ReadLog ==
    /\ pc = "read" /\ batch = <<>> /\ todo # <<>>
    /\ LET l == Head(todo) IN
         /\ batch' = SubSeq(lines[l], offset[l] + 1, ReadTo(l))
         /\ offset' = [offset EXCEPT ![l] = ReadTo(l)]
         /\ pending' = Saved(l)
         /\ capped' = IF ReadTo(l) < Len(lines[l])
                      THEN [capped EXCEPT ![l] = Len(lines[l])] ELSE capped
    /\ todo' = Tail(todo)
    /\ UNCHANGED <<clock, lines, signals, history, agentVars, pc, age, offenders,
                   due, answered, pruned, left>>

Time(line) == IF line.log = "combined" THEN line.at ELSE clock

\* Rules that need no window.
HitsNow(line) ==
    \/ line.request.path \in Immediate
    \/ line.request.status # "ok" /\ line.request.scanner

Ignored(line) ==
    line.ip \in Skipped \/ line.request.path \in IgnorePatterns

When(condition, kind) == IF condition THEN {kind} ELSE {}

KindsOf(line) ==
    IF line.log = "auth" THEN {"auth_fail"}
    ELSE IF line.request.path \in Immediate THEN {}
    ELSE When(line.request.path \in HighRisk, "high_risk_path")
           \cup When(line.request.status # "ok", "bad_status")
           \cup When(line.request.status = "missing", "http_404")

\* The rows of a line have an id of their own.
SignalsOf(line) ==
    {[id |-> Cardinality(history), log |-> line.log, ip |-> line.ip, kind |-> kind,
      ts |-> Time(line), path |-> line.request.path] : kind \in KindsOf(line)}

\* The rows of the address since a window before the given time.
Recent(table, ip, time, kind) ==
    {row \in table : row.ip = ip /\ row.ts + Window[kind] >= time}

Reaches(table, ip, time, kind) ==
    Cardinality({row \in Recent(table, ip, time, kind) : row.kind = kind})
      >= Threshold[kind]

UniquePaths(table, ip, time) ==
    {row.path : row \in Recent(table, ip, time, "bad_status")} \ {""}

\* evaluate_windows for the web logs, and the test of process_auth_line.
Burst(table, line) ==
    IF line.log = "auth" THEN Reaches(table, line.ip, Time(line), "auth_fail")
    ELSE \/ Reaches(table, line.ip, Time(line), "http_404")
         \/ /\ Reaches(table, line.ip, Time(line), "bad_status")
            /\ Cardinality(UniquePaths(table, line.ip, Time(line))) >= PathThreshold

\* After an immediate path no window is looked at.
Offends(table, line) ==
    HitsNow(line) \/ (line.request.path \notin Immediate /\ Burst(table, line))

\* A line that an earlier read left in a backlog, and that was older than a
\* window already when a pass pruned: signals it needs may be gone.
LeftBehind(line) ==
    /\ offset[line.log] - Len(batch) + 1 <= capped[line.log]
    /\ Time(line) + MaxWindow < pruned

HandleLine ==
    /\ pc = "read" /\ batch # <<>>
    /\ LET line == Head(batch)
           new == IF Ignored(line) THEN {} ELSE SignalsOf(line)
           flags(table) == IF ~Ignored(line) /\ Offends(table, line)
                           THEN {line.ip} ELSE {}
       IN /\ signals' = signals \cup new
          /\ pending' = pending \cup new
          /\ history' = history \cup new
          /\ offenders' = offenders \cup flags(signals')
          /\ due' = IF LeftBehind(line) THEN due ELSE due \cup flags(history')
    /\ batch' = Tail(batch)
    /\ UNCHANGED <<clock, lines, offset, agentVars, pc, todo, age, answered,
                   backlog, left>>

-----------------------------------------------------------------------------
\* Detector.run: the report.

CommitAll ==
    /\ pc = "read" /\ batch = <<>> /\ todo = <<>>
    /\ pc' = "emit"
    /\ pending' = {}
    /\ UNCHANGED <<clock, lines, offset, signals, history, agentVars, todo, batch,
                   age, offenders, due, answered, backlog, left>>

\* get_active_block, which does not ask when the row ends.
AlreadyBlocked(ip) == until[ip] # 0

Emit(ip) ==
    /\ pc = "emit"
    /\ ip \in offenders
    /\ offenders' = offenders \ {ip}
    /\ outbox' = IF AlreadyBlocked(ip) THEN outbox ELSE outbox \cup {ip}
    /\ answered' = answered \cup {ip}
    /\ UNCHANGED <<clock, lines, tables, until, flow, due, backlog, left>>

\* Mutant: signals are kept for one window.
Keeps_one_window(signal) == signal.ts + MaxWindow >= clock

Keeps(signal) == signal.ts + 2 * MaxWindow >= clock

\* prune_signals, and the pass is over.
Prune ==
    /\ pc = "emit" /\ offenders = {}
    /\ pc' = "off" /\ age' = 0
    /\ signals' = {row \in signals : Keeps(row)}
    /\ pending' = {}
    /\ pruned' = clock
    /\ UNCHANGED <<clock, lines, offset, history, agentVars, todo, batch, offenders,
                   due, answered, capped, left>>

\* The pass dies.  The open transaction is rolled back, and whom it flagged is
\* known to nobody: the lines that told are behind the offset.
Crash ==
    /\ pc # "off"
    /\ Spend("crashes")
    /\ signals' = signals \ pending
    /\ history' = history \ pending
    /\ pending' = {}
    /\ pc' = "off" /\ todo' = <<>> /\ batch' = <<>> /\ age' = 0
    /\ offenders' = {} /\ due' = {}
    /\ UNCHANGED <<clock, lines, offset, agentVars, answered, backlog>>

-----------------------------------------------------------------------------
Next ==
    \/ Tick
    \/ \E l \in LogNames, ip \in Ips, request \in Shows :
          Write(l, ip, request)
    \/ Begin \/ ReadLog \/ HandleLine \/ CommitAll \/ Prune \/ Crash
    \/ \E ip \in Ips : Emit(ip) \/ Apply(ip) \/ Reap(ip)

Spec == Init /\ [][Next]_vars

-----------------------------------------------------------------------------
\* A finished pass has reported everyone whose lines reached a threshold within
\* its window, counting all signals of this and earlier passes: pruning never
\* forgets what a line still to come would need, even one that was written while
\* the pass that pruned was running or that waits in a backlog for less than a
\* window.  What older lines of a backlog need may be gone (LeftBehind), and who
\* has an active row is not reported again.
OffenderReported == pc = "off" => due \subseteq answered

\* A pass that dies loses the signals of one log at most: the tables are shared,
\* so saving the next offset commits the log before.
CrashLosesOneLog == \A row, other \in pending : row.log = other.log

=============================================================================
