------------------------------- MODULE V4Scorer -------------------------------
(***************************************************************************)
(* security-v4/detector.py: how requests of the web log and failures of    *)
(* the auth log become risk events.  events_from_nginx_lines turns a line  *)
(* into up to four signals; score_events walks through the signals of one  *)
(* call, sorted by time, and keeps a deque of times for each address and   *)
(* rule.  Nothing outlives the call: the next one starts with empty deques *)
(* and has forgotten what it emitted.  A path stands for its class, and    *)
(* the sample of paths an event carries as evidence is left out.           *)
(***************************************************************************)
EXTENDS Naturals, Sequences, FiniteSetsExt

CONSTANTS
    Ips,            \* the addresses in the logs
    Ignored,        \* those of them that _is_ignored_ip covers: in one of the
                    \* ignore_cidrs, or not an address at all
    Requests,       \* the requests: [path, status], status "ok", "denied"
                    \* (401, 403, 404) or "error" (any other from 400 on)
    IgnorePatterns, HighRisk, Immediate,  \* the configured sets of paths
    Window, Threshold, Weight,            \* for each rule
    BlockScore, Debounce

VARIABLES
    buckets,        \* per address and rule: the times that still count
    lastEmit,       \* per address: the last emission of the call, or Never
    signals,        \* the signals of the current line that wait their turn
    at,             \* the time of the last line
    out,            \* what the call will return
    nextId,         \* the next fresh event_id
    risks,          \* what calls returned and the driver has not handled yet
    history,        \* ghost: the signals the call has gone through
    reported        \* ghost: the indices in history that were emitted

callVars == <<buckets, lastEmit, signals, out, history, reported>>
scorerVars == <<callVars, at, nextId, risks>>

Rules == {"nginx_404_burst", "auth_fail_burst", "high_risk_path_burst",
          "unique_path_probe_burst", "immediate_block_hit"}

ASSUME ScorerAssumption == Window \in [Rules -> Nat] /\ Debounce \in Nat

Never == [emitted |-> FALSE, at |-> 0]
NoSignals == [ip |-> CHOOSE ip \in Ips : TRUE, rules |-> <<>>]
Risks == [id: Nat, ip: Ips, at: Nat]

ScorerTypeOK ==
    /\ buckets \in [Ips -> [Rules -> Seq(Nat)]]
    /\ lastEmit \in [Ips -> [emitted: BOOLEAN, at: Nat]]
    /\ signals \in [ip: Ips, rules: Seq(Rules)]
    /\ at \in Nat /\ nextId \in Nat
    /\ out \in Seq(Risks) /\ risks \in Seq(Risks)
    /\ history \in Seq([ip: Ips, rule: Rules, at: 0..at])
    /\ reported \subseteq DOMAIN history

NoCall ==
    /\ buckets = [ip \in Ips |-> [r \in Rules |-> <<>>]]
    /\ lastEmit = [ip \in Ips |-> Never]
    /\ signals = NoSignals
    /\ out = <<>>
    /\ history = <<>>
    /\ reported = {}

ForgetCall ==
    /\ buckets' = [ip \in Ips |-> [r \in Rules |-> <<>>]]
    /\ lastEmit' = [ip \in Ips |-> Never]
    /\ signals' = NoSignals
    /\ out' = <<>>
    /\ history' = <<>>
    /\ reported' = {}

ScorerInit == NoCall /\ at = 0 /\ nextId = 0 /\ risks = <<>>

-----------------------------------------------------------------------------
\* enrich_nginx_signal
When(condition, rule) == IF condition THEN <<rule>> ELSE <<>>

SignalsOf(request) ==
    IF request.path \in IgnorePatterns THEN <<>>
    ELSE When(request.status = "denied", "nginx_404_burst")
           \o When(request.path \in Immediate, "immediate_block_hit")
           \o When(request.path \in HighRisk, "high_risk_path_burst")
           \o When(request.status \in {"denied", "error"}, "unique_path_probe_burst")

\* The next line; score_events sorts its signals, so times do not go back.
Line(ip, rules, time) ==
    /\ signals.rules = <<>>
    /\ rules # <<>>
    /\ time >= at
    /\ at' = time
    /\ signals' = [ip |-> ip, rules |-> rules]
    /\ UNCHANGED <<buckets, lastEmit, out, nextId, risks, history, reported>>

LogLine(ip, time) ==
    \/ Line(ip, <<"auth_fail_burst">>, time)
    \/ \E request \in Requests : Line(ip, SignalsOf(request), time)

-----------------------------------------------------------------------------
\* Mutant: a signal exactly as old as the window no longer counts.
InWindow_open(time, rule, now) == time + Window[rule] > now

InWindow(time, rule, now) == time + Window[rule] >= now

\* popleft while dq[0] < now - window: the first time that still counts leads.
Pruned(dq, rule, now) ==
    LET fresh == {k \in DOMAIN dq : InWindow(dq[k], rule, now)}
    IN  IF fresh = {} THEN <<>> ELSE SubSeq(dq, Min(fresh), Len(dq))

\* The deques of the address: the new signal goes to its own, and all of them
\* lose what is too old.
Counted ==
    LET rule == Head(signals.rules)
        dq == buckets[signals.ip]
    IN  [r \in Rules |->
          Pruned(IF r = rule THEN Append(dq[r], at) ELSE dq[r], r, at)]

Score(count) ==
    MapThenSumSet(LAMBDA r : Weight[r], {r \in Rules : count[r] >= Threshold[r]})

\* Emitted a moment ago: not again.
Debounced == lastEmit[signals.ip].emitted
               /\ at < lastEmit[signals.ip].at + Debounce

\* The signal of an ignored address is passed over: it is in no deque.
SkipSignal ==
    /\ signals.ip \in Ignored
    /\ UNCHANGED <<buckets, lastEmit, nextId, out, reported>>

\* Any other is counted; a risk it makes gets its event_id here.
CountSignal ==
    LET ip == signals.ip
        count == [r \in Rules |-> Len(Counted[r])]
    IN  /\ ip \notin Ignored
        /\ buckets' = [buckets EXCEPT ![ip] = Counted]
        /\ IF Score(count) >= BlockScore /\ ~Debounced
           THEN /\ lastEmit' = [lastEmit EXCEPT ![ip] = [emitted |-> TRUE, at |-> at]]
                /\ out' = Append(out, [id |-> nextId, ip |-> ip, at |-> at])
                /\ nextId' = nextId + 1
                /\ reported' = reported \cup {Len(history) + 1}
           ELSE UNCHANGED <<lastEmit, nextId, out, reported>>

ScoreSignal ==
    /\ signals.rules # <<>>
    /\ history' = Append(history, [ip |-> signals.ip, rule |-> Head(signals.rules),
                                   at |-> at])
    /\ SkipSignal \/ CountSignal
    /\ signals' = [signals EXCEPT !.rules = Tail(@)]
    /\ UNCHANGED <<at, risks>>

CallReturns ==
    /\ signals.rules = <<>>
    /\ history # <<>>
    /\ risks' = risks \o out
    /\ ForgetCall
    /\ UNCHANGED <<at, nextId>>

-----------------------------------------------------------------------------
\* What the configuration calls a risk, from the whole history of the call: as
\* of its i-th signal, the rules that reached their threshold in their window
\* weigh enough.
Seen(i, rule) ==
    {j \in 1..i : /\ history[j].ip = history[i].ip
                  /\ history[j].rule = rule
                  /\ history[i].at - history[j].at <= Window[rule]}

Risky(i) == Score([r \in Rules |-> Cardinality(Seen(i, r))]) >= BlockScore

\* Every risk of an address that is not ignored is reported at its signal or less
\* than the debounce before, and nothing else is: the deques, pruned as they go,
\* count what the history has, and reports of one address keep their distance.
RiskReported ==
    \A i \in DOMAIN history :
        LET recent == {j \in reported : /\ j < i
                                       /\ history[j].ip = history[i].ip
                                       /\ history[i].at < history[j].at + Debounce}
        IN  i \in reported <=> history[i].ip \notin Ignored /\ Risky(i) /\ recent = {}
=============================================================================
