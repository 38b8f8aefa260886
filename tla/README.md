# TLA+ verification of auth-monitor (nw-firewall), versions 5 and 4

auth-monitor blocks hostile addresses on a fleet of Linux nodes.  On every node
a detector reads logs and queues detections, and an agent enforces them in the
kernel, announces them to the other nodes over MQTT and enforces what the others
announce.  The repository also keeps version 4, which does the same with other
programs.  This directory models both, and checks and proves what their
correctness rests on.  All line numbers refer to the files of this repository.

## 1. The system

| Part | Code | State it keeps | Operations | Talks to |
|---|---|---|---|---|
| Agent daemon | `agent/agent.py` | `self.guard`, limiter, two threads | `handle_event` (MQTT thread); `pump_outbox`, `expire_blocks`, `_check_own_ip`, heartbeat, `send_state_sync`, prunes (main thread); startup reconcile | state, firewall, bus |
| State | `authmon/state.py` | SQLite tables `blocks`, `outbox`, `seen_events`, `allowlist`, `port_allowlist`, `peer_ips`, `log_offsets`, `signals`, `geo_cache`, `decisions` | one committed statement group per function | agent, detector, API and geo enricher of the same node share the file |
| Kernel firewall | `authmon/firewall.py` | ipset or iptables rules (outside the process, lost at reboot) | `block`, `unblock`, `reconcile`, port rules | agent, API |
| Guard | `authmon/ipguard.py` | a copy of allowlist and peer addresses | `build`, `check` | agent, detector, API |
| Events | `authmon/events.py` | none | make, sign, `validate_incoming` | everything that publishes |
| MQTT bus | `authmon/mqttbus.py` | paho's queues, persistent session | `publish_signed`, `_on_message` | the broker |
| Rate limiter | `authmon/ratelimit.py` | instants of the last minute | `allow` | agent |
| Detector | `detector/detect.py`, `authmon/logtail.py` | offsets and signals in the database | one pass over the logs per timer tick | state |
| Border API | `api/api.py` | own guard, write limiter | block, unblock, allowlist, ports | bus, state, firewall |
| Geo enricher | `geo-enricher/enricher.py` | claims | claim, look up, publish | bus, state |
| Desktop tools, dashboard | `desktop/`, `fw-monitor/` | pending notifications | display | bus, API |
| v4 client host | `v4/client/` | table `blocked_ips`, a watermark file, a whitelist file, an iptables chain | collect, decide, publish; the agent's `on_message` | one MQTT topic |
| v4 border host | `v4/server/listen-to-mosquitto.py`, `v4/security-v4/api.py` | an iptables chain; tables `blocks`, `allowlist` | the listener's `on_message`; API requests | the same topic |
| v4 risk pipeline | `v4/security-v4/` (detector, enforcer, state, publisher, subscriber) | `ip_state`, `seen_messages`, an ipset | score, apply, reconcile, receive | a topic of its own |

What is hard here: two threads of the agent change the same rows, rules and
guard and hold the database lock for one statement group only, never across a
firewall command; the kernel, the database and the in-memory guard can each be
ahead of the others when the process dies; firewall commands fail; the broker
repeats, delays and loses messages and a publish that timed out may still
arrive; dedupe forgets events after a while; clocks differ; the detector commits
its tables at odd moments; version 4 has no locks around its files and sets, and
clean MQTT sessions.  `PROJECT.json`
lists each of these hazards at its line with the properties about it.

What makes each part correct:

- agent, state, firewall: kernel rules, `blocks` rows and the allowlist agree
  whenever nobody is in the middle of changing them; no rule outlives its row;
  expired blocks end; a restart repairs the kernel;
- outbox: local enforcement before announcement, no gap, nothing lost;
- events and dedupe: an enforcement event has its effect at most once;
- guard: exempt addresses are not blocked;
- detector: every log line is scored once and every burst above a threshold is
  reported; peer addresses: the live address of every node is protected; port
  exceptions: the rules are those the table asks for;
- fleet: blocks spread and end, an operator's unblock holds;
- v4: both enforcers and the whitelist file follow the topic, the publisher skips
  no row; set and table of the risk pipeline agree, every risk is reported.

## 2. Modules

| Module | Models | Used by |
|---|---|---|
| `AgentNode` | one node: both threads of the agent, its tables, its kernel rules | `MCAgentNode`, `AgentNodeProofs` |
| `ReplayGuard` | which deliveries of an event the agent acts on | `MCOnce`, `OnceProofs` |
| `AtMostOnce` | abstract: a dedupe that never forgets | instantiated by `ReplayGuard` |
| `PeerIps` | all nodes' tables of peer addresses, guards and ip_change events | `MCPeerIps`, `PeerIpsProofs` |
| `PortAllow` | port exceptions of one node: table and ACCEPT rules, agent and API | `MCPortAllow`, `PortAllowProofs` |
| `LogTail` | the detector's passes over one log and what happens to its file | `MCOnce`, `MCLogTail`, `OnceProofs` |
| `Detector` | the passes from new lines to the outbox: signals, windows, transaction, pruning | `MCDetector`, `DetectorProofs` |
| `Grid` | the fleet: API, agents, broker, state sync | `MCGrid`, `GridProofs` |
| `V4Common` | v4: the topic and the whitelist file | the next three |
| `V4Lists` | v4: operator's command, collector, publisher on a client host | `V4Fleet` |
| `V4Enforcers` | v4: agent and listener, which apply the topic to two kernels | `V4Fleet` |
| `V4Border` | v4: the border API with its two tables | `V4Fleet` |
| `V4Fleet` | composition of the three over one topic | `MCV4Fleet`, `V4FleetProofs` |
| `V4Scorer` | v4: from log lines to risks | `V4Risk` |
| `V4Risk` | v4: scorer, enforcer, scheduler, publisher and subscriber of one node | `MCV4Risk`, `V4RiskProofs` |

A `...Proofs` module holds the theorems about the module it is named after
(`OnceProofs` those about `ReplayGuard` and `LogTail`: what a node takes from
outside it takes once; `MCOnce` runs either of the two), an `MC...` module the values TLC runs it with.  The modules of version 5 abstract
each other: `Grid` takes a whole handler for one step, since what the two threads
of a node do to each other is `AgentNode`'s subject, and gets its events at most
once because of `ReplayGuard`; `Detector` takes the next lines of a log for one
batch because of `LogTail`; `AgentNode` sees the detector only as rows that appear
in the outbox.

### AgentNode

State: `blocks`, `allowlist` and `outbox` are the tables, `kernel` is for each
address the instant its rule ends (`NoRule` without rule, `Forever` for an
iptables rule), `guard` is the part of `self.guard` that comes from the
allowlist.  `pc` and `frame` hold where each thread is and its locals, `todo`
the list that `pump_outbox` or `expire_blocks` is working through, `entries` and
`startedAt` the list and the `now` of the sync_state handler.  `sent` is what
the broker received.

Actions are the code's atomic pieces: a statement group under `db_lock`, a
firewall command, a read or an assignment of `self.guard`.  `enforce_block` is
`CheckGuard`, `FirewallBlock`, `UpsertBlock`, used by both threads;
`pump_outbox` is `StartPump`, `NextRow`, `MarkApplied`, `PublishOk` or
`PublishError`, `MarkPublished`; `expire_blocks` is `StartExpire`, `ReapRule`,
`ReapRow`; `_check_own_ip` is `OwnIpChanged` with `BuildGuard` and
`AssignGuard`; each branch of `handle_event` is an `Event...` action followed by
the steps it calls.  `Crash`, `Reboot` and `Start` (with
`Firewall.reconcile`) may happen between any two steps, and every firewall
command may fail where `FirewallFails` says so.

The two threads do race, so rules, rows and allowlist do not always agree.  The
history variables `leakCause`, `missCause` and `exemptCause` record, for each
address, the three things after which the properties allow a disagreement (both
threads on the address at once, the process dying in the middle of a change, a
failed command that the code ignores), and forget them when the code repairs the
damage (a reboot for leaked rules, a start for missing ones).  So a property
does not say "this never disagrees", which is false, but "nothing else makes it
disagree", through any sequence of blocks, unblocks, syncs, expiries, restarts.

### ReplayGuard

`wire` is the set of copies (id, ts) that were handed to the broker or are in
some client's queue; a copy stays there for ever, so that delivery may be
repeated, delayed and reordered at will, and a copy that is never delivered is
lost.  `Deliver` is `handle_event` up to `mark_seen`; `Apply` the handler's end;
`Abandon` a crash or an exception in it.  `Attempt` is one round of
`pump_outbox` or of a peer: a new `ts` under the same event id, the message
perhaps lost, perhaps not.  `Spread` bounds how long a sender goes on retrying
one event.  `claimed` and `applied` are history counters.

### PeerIps

`peers[n]` is the table `peer_ips` of node n (an active row, a retiring one with
its deadline, or none, for each node and address), `guard[n]` the part of
`self.guard` that comes from it, `addr[n]` the address the host really has,
`wire[m][n]` the ip_change events from m to n: in order and at most once (what
`ReplayGuard` gives), any of them possibly lost.  `_check_own_ip` is `ReadOwnIp`,
then either `Register` (no own row yet) or `OwnUpsert` and `OwnRetire`, then the
guard rebuild and `Announce`; `_handle_ip_change` is `Claim` (upsert, and
`Reclaim` where another node's retirement is cancelled), a rebuild, `RetirePeer`.
One `db_lock` hold is several committed statements, so `LockFree` keeps the other
thread out and `Crash` may still fall between them.  `BuildGuard` reads the table
and `AssignGuard` stores the result later, which is how rebuilds cross.

History: `told` (what n last heard from m), `been` (addresses a node ever had),
`gap` (n missed an event of m), `torn` (n died inside a change), `crossed` (two
rebuilds overlapped since the last start) and `evicted` (addresses that n retired
on the word of one node while another had them or had told them).  The last is
the one thing that can take the protection of a live address: the code retires,
and reactivates, the rows of an address whichever node they belong to
(`state.py:375-381`), so a node's late retirement of an address that has changed
hands takes the new owner's row too.

### PortAllow

`rows` is the table `port_allowlist`, `accept[k]` how many equal ACCEPT rules the
INPUT chain has for address, port and protocol k (`-I` inserts duplicates).  The
workers are the agent and the API's requests on the same node, which share both
and lock the table only.  `AddRow` and `RemoveRow` are the table half of the
handlers; `Check` and `Insert` are `allow_port`, over the one rule of the agent's
handler or the list of a reconcile (`ReadEntries`); `Find` and `Delete` are the
loop of `deny_port`.  Commands fail, either process dies, the host reboots.
`leakCause` and `missCause` work as in `AgentNode`.  One cause is no accident of
timing: removing one of two rows of a key (fleet-wide and for this node) removes
the rule of both, and it stays away until the next reconcile.  Not in the model:
`_iptables_for` never chooses `ip6tables`, since the protocol is tcp or udp, so
exceptions for IPv6 addresses always fail.

### LogTail

A file is a sequence of pieces, each what the service flushed at once; a line is
one or more pieces and `last` marks its newline.  `StatFile`, `UpToDate`,
`ReadChunk`, `SaveOffset` and `Score` are the steps of `read_new_lines` and of the
pass that called it; `saved` is the row of `log_offsets`.  `Write` and `Rotate` may
come between any two steps.  `Rotate` covers a new inode, a reused one and
copytruncate.  `excused` collects the lines that a rotation, a reused inode with a
larger file, or a crash after the save took; `raced` says that the file was
replaced between `os.stat` and `open`.

### Detector

One log stands for each way a line gets its time: the combined format carries it,
the lines of caddy, traefik and auth.log get the time they are read.  `ReadLog` is
the save of an offset with the commit it implies (`pending` is the open
transaction), `HandleLine` one line with its signals and its windows, `CommitAll`,
`Emit` and `Prune` the end of `run`.  The services, the agent (`Apply`, `Reap`)
and the clock go on between any two steps; `Crash` rolls the open transaction
back and forgets who was flagged.  The ghost `history` is the table as it would be
without pruning, and `due` whom that table convicts: `OffenderReported` compares
the code, which looks at what it kept, with it.  A read takes `MaxRead` lines of a
log at most (32 MB in the code), so lines can wait in a backlog over several passes
while those passes prune; `pruned` and `capped` tell which lines did (`LeftBehind`),
and `due` leaves those out that had waited for more than a window.  `AlreadyBlocked` is
`get_active_block`, which does not look at the expiry.

### Grid

`until` is a node's `blocks` (and its kernel), `allowlist` its table and guard,
`outbox` its detections waiting for the broker, `inbox` what the broker holds for
it: sessions are persistent and one topic keeps its order, and no node gets what
it sent.  The API is a sender on the broker's node whose agent gets none of its
events.  `Reject` drops an event that is too old, `Lose` a session, a limiter or
firewall refuses some address of an event (a fault).  Of the ghosts, `orderedAt`
is when a block was last asked for, `lifted` the addresses an operator let in,
`missed` who did not get that done, and `echoed` what some node's sync listed
again.

### V4Common, V4Lists, V4Enforcers, V4Border, V4Fleet

`V4Common` has the topic and the whitelist file.  A session is clean: an enforcer
that is away misses what is published, recorded in `missed`; so is what one of
them cannot check.  The listener accepts several secrets and the agent one, the
API may sign with either or with none they know (`Secrets`, `Trusted`).  The file
is written in two steps, `TruncateWhitelist` and `FillWhitelist`, by the operator's
command and the agent, with no lock.  `saving` is who has emptied it and not closed
it; `raced` the addresses it may have wrong: all, when two programs are in it or one
dies in it; those that differ, when a stale copy is saved; the one at hand, when a
program loads an unfinished file.  An address leaves `raced` when its next change is
saved alone.

`V4Lists`: `8-manage-ip-lists` is start (with its load of the file), truncate,
fill, the time of the row (`MgrReadsClock`) and its commit (`MgrUpsert`), two
publishes; `3-collect-malicious-access` takes its timestamp in `ColStart` and
commits in `ColWrite`; `6-block-ips` is `ShipStart` (the pending rows in order),
`ShipPublish` for each, `ShipSave` of the watermark, or `ShipFails`.
`V4Enforcers`: `7-iptables-agent` handles a message in the steps of its
`on_message`, the listener in one.  Both die, restart, and lose their chain at a
reboot.  `V4Border`: requests of the API's threads, each a check, a `Write`, for an
allowing one the `Lift` of the block, and up to two publishes.  `CutOff` ends one
request between its statements, or all of them with the API; what was committed
stays and is never announced.  `unsettled` holds an address whose requests
overlapped in the tables or ended between the two statements of an allowing one,
until a request for it that has the tables to itself takes it out of one of them.
`V4Fleet` interleaves them.

### V4Scorer, V4Risk

`V4Scorer` is `score_events`: `LogLine` adds the signals of a line, `ScoreSignal`
passes over the next one if its address is ignored (`SkipSignal`), or puts it in
the deques of its address, which lose what is too old, and emits an event with a
fresh id if the score is high and the debounce over (`CountSignal`).  `V4Risk` adds the clock and the
processes that share a database and an ipset without a lock: the detector and the
subscriber run `apply_risk_event` (`Decide`, then `AddToSet` and `WriteRow`, or
only `WriteRow` for an address that is blocked), the scheduler `reconcile_expired`
(`ListExpired`, `Lift`, `DeleteRow`).  The subscriber looks an event up (`Receive`)
and marks it (`Mark`) before it applies it; the detector publishes what it applied
under the id it got from the scorer (`PublishOwn`), so the node's own event comes
back to its subscriber, which has not seen it.  Who calls these functions is taken from the
tests and `ROLLOUT.md`.  `drifted`, `shared` and `crossed` record failed commands,
deaths and overlaps; `justified` is the latest end that a risk of the node's own or
the first copy of an event can have asked for.

## 3. Runs

| Run | Expect | Question |
|---|---|---|
| `agent_enforcement` | pass | Do rules, rows and allowlist agree but for the recorded causes? (`RuleHasRow`, `RowHasRule`, `RuleEndsWithRow`, `AllowlistedNotEnforced`, `TypeOK`) |
| `agent_outbox` | pass | Is every detection tried locally, then announced, in order, without gap, at least once, across a crash? Do expired blocks end? (`AppliedBeforeSent`, `FeedHasNoGap`, `DetectionReachesGrid`, `ExpiredBlockEnds`) |
| `agent_local_first` | violation | Does enforcement of detections work without the broker, as `agent.py:5` says? |
| `once` | pass | Is dedupe with a bounded memory plus freshness as good as one that never forgets (`NoReplay`, `ImplementsAtMostOnce`)?  Is every line of a log scored once, in order, in the end, if nothing took it away (`ScoredOnceInOrder`, `NothingSkipped`, `LineIsScored`)? |
| `peer_ips` | pass | Do nodes keep each other's announced addresses exempt, and no others? (`TypeOK`, `PeerAddressKept`, `GuardCoversPeers`, `OneOwnAddress`, `StaleAddressRetires`, `ProtectionEndsByTime`) |
| `port_allow` | pass | Do ACCEPT rules and rows agree but for the recorded causes? (`RuleHasRow`, `RowHasRule`) |
| `log_rotation` | violation | Does a rotation lose nothing, as README-v5.md:51-52 says? (`RotationLosesNothing`) |
| `detector` | pass | Does pruning forget nothing a later line needs, is everyone due reported, and how much can a pass that dies lose? (`OffenderReported`, `CrashLosesOneLog`) |
| `grid` | pass | Do blocks spread past losses, end, and stay away after an unblock? (`TypeOK`, `BlocksEnd`, `UnblockHolds`, `BlockSpreads`) |
| `grid_unblock` | violation | Does an unblock through the API reach every node, the API's own included, as the comment of `api.py:94` takes for granted? |
| `v4_fleet` | pass | Do the two enforcers, the whitelist file and the publisher's watermark follow what was decided and announced? (`TypeOK`, `WhitelistedNotBlocked`, `WhitelistFollowsChanges`, `EnforcersAgree`, `NothingSkipped`, `TablesDisjoint`) |
| `v4_risk` | pass | Is every risk reported, do set and table agree, does a block last its time and then end, and do copies of an event prolong it? (`TypeOK`, `RiskReported`, `SetMatchesRows`, `BlockLasts`, `CopiesDoNotProlong`, `ExpiredBlockEnds`) |

Each property of a passing run has a mutant in its module (a definition next to
the one it replaces, commented "Mutant") with which TLC finds it violated.

### Bounds

- `AgentNode`: one address, since all state is per address except the order of
  the outbox, which `agent_outbox` covers with two rows, and the lists of
  `expire_blocks` and sync_state, where another address only adds time between
  two steps, which `Tick` gives already.  The clock reaches 2 with ttls 1
  (default) and 2 (above it, and equal to `IpsetMax`; sync entries carry any
  remaining time), so that rules and rows expire, are renewed, and are renewed
  shorter than before; one crash or reboot, one change of the node's own address.
  `agent_outbox` has two detections, pages of two and a crash.
- `ReplayGuard`: an event of a peer and one of the node, `MaxAge` 1, clock errors
  up to 2, the least retention that `RetentionAssumption` allows, and a clock that
  goes well past the instant at which an event is forgotten.
- `PeerIps`: two nodes that may be given the addresses {x, y} and {y, z}, two
  changes of address, one tick of the clock, which ends a retention of 1, and one
  crash: enough for a change and the change back, for an address that changes
  hands, and for a lost announcement between two others.
- `PortAllow`: two keys, four operations of the agent and one API request in any
  interleaving, targets "*", this node and another one, one crash or reboot.
- `LogTail`: four pieces, lines of up to two pieces, chunks of two, two inodes,
  two rotations and one crash: a line can be cut by a chunk's end, and an inode
  can return.
- `Detector`: one client, since no rule relates two; three logs; windows of 1 and
  thresholds of 2, so that a burst has a first signal that pruning must keep;
  passes that take up to one tick; a clock of 4, past the 2 windows a signal is
  kept; three lines, or two and a crash; reads of two lines, so that a third is left
  in a backlog, within a window or beyond it.  The requests hit each rule: an immediate
  path, a high-risk one, a scanner, an ignored path, missing and bad ones.
- `Grid`: the broker's node and one other, two addresses of which a sync lists
  one, ttl 2, `MaxAge` 1, a clock of 3, two events waiting per node; two requests
  and a fault, or a request and a detection, or a detection and a fault.  A block
  can be asked for, lifted, echoed, expire and be told late.
- `V4Fleet`: a public and a private address, two API threads, three timestamps; a
  command, a pass of the collector and a fault; two commands; two passes and a
  fault; three requests; two requests and a fault; a pass, a request and a fault; a
  command and a request.  Every pair of programs that shares something overlaps in
  one of them.  The third request can repair what two that overlapped left behind,
  the second what the first left that was cut off.  The API signs with another
  secret only in behaviours that have requests and faults.  The threads are
  symmetric: no action and no property (all are invariants) tells them apart.
  Longer behaviours, such as two commands with a pass of the collector, or three
  requests of which one is cut off, are left to the theorems.
- `V4Risk`: three addresses, one of them allowlisted, one ignored as well, ttl 2, a
  clock of 3; three lines in a call that goes on, two calls with two lines, a line
  with another node's event and a fault, or two foreign events and a fault.  The weights are those of `config.yaml`, the windows
  and thresholds small enough to be crossed both ways.

`CHECK_DEADLOCK FALSE` stands where a behaviour is at rest once its budget is used
up and the clock at its end (`PortAllow`, `Detector`, `Grid`, `V4Fleet`, `V4Risk`).

### Fairness

`FairSpec` of `AgentNode`: the main loop and paho's thread keep running (weak
fairness of their steps as a whole), systemd starts a dead agent
(`Restart=always`), and `expire_blocks`, due every 30 s of a loop that runs every
5 s, is not skipped for ever (strong fairness, since each cycle reaches the
choice anew).  `OnlineSpec` adds that a broker that is tried again and again
acknowledges in the end; only `agent_outbox` assumes it.  In `MCOnce` a pass goes
on to its end and the timer starts another one every minute (weak fairness of
`LogPass`, the `PassStep` of `LogTail`), while the writer, logrotate and crashes owe nothing.  `Grid`: agents
expire their rows, handle what the broker holds for them and send their state
every few minutes (weak fairness of `Expire`, `Handle`, `SendSync`).  `V4Risk`:
whoever looks up, marks or applies an event goes on, and the scheduler comes round.  No fairness is
assumed of deliveries, detections, requests, faults or the clock.

## 4. What the checks found

- `agent_local_first`: `pump_outbox` enforces a row, then publishes it, and
  leaves the loop at the first failed publish (`agent.py:358-361`).  With the
  broker down the first pending detection is enforced and all later ones wait.
- `grid_unblock`: the API marks its own events seen (`api.py:93-95`) in the
  database it shares with the agent of the broker's node, but has applied nothing
  itself.  That agent drops them as duplicates, so a block, unblock or allowlist
  command never takes effect on that node, and its next sync tells the block to
  the others again.
- `log_rotation`: `read_new_lines` stats and opens the path only
  (`logtail.py:21,39`), so lines written after the last pass and before a rotation
  go unread with the old file, although README-v5.md:51-52 says that a rotation
  causes no loss.  `excused` records them, and `NothingSkipped` and `LineIsScored`
  are about all other lines.

Seen in the models and excused there by a recorded cause; they are what the
properties had to be weakened by, and each is worth a look:

- `allow_add` between `Guard.check` and `Firewall.block` of the other thread
  leaves an allowlisted address blocked until its row expires; `reconcile`
  re-installs live rows without asking the guard (`agent.py:406-408`);
- `expire_blocks` and a renewal of the same address leave a rule without row (for
  ever, with iptables) or a row without rule (until the next start: sync_state
  skips addresses with an active row);
- a peer address that changes hands can lose its protection (`evicted`); two
  rebuilds of the guard that cross leave a peer's new address out of it until the
  next rebuild;
- a removed port exception takes the rule of its sibling row with it; exceptions
  for IPv6 addresses never use `ip6tables`;
- the lines of a pass that dies after saving its offset are never read again; a
  pass that dies has told nobody whom it flagged;
- after more than 32 MB of new lines a log is read over several passes, and each
  pass prunes by its own clock: the combined-format lines at the end of a long
  backlog may find the signals before them gone (`detect.py:331`,
  `logtail.py:16`);
- an offender whose block is over but not reaped is not reported
  (`detect.py:315`);
- v4: `ipset del` runs with `check=False` and the row goes whatever it answers
  (`enforcer.py:57`); after a reboot an active row only gets a new end, and the
  set stays empty for it; a row with a timestamp at or below the watermark is never
  published (an operator's row too, when its time was read before a batch and it is
  committed after it); the whitelist file can be torn or lose a change when two
  programs write it, and has that address wrong until its next change is saved alone;
  a request of the API that ends between the two statements of `whitelist_add`
  (`api.py:347`, `352-354`) leaves the address in both tables, where no block of it is
  accepted and nothing lifts the one that is there, until another request for it; the
  API signs with another variable than the enforcers check (`api.py:104`,
  `7-iptables-agent.py:186`).

## 5. Proofs

TLC shows these on small instances; the theorems hold for every value of the
constants that satisfies the module's assumption.  Each is proved from an
invariant that is inductive, with a lemma per action.

The first part of `OnceProofs`, under `ConstantsAssumption` and `RetentionAssumption`
(`Retention >= 2 * MaxAge + Spread`; the defaults are 14 days and 300 s, so a row
may be retried for almost 14 days):

- `ReplayInvariance`: `ReplayInv` is inductive.  `NoReplay` alone is not: a step
  that accepts an event must know that a spent event is either still marked or
  too old.  `Remembered` says so, with the distance between `seen_at` and the
  first `ts`, which is what makes pruning safe (`PrunedIsTooLate`);
  `WireInSpread` bounds the `ts` of every copy, so that a forgotten event is
  stale in each of them (`AcceptedIsNew`); `SentFirst` and `ClaimInProgress` tie
  the counters to what was sent.
- `TypeInvariance`, `NoReplayHolds`: its consequences.
- `ReplayGuardImplements`: every step is a step of `AtMostOnce` or a stutter.

The second part of `OnceProofs`, about `LogTail` for any chunk size, longest line,
inodes and bounds, under `TailAssumption` (a line fits into a chunk):

- `TailInv` is inductive.  `ScoredOnceInOrder` and `NothingSkipped` alone are not: a
  pass that scores must know that what it read begins where everything before is
  settled.  `FileInv` and `ChunkInv` give the shape of a file and of the part of it
  that was read: lines follow each other without gap, each from its first piece to
  its newline (`Shaped`).  `Resumable` says what a good offset is: every line that
  begins before it is accounted for (scored, about to be, or excused), every line
  that begins behind it is newer than all that was taken.  `OffsetsSound` says it of
  the saved offset while its file is at the path, and of the pass's; `ChunkSound`
  that a chunk is the part of the file behind the offset, or older than the file
  that replaced it, and that a line whose beginning it lacks is accounted for;
  `NothingLost` that what is not accounted for is still there to be read, and newer
  than all that was taken.  Once `raced` is set only the shapes are left: the offset
  of one file is then used in another.
- A line that ends in a chunk and begins in it is scored; that the lines of a chunk
  are all those between its first beginning and its last newline takes no induction,
  but the least and the greatest number of a set (`LeastOf`, `GreatestOf`).
- `ScoredOnceInOrderHolds`, `NothingSkippedHolds`, `TailTypeInvariance`: its
  consequences.

`AgentNodeProofs`, under `ConstantsAssumption`:

- `AgentInvariance`: `AgentInv`, which is `TypeOK` and `FeedInv`, is inductive.
  `AppliedBeforeSent` and `FeedHasNoGap` alone are not: a step that publishes the
  head of the page must know that it was marked applied before, and that no earlier
  row is missing, hence that the page is a prefix of what is unpublished
  (`PageIsPrefix`), in the order of the table and without gap (`PageHasNoGap`).
  `FeedInv` says how far the head of the page got at each label of `pump_outbox`;
  the other thread and all other labels leave the feed alone.
- `TypeInvariance`, `LocalBeforeGrid`, `FeedIsGapless`: its consequences.

The second part of `AgentNodeProofs`, on top of the first:

- `RulesInvariance`: `RulesInv` speaks of every address, also while a thread works
  on it.  `RuleIsDue`: a present rule has its row or a thread is about to write it,
  and ends no later than that row will; what a thread is about to unblock or reap
  has lost its rule.  `RowIsServed` is the converse.  `ExemptIsSpared`: while its
  handler works on an address of the allowlist, guard, rule and row follow each other
  in that order, and no thread is past the guard with the address.  Nothing of this
  survives two threads at work on an address, so each part holds until the causes
  record an overlap; until then a thread is alone (`Alone`), and a step is either
  quiet for the address or the step of its only worker (`QuietStep`, `LoudStep`).
- `RuleHasRowHolds`, `RowHasRuleHolds`, `RuleEndsWithRowHolds`,
  `AllowlistedNotEnforcedHolds`: its consequences for addresses nobody works on.

The proof asks for a cause the runs do not: a failed unblock of an address that has
no rule but still has a row leaves the row, and after a restart `reconcile`, which
asks no guard, installs a rule for an address of the allowlist.  That takes two
crashes, one more than `MaxCrashes` of the run.

`PeerIpsProofs`, under `PeerAssumption`: `PeerInv` is `TypeOK` and three facts
about what is under way.  `ChangesOnly`: an ip_change always names two different
addresses, in a thread's locals and on the wire, so retiring the old one never
touches the new.  `ClaimHeld`: between its claim and its retirement a handler's new
address stays active.  `ToldHeld`: whoever m is, the address n last heard from it
has an active row at n, m's or another's.  The last gives `PeerAddressKept`; it
needs `evicted` exactly where rows of another node are retired.
`ProtectionEndsByTimeHolds` is an action property: no step but `Tick` takes an
address out of what `peer_ip_protected_set` returns.  The other three invariants
stand on `PeerInv`.  `GuardInv`, for `GuardCoversPeers`: unless two rebuilds
crossed, a thread that has read the table will assign a guard as good as the one it
replaces, since the handler alone makes rows of other nodes active.  `BeenInv`:
whatever anybody keeps, handles or sends of a node is an address that node had, so
an event of one node leaves the rows alone of a node whose addresses are its own
(`HandlerForeign`).  `OwnInv`, for `OneOwnAddress`: such a node has one active row
where main rests and the old address, the new one or both inside a change.
`ChainInv`, for `StaleAddressRetires`: what n heard of m, what waits on the wire and
what m works on are one chain, each change starting where the one before ended, as
long as n lost nothing of m; of m's rows n keeps the last link it heard
(`AnnounceLinks` adds a link, `ClaimChain` and `HandledChain` take one over, a crash
that loses one is a gap).

`PortAllowProofs`: `RuleHasRow` and `RowHasRule` speak of keys nobody works on, the
invariant of the ones somebody does.  `RuleIsDue`: a rule without row has a worker
that is about to remove it, and only what has a row is being added.  `RowIsServed`:
the same the other way round.  Neither survives two workers on a key, and that is
what the causes record, so each action guarantees its part for its own worker
(`RuleGuarantee`, `RowGuarantee`) and `WorkerStep` puts them together.

`DetectorProofs`, under `DetectorAssumption` (a pass takes no longer than the
longest window, a read takes a line at least): `Forgotten` says that what the table
no longer has was two windows old when a pass pruned; `OnlyBacklogStale` that a line
still to be handled, in the batch or in the unread part of a log, is newer than one
window before that instant, unless a capped read left it in a backlog.  So a line
that is not `LeftBehind` needs nothing that was forgotten.  The second holds
because what a running pass left unread was written while it ran, or was beyond the
cap (`UnreadIsNew`): that is why rows are kept for two windows and not one.
`Flagged` ties who is due to who was flagged; `OneLog` says that the batch and the
open transaction belong to one log.

`GridProofs`, under `GridAssumption`: for `BlocksEnd`, `InboxesSound` bounds every
event and every entry of a sync that waits anywhere by what was asked for.  For
`UnblockHolds`, `LiftsStand`: behind every event in an inbox that would block a
lifted address waits one that lifts it.  So an order of arrival is part of the
invariant, and an echo or a miss what breaks it.

`V4FleetProofs`, under `CommonAssumption` (addresses finite in number, since a
batch is a sequence of them, and a clock bound the budgets fit in).  Four
invariants stand on `TypeOK` and on each other's causes:

- `ListsInv`, for `NothingSkipped`: `BatchComplete` says that the batch under way
  holds every row between the watermark and its last row, late ones aside, and
  `BatchShape` that it is sorted past the watermark and published from the front.
  So the watermark may move to a row that is published, and nowhere else.  That a
  command or a pass has a timestamp left is `ClockInv`.
- `TablesInv`, for `TablesDisjoint`: one request at most works on a settled address;
  a blocking one found it outside the allowlist, an allowing one will lift the block.
- `WhitelistInv`, for the two properties of the file, address by address as long as
  it is not in `raced`.  `ChangeArrives`: the last announced change of an address is
  in the agent's queue, in its hands, or in what the file says once it is filled.
  `ReleaseDue`: an exempt address with a rule has an add under way.  `FileInv`: unless
  all addresses may be wrong, the file is invalid exactly while one program fills it,
  and nobody else is in it.
- `AgreeInv`, for `EnforcersAgree`: `WillDrop` is what a host will do when it has
  handled its queue, by the last order about an address that waits there, else the
  one in its hands, else its chain.  Hosts that missed nothing will do the same; an
  appended order decides for both (`LastAppendHit`), taking one changes nothing of
  what will be (`LastTail`).  `OneSided` is about what only the listener can check:
  the agent has missed such an address for good, so nothing is promised of it.

`V4RiskProofs`, under `RiskAssumption` and `ScorerAssumption` (windows and debounce
are no negative times): `RiskInv` carries both halves of
`SetMatchesRows` through the steps of three processes (`RowsInSet`, `SetHasRows`),
what the scheduler and the appliers may rely on while they work
(`LiftedAreOver`, `LiftedAreOut`, `AppliersSeeSet`), that overlaps are on record
(`OverlapsNoted`), that a promised end is in the table or being asked for
(`PromisesKept`, `PromisesGrow`).  `NoCopies` is the argument for
`CopiesDoNotProlong`: what was let pass is marked, what is being looked up was not,
and whoever is to write a row asks for no more than is justified.  `CallInv` is the scorer's part, for `RiskReported`, which compares
deques that are pruned as they go with the whole history of the call.
`DequesCount`: the deque of an address and a rule holds times of their signals, each
once and in order, and among them all that are in the window of the last line
(`Counts`, with the function from places in the deque to places in the history as
its witness).  Times do not go back (`Sorted`), so what a later `popleft` drops was
out of every later window too, and once the front is in the window the length of
the deque is the count in the history (`CountsPruned`).  `LastReport` ties
`last_emit` to the marks in the history; `Reports` speaks of any history, so that a
signal that is added leaves the earlier verdicts alone (`OldSignals`).  The front
that stays exists by `LeastOf`, the least number of a set, which needs no induction
theorem: the strict subsets of a finite set are well-founded.  An ignored
address has entries in the history and none in the deques, so `DequesCount` speaks
of the others (`SkipKeepsCall`, `CountKeepsCall`).  For the types, `Bounded` says
that whoever is about to fill the set found the address outside the allowlist.

Model-checked only: liveness (`DetectionReachesGrid`, `ExpiredBlockEnds` of both
versions, `LineIsScored`, `BlockSpreads`), which the prover does not do.  Every
invariant and every action property that a passing run checks is stated by a theorem.

## 6. Not modelled

Message formats and signatures (a bad message changes nothing); the decisions
audit table, which nothing reads, and `geo_cache`, display data, with the geo
enricher's claims that save requests to an outside service; SQLite errors in the
middle of a handler (they end like a crash of that handler, which `ReplayGuard`
covers with `Abandon`); the limiter's window, of which only the verdict matters
(`CheckGuard` may refuse any address); the configuration, whose values are the
constants; the desktop tools and the dashboard, which display; installation; the
v4 scripts that read files and print.  Of modelled parts: heartbeat and node_offline
events, which change no state; the DROP rules of protected ports, installed once at
start; the creation of sets and chains; the API's authentication, its limit on
writes and its read-only requests; the audit tables and option parsing of v4.
A commit of the v4 API that raises leaves its change pending on the connection all
threads share, and the next commit takes it along; the models end such a request
before the statement or after it.  Two branches of `pump_outbox` have no input: the
detector is the only program that fills the outbox (`detect.py:321`) and adds only
valid events of kind block, so the unblock of a row (`agent.py:347-348`) and the row
with corrupt JSON (`state.py:232-234`) never come up.

## 7. What is left

An abstract fleet-wide blocklist that `Grid` refines up to its recorded misses;
`GeoClaims`, should the enricher ever feed more than a display; the sliding window
of the rate limiter with its clock read before the lock.
