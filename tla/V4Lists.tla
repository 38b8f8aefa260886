------------------------------- MODULE V4Lists -------------------------------
(***************************************************************************)
(* The programs of a version 4 client host that decide: the operator's     *)
(* 8-manage-ip-lists, the collector 3-collect-malicious-access (cron) and  *)
(* the publisher 6-block-ips (cron, one instance at a time), over the      *)
(* table blocked_ips of one database and a file with the timestamp of the  *)
(* last row that was published.                                            *)
(***************************************************************************)
EXTENDS V4Common, SequencesExt

VARIABLES
    table,          \* blocked_ips: at most one row per address
    clock,          \* the last timestamp a program of the host took
    mgr,            \* the running 8-manage-ip-lists
    col,            \* the running 3-collect-malicious-access
    ship,           \* the running 6-block-ips
    watermark,      \* the file .mqtt_last_published_ts, 0 if there is none
    shipped,        \* ghost: rows 6-block-ips published, as <<ip, timestamp>>
    late            \* ghost: rows written at or below the watermark

listVars == <<table, clock, mgr, col, ship, watermark, shipped, late>>

NoRow == [action |-> "none", ts |-> 0]
Commands == {"blacklist", "whitelist", "remove"}

MgrIdle == [pc |-> "idle", cmd |-> "remove", ip |-> CHOOSE ip \in Ips : TRUE,
            wl |-> {}, now |-> 0]
ColIdle == [pc |-> "idle", now |-> 0, ips |-> {}]
ShipIdle == [pc |-> "idle", rows |-> <<>>, published |-> 0]

Rows == Ips \X (1..MaxClock)

ListsTypeOK ==
    /\ table \in [Ips -> [action: {"none", "block", "unblock"}, ts: 0..MaxClock]]
    /\ clock \in 0..MaxClock
    /\ mgr \in [pc: {"idle", "truncate", "fill", "row", "upsert", "list", "change"},
                cmd: Commands, ip: Ips, wl: SUBSET Ips, now: 0..MaxClock]
    /\ col \in [pc: {"idle", "write"}, now: 0..MaxClock, ips: SUBSET Ips]
    /\ ship \in [pc: {"idle", "publish", "save"}, rows: Seq(Rows),
                 published: Nat]
    /\ watermark \in 0..MaxClock
    /\ shipped \in SUBSET Rows
    /\ late \in SUBSET Rows

ListsInit ==
    /\ table = [ip \in Ips |-> NoRow]
    /\ clock = 0
    /\ mgr = MgrIdle
    /\ col = ColIdle
    /\ ship = ShipIdle
    /\ watermark = 0
    /\ shipped = {}
    /\ late = {}

\* A row written when the publisher has passed its timestamp already.
Horizon == IF ship.pc = "idle" THEN watermark ELSE ship.rows[Len(ship.rows)][2]
NoteLate(rows) == late' = late \cup {r \in rows : r[2] <= Horizon}

-----------------------------------------------------------------------------
\* 8-manage-ip-lists: cmd_blacklist, cmd_whitelist and cmd_remove have the same
\* shape: the whitelist, the table, a whitelist_change and a blocked_ip_change.

MgrStart(cmd, ip) ==
    /\ mgr.pc = "idle"
    /\ Spend("commands")
    /\ NoteLoad(ip)
    /\ mgr' = [MgrIdle EXCEPT !.pc = "truncate", !.cmd = cmd, !.ip = ip,
                              !.wl = LoadWhitelist]
    /\ UNCHANGED <<busVars, table, clock, col, ship, watermark, shipped, late>>

MgrTruncate ==
    /\ mgr.pc = "truncate"
    /\ TruncateWhitelist("mgr", mgr.wl)
    /\ mgr' = [mgr EXCEPT !.pc = "fill"]
    /\ UNCHANGED <<busVars, left, table, clock, col,
                   ship, watermark, shipped, late>>

MgrList == IF mgr.cmd = "whitelist" THEN mgr.wl \cup {mgr.ip}
                                    ELSE mgr.wl \ {mgr.ip}

MgrFill ==
    /\ mgr.pc = "fill"
    /\ FillWhitelist("mgr", MgrList, mgr.ip)
    /\ mgr' = [mgr EXCEPT !.pc = "row"]
    /\ UNCHANGED <<busVars, left, table, clock, col,
                   ship, watermark, shipped, late>>

\* upsert_blocked_ip reads the time first and commits the row with it later.
MgrReadsClock ==
    /\ mgr.pc = "row" /\ mgr.cmd # "remove"
    /\ clock' = clock + 1
    /\ mgr' = [mgr EXCEPT !.pc = "upsert", !.now = clock + 1]
    /\ UNCHANGED <<commonVars, table, col, ship, watermark, shipped, late>>

\* The row gets a new timestamp, so that the publisher takes it up again.
MgrUpsert ==
    /\ mgr.pc = "upsert"
    /\ mgr' = [mgr EXCEPT !.pc = "list"]
    /\ table' = [table EXCEPT ![mgr.ip] =
         [action |-> IF mgr.cmd = "blacklist" THEN "block" ELSE "unblock",
          ts |-> mgr.now]]
    /\ NoteLate({<<mgr.ip, mgr.now>>})
    /\ UNCHANGED <<commonVars, clock, col, ship, watermark, shipped>>

\* Mutant: the row is marked instead of deleted.
MgrDelete_marks ==
    /\ mgr.pc = "row" /\ mgr.cmd = "remove"
    /\ mgr' = [mgr EXCEPT !.pc = "list"]
    /\ table' = [table EXCEPT ![mgr.ip].action = "remove"]
    /\ UNCHANGED <<busVars, fileVars, left, clock, col, ship, watermark,
                   shipped, late>>

\* remove_from_blocked
MgrDelete ==
    /\ mgr.pc = "row" /\ mgr.cmd = "remove"
    /\ mgr' = [mgr EXCEPT !.pc = "list"]
    /\ table' = [table EXCEPT ![mgr.ip] = NoRow]
    /\ UNCHANGED <<busVars, fileVars, left, clock, col, ship, watermark,
                   shipped, late>>

MgrMessage ==
    [kind |-> IF mgr.pc = "list"
              THEN IF mgr.cmd = "whitelist" THEN "add" ELSE "remove"
              ELSE IF mgr.cmd = "blacklist" THEN "block" ELSE "unblock",
     ip |-> mgr.ip,
     signed |-> "all"]

AfterPublish == IF mgr.pc = "list" THEN [mgr EXCEPT !.pc = "change"] ELSE MgrIdle

\* publish_whitelist_change, then publish_change: an error the client reports
\* is only logged, an exception of connect() ends the program.
MgrPublish ==
    /\ mgr.pc \in {"list", "change"}
    /\ \/ /\ Publish(MgrMessage)
          /\ mgr' = AfterPublish
          /\ UNCHANGED left
       \/ /\ Fault
          /\ PublishLost({mgr.ip})
          /\ mgr' \in {AfterPublish, MgrIdle}
    /\ UNCHANGED <<fileVars, table, clock, col, ship,
                   watermark, shipped, late>>

\* The operator interrupts the command.
MgrDies ==
    /\ mgr.pc \in {"fill", "row", "upsert"}
    /\ Fault
    /\ PublishLost({mgr.ip})
    /\ AbandonWhitelist("mgr")
    /\ mgr' = MgrIdle
    /\ UNCHANGED <<table, clock, col, ship, watermark, shipped, late>>

Manager ==
    \/ \E cmd \in Commands, ip \in Ips : MgrStart(cmd, ip)
    \/ MgrTruncate \/ MgrFill \/ MgrReadsClock \/ MgrUpsert \/ MgrDelete
    \/ MgrPublish \/ MgrDies

-----------------------------------------------------------------------------
\* 3-collect-malicious-access: upsert_ips takes one timestamp for the pass,
\* then writes and commits every row.  Nothing keeps two passes, or a pass
\* and a command of the operator, from overlapping.

ColStart(ips) ==
    /\ col.pc = "idle"
    /\ Spend("collects")
    /\ clock' = clock + 1
    /\ col' = [pc |-> "write", now |-> clock + 1, ips |-> ips]
    /\ UNCHANGED <<busVars, fileVars, table, mgr, ship, watermark, shipped, late>>

\* A row that is there keeps its action and its timestamp: only its reason grows.
NewIps == {ip \in col.ips : table[ip] = NoRow}

ColWrite ==
    /\ col.pc = "write"
    /\ table' = [ip \in Ips |-> IF ip \in NewIps
                                THEN [action |-> "block", ts |-> col.now]
                                ELSE table[ip]]
    /\ NoteLate({<<ip, col.now>> : ip \in NewIps})
    /\ col' = ColIdle
    /\ UNCHANGED <<commonVars, clock, mgr, ship, watermark,
                   shipped>>

\* The pass ends before its commit: SQLite rolls its rows back.
ColFails ==
    /\ col.pc = "write"
    /\ Fault
    /\ col' = ColIdle
    /\ UNCHANGED <<busVars, fileVars, table, clock, mgr,
                   ship, watermark, shipped, late>>

Collector ==
    \/ \E ips \in (SUBSET Ips) \ {{}} : ColStart(ips)
    \/ ColWrite \/ ColFails

-----------------------------------------------------------------------------
\* 6-block-ips: the rows with action block above the watermark, oldest first,
\* behind a heartbeat.  A publish that fails ends the program with the
\* watermark as it was; the whole batch is sent again by a later run.

PendingIps ==
    {ip \in Ips : table[ip].action = "block" /\ table[ip].ts > watermark}

\* ORDER BY timestamp ASC; the rows of one pass of the collector have the same.
InOrder(rows) == \A i, j \in DOMAIN rows : i < j => rows[i][2] <= rows[j][2]

ShipStart ==
    /\ ship.pc = "idle"
    /\ PendingIps # {}
    /\ \E rows \in SetToSeqs({<<ip, table[ip].ts>> : ip \in PendingIps}) :
         /\ InOrder(rows)
         /\ ship' = [pc |-> "publish", rows |-> rows, published |-> 1]
    /\ UNCHANGED <<commonVars, table, clock, mgr, col,
                   watermark, shipped, late>>

ShipRow == ship.rows[ship.published]

ShipPublish ==
    /\ ship.pc = "publish"
    /\ Publish([kind |-> "block", ip |-> ShipRow[1], signed |-> "all"])
    /\ shipped' = shipped \cup {ShipRow}
    /\ ship' = [ship EXCEPT
         !.published = @ + 1,
         !.pc = IF ship.published = Len(ship.rows) THEN "save" ELSE "publish"]
    /\ UNCHANGED <<fileVars, left, table, clock, mgr, col, watermark, late>>

\* Mutant: the newest row of the batch is saved although the batch broke off.
ShipFails_saves ==
    /\ ship.pc = "publish"
    /\ Fault
    /\ watermark' = Horizon
    /\ ship' = ShipIdle
    /\ UNCHANGED <<busVars, fileVars, table, clock, mgr, col, shipped, late>>

ShipFails ==
    /\ ship.pc = "publish"
    /\ Fault
    /\ ship' = ShipIdle
    /\ UNCHANGED <<busVars, fileVars, table, clock, mgr, col, watermark, shipped, late>>

\* published counts the heartbeat, the rows do not.
Newest == ship.rows[ship.published - 1][2]

ShipSave ==
    /\ ship.pc = "save"
    /\ watermark' = Newest
    /\ ship' = ShipIdle
    /\ UNCHANGED <<commonVars, table, clock, mgr, col,
                   shipped, late>>

Shipper == ShipStart \/ ShipPublish \/ ShipFails \/ ShipSave
=============================================================================
