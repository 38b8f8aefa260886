------------------------------ MODULE V4Border ------------------------------
(***************************************************************************)
(* The version 4 border API (security-v4/api): two tables in one database, *)
(* and the messages that announce what was written to them.  FastAPI runs  *)
(* the endpoints in a pool of threads, so requests overlap between two     *)
(* statements.  A write is committed before it is published, and stays     *)
(* when the publish fails, an exception ends the request or the API dies.  *)
(***************************************************************************)
EXTENDS V4Common

CONSTANT Threads    \* the threads of the pool

VARIABLES
    blocks,         \* the table blocks
    allowlist,      \* the table allowlist
    req,            \* the request each thread works on
    apiSigns,       \* does the API find the secret the enforcers check with
    unsettled       \* ghost: addresses with requests that overlapped in the
                    \* tables, or one that ended in between, and since then
                    \* none that had them alone and took the address out of one

borderVars == <<blocks, allowlist, req, apiSigns, unsettled>>

Operations == {"block", "unblock", "add", "remove"}

ReqIdle == [pc |-> "idle", op |-> "block", ip |-> CHOOSE ip \in Ips : TRUE]

BorderTypeOK ==
    /\ blocks \in SUBSET Ips
    /\ allowlist \in SUBSET Ips
    /\ req \in [Threads -> [pc: {"idle", "write", "lift", "lifted", "publish"},
                            op: Operations, ip: Ips]]
    /\ apiSigns \in Secrets
    /\ unsettled \in SUBSET Ips

\* The enforcers look for the secret in AUTH_MONITOR_EVENT_HMAC when the shared
\* configuration names no variable, the API in SECURITY_EVENT_HMAC; the listener
\* may have that one in its list.  Bound: in behaviours that may have faults.
BorderInit ==
    /\ blocks = {}
    /\ allowlist = {}
    /\ req = [t \in Threads |-> ReqIdle]
    /\ apiSigns \in IF left.requests > 0 /\ left.faults > 0 THEN Secrets ELSE {"all"}
    /\ unsettled = {}

Step(t, pc) == req' = [req EXCEPT ![t] = IF pc = "idle" THEN ReqIdle
                                         ELSE [@ EXCEPT !.pc = pc]]

\* t has statements left that change the tables for ip.
InTables(t, ip) == req[t].pc \in {"write", "lift"} /\ req[t].ip = ip

\* The statement of t that takes its address out of a table.
Settles(t) == unsettled' = IF \E u \in Threads \ {t} : InTables(u, req[t].ip)
                           THEN unsettled ELSE unsettled \ {req[t].ip}

Request(t, op, ip) ==
    /\ req[t].pc = "idle"
    /\ Spend("requests")
    \* block: 409 for an address of the allowlist
    /\ IF op = "block" /\ ip \in allowlist
       THEN UNCHANGED <<req, unsettled>>
       ELSE /\ req' = [req EXCEPT ![t] = [pc |-> "write", op |-> op, ip |-> ip]]
            /\ unsettled' = IF \E u \in Threads : InTables(u, ip)
                            THEN unsettled \cup {ip} ELSE unsettled
    /\ UNCHANGED <<busVars, fileVars, blocks, allowlist, apiSigns>>

Write(t) ==
    /\ req[t].pc = "write"
    /\ LET ip == req[t].ip
           op == req[t].op
       IN /\ blocks' = CASE op = "block" -> blocks \cup {ip}
                         [] op = "unblock" -> blocks \ {ip}
                         [] OTHER -> blocks
          /\ allowlist' = CASE op = "add" -> allowlist \cup {ip}
                            [] op = "remove" -> allowlist \ {ip}
                            [] OTHER -> allowlist
          /\ Step(t, IF op = "add" THEN "lift" ELSE "publish")
          /\ IF op \in {"unblock", "remove"} THEN Settles(t)
             ELSE UNCHANGED unsettled
    /\ UNCHANGED <<commonVars, apiSigns>>

\* Mutant: the block is announced as lifted, its row stays.
Lift_keeps_row(t) ==
    /\ req[t].pc = "lift"
    /\ Step(t, IF req[t].ip \in blocks THEN "lifted" ELSE "publish")
    /\ Settles(t)
    /\ UNCHANGED <<commonVars, blocks, allowlist, apiSigns>>

\* whitelist_add: an address that is blocked is unblocked first.
Lift(t) ==
    /\ req[t].pc = "lift"
    /\ blocks' = blocks \ {req[t].ip}
    /\ Step(t, IF req[t].ip \in blocks THEN "lifted" ELSE "publish")
    /\ Settles(t)
    /\ UNCHANGED <<commonVars, allowlist, apiSigns>>

\* _publish: an exception answers 503 and drops what is left to announce; the
\* result of the five seconds' wait for the broker is not looked at.
Announce(t) ==
    /\ req[t].pc \in {"lifted", "publish"}
    /\ LET ip == req[t].ip
           next == IF req[t].pc = "lifted" THEN "publish" ELSE "idle"
           kind == IF req[t].pc = "lifted" THEN "unblock" ELSE req[t].op
       IN \/ /\ Publish([kind |-> kind, ip |-> ip, signed |-> apiSigns])
             /\ Step(t, next)
             /\ UNCHANGED left
          \/ /\ Fault
             /\ PublishLost({ip})
             /\ \E pc \in {next, "idle"} : Step(t, pc)
    /\ UNCHANGED <<fileVars, blocks, allowlist, apiSigns, unsettled>>

\* The requests of ts end where they are: a statement of one raises, or the API
\* dies with all of them.  What they committed stays, and nobody announces it.
Ending(ts, pcs) == {req[t].ip : t \in {u \in ts : req[u].pc \in pcs}}

CutOff(ts) ==
    /\ Fault
    /\ req' = [t \in Threads |-> IF t \in ts THEN ReqIdle ELSE req[t]]
    /\ PublishLost(Ending(ts, {"lift", "lifted", "publish"}))
    /\ unsettled' = unsettled \cup Ending(ts, {"lift"})
    /\ UNCHANGED <<fileVars, blocks, allowlist, apiSigns>>

Border ==
    \/ \E t \in Threads :
          \/ \E op \in Operations, ip \in Ips : Request(t, op, ip)
          \/ Write(t) \/ Lift(t) \/ Announce(t)
          \/ req[t].pc \in {"write", "lift"} /\ CutOff({t})
    \/ CutOff(Threads)
=============================================================================
