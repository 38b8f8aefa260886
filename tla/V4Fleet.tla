------------------------------- MODULE V4Fleet -------------------------------
(***************************************************************************)
(* A version 4 fleet: a client host that decides (V4Lists) and enforces,   *)
(* the border host with its listener (V4Enforcers) and its API (V4Border), *)
(* and one topic between them.                                             *)
(***************************************************************************)
EXTENDS V4Lists, V4Enforcers, V4Border

vars == <<commonVars, listVars, enforcerVars, borderVars>>

Init == CommonInit /\ ListsInit /\ EnforcersInit /\ BorderInit

TypeOK == CommonTypeOK /\ ListsTypeOK /\ EnforcersTypeOK /\ BorderTypeOK

\* The programs of cron, of the operator and the API end with their host: they
\* die first (MgrDies, ColFails, ShipFails, CutOff), then the chain is gone.
Reboot(e) ==
    /\ e = "agent" => mgr.pc = "idle" /\ col.pc = "idle" /\ ship.pc = "idle"
    /\ e = "listener" => \A t \in Threads : req[t].pc = "idle"
    /\ HostReboots(e)

EnforcerStep ==
    \/ Agent
    \/ ListenerHandles
    \/ \E e \in Enforcers : EnforcerDies(e) \/ Reboot(e) \/ EnforcerStarts(e)

Next ==
    \/ (Manager \/ Collector \/ Shipper) /\ UNCHANGED <<enforcerVars, borderVars>>
    \/ EnforcerStep /\ UNCHANGED <<listVars, borderVars>>
    \/ Border /\ UNCHANGED <<listVars, enforcerVars>>

Spec == Init /\ [][Next]_vars

-----------------------------------------------------------------------------
\* A message about ip is under way to e, or e is at work on one.
UnderWay(e, ip) == ~online[e] \/ ip \in InHand(e)

\* The host of the agent does not drop an address of its whitelist
\* (7-iptables-agent: "ip is whitelisted; block denied", and the unblock after
\* a whitelist_change), except while a command or a message about the address
\* is at work, after one was missed or its iptables command failed, and while
\* the file may have the address wrong (raced).
WhitelistedNotBlocked ==
    \A ip \in Ips :
        /\ whitelist.valid /\ ip \in whitelist.ips \ raced
        /\ ip \in rules["agent"]
        => \/ mgr.pc # "idle" /\ mgr.ip = ip
           \/ UnderWay("agent", ip)
           \/ ip \in missed["agent"] \cup skipped["agent"]

\* The file says of an address what its last announced change said, although
\* the agent and the operator's command each rewrite the whole of it from a
\* copy.  A stale copy is saved (nothing prevents it), but does harm only to
\* the addresses that were changed since it was loaded; and whatever a save,
\* two at a time or a death in one did to an address, its next change repairs
\* when it is saved alone.
WhitelistFollowsChanges ==
    \A ip \in Ips \ raced :
        /\ whitelist.valid
        /\ ~(mgr.pc # "idle" /\ mgr.ip = ip)
        /\ ~UnderWay("agent", ip) /\ ip \notin missed["agent"]
        => (ip \in whitelist.ips <=> ip \in listed)

\* The two enforcers hear one topic in one order, so they drop the same
\* addresses once they have nothing left to handle, but for an address whose
\* last message one of them missed, refused or failed to carry out.
EnforcersAgree ==
    \A ip \in Ips :
        (\A e \in Enforcers : /\ ~UnderWay(e, ip)
                              /\ ip \notin missed[e] \cup skipped[e])
        => (ip \in rules["agent"] <=> ip \in rules["listener"])

\* The watermark of 6-block-ips passes no row it did not publish, whatever
\* fails in the middle of a batch, but for a row that was written with an
\* older timestamp than one already taken up.
NothingSkipped ==
    \A ip \in Ips :
        table[ip].action = "block" /\ table[ip].ts <= watermark
        => <<ip, table[ip].ts>> \in shipped \cup late

\* The API's two tables are disjoint (409 for a block of an allowlisted address,
\* the unblock in whitelist_add), but while a request is at work on them.  When
\* requests for an address overlapped, or an allowing one ended between its two
\* statements, the address may stay in both; then the next request for it that
\* runs alone repairs it, a block excepted, which is refused.
TablesDisjoint ==
    \A ip \in (blocks \cap allowlist) \ unsettled :
        \E t \in Threads : InTables(t, ip)
=============================================================================
