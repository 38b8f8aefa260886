--------------------------- MODULE PortAllowProofs ---------------------------
(***************************************************************************)
(* PortAllow for any keys, targets, concurrent requests, failures, crashes *)
(* and reboots: ACCEPT rules and rows of the table agree, but for the      *)
(* recorded causes.                                                        *)
(***************************************************************************)
EXTENDS PortAllow, TLAPS

\* What worker w is doing to key k.
Denying(w, k) == pc[w] \in {"find", "delete"} /\ key[w] = k
Adding(w, k) == pc[w] \in {"check", "insert"} /\ k \in list[w]
Granting(w, k) ==
    pc[w] = "start" \/ (pc[w] = "list" /\ key[w] = k) \/ Adding(w, k)

\* A rule without row is about to be removed, and only what has a row is added.
RuleIsDue(k) ==
    /\ ~Overlap(k)
    /\ accept[k] > 0 => HasRow(k) \/ \E w \in Workers : Denying(w, k)
    /\ \A w \in Workers : Adding(w, k) => HasRow(k)

\* A row without rule is about to get one, and only what has no row is denied.
RowIsServed(k) ==
    /\ ~Overlap(k)
    /\ HasRow(k) => accept[k] > 0 \/ \E w \in Workers : Granting(w, k)
    /\ \A w \in Workers : Denying(w, k) => ~HasRow(k)

PortInv ==
    /\ TypeOK
    /\ \A k \in Keys : /\ leakCause[k] \/ RuleIsDue(k)
                       /\ ~Running \/ missCause[k] \/ RowIsServed(k)

-----------------------------------------------------------------------------
(* Types.                                                                  *)

LEMMA CausesTypes ==
    ASSUME NEW leaked, NEW missed, Causes(leaked, missed)
    PROVE  /\ leakCause' \in [Keys -> BOOLEAN]
           /\ missCause' \in [Keys -> BOOLEAN]
BY Zenon DEF Causes

LEMMA RowOpsTypes ==
    ASSUME TypeOK, NEW w \in Workers, NEW k \in Keys, NEW target \in Targets,
           AddRow(w, target, k) \/ RemoveRow(w, target, k)
    PROVE  TypeOK'
<1> USE PortAssumption
<1>1. /\ leakCause' \in [Keys -> BOOLEAN] /\ missCause' \in [Keys -> BOOLEAN]
  <2>1. PICK leaked, missed : Causes(leaked, missed)
    BY Zenon DEF AddRow, RemoveRow
  <2> QED
    BY <2>1, CausesTypes
<1>2. CASE AddRow(w, target, k)
  BY <1>1, <1>2 DEF AddRow, TypeOK, Goto, worker
<1>3. CASE RemoveRow(w, target, k)
  BY <1>1, <1>3 DEF RemoveRow, TypeOK, Goto
<1> QED
  BY <1>2, <1>3

LEMMA ListTypes ==
    ASSUME TypeOK, NEW w \in Workers,
           ReadEntries(w) \/ Check(w) \/ Insert(w) \/ EndOfList(w)
    PROVE  TypeOK'
<1> USE PortAssumption
<1>1. /\ leakCause' \in [Keys -> BOOLEAN] /\ missCause' \in [Keys -> BOOLEAN]
  <2>1. PICK leaked, missed : Causes(leaked, missed)
    BY Zenon DEF ReadEntries, Check, Insert, EndOfList
  <2> QED
    BY <2>1, CausesTypes
<1>2. CASE ReadEntries(w)
  <2>1. Entries \subseteq Keys
    BY DEF Entries, Listed, TypeOK
  <2> QED
    BY <1>1, <1>2, <2>1 DEF ReadEntries, TypeOK, Goto
<1>3. CASE Check(w)
  BY <1>1, <1>3 DEF Check, TypeOK, Goto
<1>4. CASE Insert(w)
  BY <1>1, <1>4 DEF Insert, TypeOK, Goto
<1>5. CASE EndOfList(w)
  BY <1>1, <1>5 DEF EndOfList, Done, TypeOK, Goto
<1> QED
  BY <1>2, <1>3, <1>4, <1>5

LEMMA DenyTypes ==
    ASSUME TypeOK, NEW w \in Workers, Find(w) \/ Delete(w)
    PROVE  TypeOK'
<1> USE PortAssumption
<1>1. /\ leakCause' \in [Keys -> BOOLEAN] /\ missCause' \in [Keys -> BOOLEAN]
  <2>1. PICK leaked, missed : Causes(leaked, missed)
    BY Zenon DEF Find, Delete
  <2> QED
    BY <2>1, CausesTypes
<1>2. CASE Find(w)
  BY <1>1, <1>2 DEF Find, Done, TypeOK, Goto
<1>3. CASE Delete(w)
  BY <1>1, <1>3 DEF Delete, Done, TypeOK, Goto
<1> QED
  BY <1>2, <1>3

LEMMA StopTypes ==
    ASSUME TypeOK, Crash({"agent"}) \/ Crash(Requests) \/ Reboot \/ Start
    PROVE  TypeOK'
<1> USE PortAssumption
<1>1. ASSUME NEW ws, Crash(ws) PROVE TypeOK'
  <2>1. leakCause' \in [Keys -> BOOLEAN] /\ missCause' \in [Keys -> BOOLEAN]
    BY <1>1, CausesTypes DEF Crash
  <2> QED
    BY <1>1, <2>1 DEF Crash, Die, TypeOK
<1>2. CASE Reboot
  BY <1>2 DEF Reboot, Die, TypeOK
<1>3. CASE Start
  <2>1. leakCause' \in [Keys -> BOOLEAN] /\ missCause' \in [Keys -> BOOLEAN]
    BY <1>3, Zenon DEF Start, Overlap
  <2> QED
    BY <1>3, <2>1 DEF Start, TypeOK, Goto, Workers
<1> QED
  BY <1>1, <1>2, <1>3

-----------------------------------------------------------------------------
(* What a step of one worker has to guarantee about a key.                 *)

\* Whoever denies a key while another grants it puts it on record.
LEMMA Clash ==
    ASSUME NEW v \in Workers, NEW w \in Workers, v # w, NEW k \in Keys,
           Denying(v, k)', Granting(w, k)'
    PROVE  Overlap(k)'
BY DEF Denying, Granting, Adding, Overlap, Touching

LEMMA NotOnRecord ==
    ASSUME NEW k \in Keys, NEW leaked, NEW missed, Causes(leaked, missed)
    PROVE  /\ ~leakCause'[k] => ~leakCause[k] /\ k \notin leaked /\ ~Overlap(k)'
           /\ ~missCause'[k] => ~missCause[k] /\ k \notin missed /\ ~Overlap(k)'
<1> DEFINE now == Overlap(k)'
<1>1. leakCause'[k] = (leakCause[k] \/ k \in leaked \/ now)
  BY Zenon DEF Causes
<1>2. missCause'[k] = (missCause[k] \/ k \in missed \/ now)
  BY Zenon DEF Causes
<1> HIDE DEF now
<1>3. /\ ~leakCause'[k] => ~leakCause[k] /\ k \notin leaked /\ ~now
      /\ ~missCause'[k] => ~missCause[k] /\ k \notin missed /\ ~now
  BY <1>1, <1>2
<1> QED
  BY <1>3 DEF now

OthersStay(w) ==
    \A v \in Workers \ {w} :
        pc'[v] = pc[v] /\ key'[v] = key[v] /\ list'[v] = list[v]

\* The rule of k appears only with its row, the row goes only with a denial.
RuleGuarantee(w, k, leaked) ==
    /\ accept'[k] > 0 => \/ HasRow(k)' \/ Denying(w, k)' \/ Adding(w, k)
                         \/ k \in leaked
                         \/ accept[k] > 0 /\ ~Denying(w, k)
    /\ Adding(w, k)' => HasRow(k)' \/ Adding(w, k)
    /\ HasRow(k) => HasRow(k)' \/ Denying(w, k)'

\* The rule of k goes only with its row, the row appears only with a grant.
RowGuarantee(w, k, missed) ==
    /\ HasRow(k)' => \/ accept'[k] > 0 \/ Granting(w, k)' \/ Denying(w, k)
                     \/ k \in missed
                     \/ /\ HasRow(k) /\ ~Granting(w, k)
                        /\ accept[k] > 0 => accept'[k] > 0
    /\ Denying(w, k)' => ~HasRow(k)' \/ Denying(w, k) \/ k \in missed
    /\ HasRow(k)' => HasRow(k) \/ Granting(w, k)'

LEMMA WorkerStep ==
    ASSUME PortInv, TypeOK', NEW w \in Workers, pc[w] # "down", OthersStay(w),
           NEW k \in Keys, NEW leaked, NEW missed, Causes(leaked, missed),
           RuleGuarantee(w, k, leaked), RowGuarantee(w, k, missed)
    PROVE  /\ leakCause'[k] \/ RuleIsDue(k)'
           /\ ~Running' \/ missCause'[k] \/ RowIsServed(k)'
<1>1. \A v \in Workers \ {w} : /\ Denying(v, k)' <=> Denying(v, k)
                               /\ Adding(v, k)' <=> Adding(v, k)
                               /\ Granting(v, k)' <=> Granting(v, k)
  BY DEF OthersStay, Denying, Adding, Granting
<1>2. /\ ~(Denying(w, k)' /\ Granting(w, k)')
      /\ Adding(w, k)' => Granting(w, k)'
  BY DEF Denying, Adding, Granting
<1>3. Running' => Running
  BY DEF OthersStay, Running, Workers
<1>4. \A v \in Workers \ {w} : /\ Denying(w, k)' /\ Granting(v, k)' => Overlap(k)'
                               /\ Denying(v, k)' /\ Granting(w, k)' => Overlap(k)'
  BY Clash
<1>5. \A v \in Workers \ {w} : Adding(v, k)' => Granting(v, k)'
  BY DEF Granting
<1>6. ASSUME ~leakCause'[k] PROVE RuleIsDue(k)'
  <2>1. RuleIsDue(k) /\ k \notin leaked /\ ~Overlap(k)'
    BY <1>6, NotOnRecord DEF PortInv
  <2>2. HasRow(k)' \/ Denying(w, k)' \/ ~HasRow(k)
    BY DEF RuleGuarantee
  <2>3. accept'[k] > 0 => HasRow(k)' \/ \E v \in Workers : Denying(v, k)'
    BY <1>1, <2>1, <2>2 DEF RuleGuarantee, RuleIsDue
  <2>4. ASSUME NEW v \in Workers, Adding(v, k)' PROVE HasRow(k)'
    BY <1>1, <1>2, <1>4, <1>5, <2>1, <2>2, <2>4 DEF RuleGuarantee, RuleIsDue
  <2> QED
    BY <2>1, <2>3, <2>4 DEF RuleIsDue
<1>7. ASSUME Running', ~missCause'[k] PROVE RowIsServed(k)'
  <2>1. RowIsServed(k) /\ k \notin missed /\ ~Overlap(k)'
    BY <1>3, <1>7, NotOnRecord DEF PortInv
  <2>2. HasRow(k)' => HasRow(k) \/ Granting(w, k)'
    BY DEF RowGuarantee
  <2>3. HasRow(k)' => accept'[k] > 0 \/ \E v \in Workers : Granting(v, k)'
    BY <1>1, <2>1, <2>2 DEF RowGuarantee, RowIsServed
  <2>4. ASSUME NEW v \in Workers, Denying(v, k)' PROVE ~HasRow(k)'
    BY <1>1, <1>2, <1>4, <2>1, <2>2, <2>4 DEF RowGuarantee, RowIsServed
  <2> QED
    BY <2>1, <2>3, <2>4 DEF RowIsServed
<1> QED
  BY <1>6, <1>7

-----------------------------------------------------------------------------
(* The steps of a worker.                                                  *)

LEMMA RowOpsStep ==
    ASSUME PortInv, NEW w \in Workers, NEW k \in Keys, NEW target \in Targets,
           AddRow(w, target, k) \/ RemoveRow(w, target, k)
    PROVE  PortInv'
<1>1. TypeOK'
  BY RowOpsTypes DEF PortInv
<1>2. /\ pc[w] = "idle" /\ OthersStay(w) /\ accept' = accept
      /\ \A j \in Keys : ~Denying(w, j) /\ ~Granting(w, j) /\ ~Adding(w, j)
  BY DEF PortInv, TypeOK, AddRow, RemoveRow, OthersStay, Goto, worker, Denying,
         Granting, Adding
<1>3. CASE AddRow(w, target, k)
  <2>1. Causes({}, {}) /\ rows' = rows \cup {<<target, k>>}
    BY <1>3 DEF AddRow
  <2>2. AppliesHere(target) => Granting(w, k)'
    BY <1>3 DEF AddRow, Granting, Adding, Goto, PortInv, TypeOK
  <2>3. \A j \in Keys : /\ ~Denying(w, j)'
                        /\ Adding(w, j)' => j = k /\ AppliesHere(target)
    BY <1>2, <1>3 DEF AddRow, Denying, Adding, Goto, worker, PortInv, TypeOK
  <2>4. AppliesHere(target) => HasRow(k)'
    <3>1. <<target, k>>[1] = target /\ <<target, k>>[2] = k /\ <<target, k>> \in rows'
      BY <2>1
    <3> QED
      BY <3>1 DEF HasRow, Listed, AppliesHere
  <2>5. ASSUME NEW j \in Keys
        PROVE  /\ HasRow(j) => HasRow(j)'
               /\ HasRow(j)' => HasRow(j) \/ (j = k /\ AppliesHere(target))
    BY <2>1 DEF HasRow, Listed
  <2>6. ASSUME NEW j \in Keys
        PROVE  RuleGuarantee(w, j, {}) /\ RowGuarantee(w, j, {})
    BY <1>2, <2>2, <2>3, <2>4, <2>5 DEF RuleGuarantee, RowGuarantee
  <2> QED
    BY <1>1, <1>2, <2>1, <2>6, WorkerStep DEF PortInv
<1>4. CASE RemoveRow(w, target, k)
  <2> DEFINE missed == IF AppliesHere(target) /\ HasOther(target, k) THEN {k} ELSE {}
  <2>1. Causes({}, missed) /\ rows' = rows \ {<<target, k>>}
    BY <1>4 DEF RemoveRow
  <2>2. AppliesHere(target) => Denying(w, k)'
    BY <1>4 DEF RemoveRow, Denies, Denying, Goto, PortInv, TypeOK
  <2>3. \A j \in Keys : /\ ~Granting(w, j)' /\ ~Adding(w, j)'
                        /\ Denying(w, j)' => j = k /\ AppliesHere(target)
    BY <1>2, <1>4 DEF RemoveRow, Denies, Denying, Granting, Adding, Goto, PortInv, TypeOK
  <2>4. ASSUME AppliesHere(target), HasRow(k)' PROVE k \in missed
    <3>1. PICK r \in rows' : AppliesHere(r[1]) /\ r[2] = k
      BY <2>4 DEF HasRow, Listed, AppliesHere
    <3>2. r \in rows /\ r[1] # target
      BY <2>1, <3>1 DEF PortInv, TypeOK
    <3> QED
      BY <2>4, <3>1, <3>2 DEF HasOther, Listed
  <2>5. ASSUME NEW j \in Keys
        PROVE  /\ HasRow(j)' => HasRow(j)
               /\ HasRow(j) => HasRow(j)' \/ (j = k /\ AppliesHere(target))
    BY <2>1 DEF HasRow, Listed
  <2> HIDE DEF missed
  <2>6. ASSUME NEW j \in Keys
        PROVE  RuleGuarantee(w, j, {}) /\ RowGuarantee(w, j, missed)
    BY <1>2, <2>2, <2>3, <2>4, <2>5 DEF RuleGuarantee, RowGuarantee
  <2> QED
    BY <1>1, <1>2, <2>1, <2>6, WorkerStep DEF PortInv
<1> QED
  BY <1>3, <1>4

LEMMA SameRows ==
    ASSUME rows' = rows, NEW k
    PROVE  HasRow(k)' <=> HasRow(k)
BY DEF HasRow, Listed

LEMMA ListStep ==
    ASSUME PortInv, NEW w \in Workers,
           ReadEntries(w) \/ Check(w) \/ Insert(w) \/ EndOfList(w)
    PROVE  PortInv'
<1>1. TypeOK'
  BY ListTypes DEF PortInv
<1>2. /\ pc[w] \in {"list", "start", "check", "insert"} /\ OthersStay(w) /\ rows' = rows
      /\ \A j \in Keys : ~Denying(w, j) /\ ~Denying(w, j)'
  BY DEF PortInv, TypeOK, ReadEntries, Check, Insert, EndOfList, Done, OthersStay, Goto,
         Denying
<1>3. \A j \in Keys : HasRow(j)' <=> HasRow(j)
  BY <1>2, SameRows
<1>4. CASE ReadEntries(w)
  <2>1. \A j \in Keys : /\ Adding(w, j)' <=> HasRow(j)
                        /\ Adding(w, j)' => Granting(w, j)'
    BY <1>4 DEF ReadEntries, Entries, HasRow, Adding, Granting, Goto, PortInv, TypeOK
  <2>2. Causes({}, {}) /\ accept' = accept
    BY <1>4 DEF ReadEntries
  <2>3. ASSUME NEW j \in Keys
        PROVE  RuleGuarantee(w, j, {}) /\ RowGuarantee(w, j, {})
    BY <1>2, <1>3, <2>1, <2>2 DEF RuleGuarantee, RowGuarantee
  <2> QED
    BY <1>1, <1>2, <2>2, <2>3, WorkerStep DEF PortInv
<1>5. CASE Check(w)
  <2>1. Causes({}, {}) /\ accept' = accept
    BY <1>5 DEF Check
  <2>2. \A j \in Keys : /\ Adding(w, j)' => Adding(w, j)
                        /\ Granting(w, j) => Granting(w, j)' \/ accept[j] > 0
    BY <1>5 DEF Check, Allowed, Adding, Granting, Goto, PortInv, TypeOK
  <2>3. ASSUME NEW j \in Keys
        PROVE  RuleGuarantee(w, j, {}) /\ RowGuarantee(w, j, {})
    BY <1>2, <1>3, <2>1, <2>2 DEF RuleGuarantee, RowGuarantee
  <2> QED
    BY <1>1, <1>2, <2>1, <2>3, WorkerStep DEF PortInv
<1>6. CASE Insert(w)
  <2>1. PICK missed :
          /\ Causes({}, missed)
          /\ \/ missed = {} /\ accept' = [accept EXCEPT ![key[w]] = accept[key[w]] + 1]
             \/ missed = {key[w]} /\ accept' = accept
    BY <1>6 DEF Insert
  <2>2. key[w] \in Keys /\ Adding(w, key[w])
    BY <1>6 DEF Insert, Adding, PortInv, TypeOK
  <2>3. \A j \in Keys : /\ Adding(w, j)' => Adding(w, j)
                        /\ Granting(w, j) /\ j # key[w] => Granting(w, j)'
    BY <1>6 DEF Insert, Adding, Granting, Goto, PortInv, TypeOK
  <2>4. \A j \in Keys : /\ accept[j] > 0 => accept'[j] > 0
                        /\ j # key[w] => accept'[j] = accept[j]
                        /\ j = key[w] => accept'[j] > 0 \/ j \in missed
    BY <2>1, <2>2 DEF PortInv, TypeOK
  <2>5. ASSUME NEW j \in Keys
        PROVE  RuleGuarantee(w, j, {}) /\ RowGuarantee(w, j, missed)
    BY <1>2, <1>3, <2>2, <2>3, <2>4 DEF RuleGuarantee, RowGuarantee
  <2> QED
    BY <1>1, <1>2, <2>1, <2>5, WorkerStep DEF PortInv
<1>7. CASE EndOfList(w)
  <2>1. Causes({}, {}) /\ accept' = accept
    BY <1>7 DEF EndOfList
  <2>2. \A j \in Keys : ~Adding(w, j)' /\ ~Granting(w, j)
    BY <1>7 DEF EndOfList, Done, Adding, Granting, Goto, PortInv, TypeOK
  <2>3. ASSUME NEW j \in Keys
        PROVE  RuleGuarantee(w, j, {}) /\ RowGuarantee(w, j, {})
    BY <1>2, <1>3, <2>1, <2>2 DEF RuleGuarantee, RowGuarantee
  <2> QED
    BY <1>1, <1>2, <2>1, <2>3, WorkerStep DEF PortInv
<1> QED
  BY <1>4, <1>5, <1>6, <1>7

LEMMA DenyStep ==
    ASSUME PortInv, NEW w \in Workers, Find(w) \/ Delete(w)
    PROVE  PortInv'
<1>1. TypeOK'
  BY DenyTypes DEF PortInv
<1>2. /\ pc[w] \in {"find", "delete"} /\ OthersStay(w) /\ rows' = rows
      /\ key[w] \in Keys /\ Denying(w, key[w])
      /\ \A j \in Keys : /\ ~Granting(w, j) /\ ~Granting(w, j)'
                         /\ ~Adding(w, j) /\ ~Adding(w, j)'
                         /\ Denying(w, j)' \/ Denying(w, j) => j = key[w]
  BY DEF PortInv, TypeOK, Find, Delete, Done, OthersStay, Goto, Denying, Granting, Adding
<1>3. \A j \in Keys : HasRow(j)' <=> HasRow(j)
  BY <1>2, SameRows
<1>4. \A j \in Keys : j # key[w] => accept'[j] = accept[j]
  BY <1>2 DEF Find, Delete, PortInv, TypeOK
<1>5. PICK leaked :
        /\ Causes(leaked, {})
        /\ \/ leaked = {key[w]}
           \/ \A j \in Keys : j = key[w] => Denying(w, j)'
           \/ accept'[key[w]] = 0
  <2>1. key'[w] = key[w] /\ pc'[w] \in {"find", "delete"}
          => \A j \in Keys : j = key[w] => Denying(w, j)'
    BY DEF Denying
  <2>2. CASE Find(w)
    BY <1>2, <2>1, <2>2 DEF Find, Goto, PortInv, TypeOK
  <2>3. CASE Delete(w)
    BY <1>2, <2>1, <2>3 DEF Delete, Goto, PortInv, TypeOK
  <2> QED
    BY <2>2, <2>3
<1>6. accept'[key[w]] \in Nat
  BY <1>1, <1>2 DEF TypeOK
<1>7. ASSUME NEW j \in Keys
      PROVE  RuleGuarantee(w, j, leaked) /\ RowGuarantee(w, j, {})
  BY <1>2, <1>3, <1>4, <1>5, <1>6, <1>7 DEF RuleGuarantee, RowGuarantee
<1> QED
  BY <1>1, <1>2, <1>5, <1>7, WorkerStep DEF PortInv

-----------------------------------------------------------------------------
(* Deaths and starts.                                                      *)

LEMMA CrashStep ==
    ASSUME PortInv, NEW ws, ws = {"agent"} \/ ws = Requests, Crash(ws)
    PROVE  PortInv'
<1> DEFINE hit == UNION {Touching(w) : w \in ws}
<1>1. TypeOK'
  BY StopTypes DEF PortInv
<1>2. /\ Causes(hit, hit) /\ accept' = accept /\ rows' = rows /\ ws \subseteq Workers
      /\ \A w \in Workers \ ws : pc'[w] = pc[w] /\ key'[w] = key[w] /\ list'[w] = list[w]
      /\ \A w \in ws : pc'[w] \in {"idle", "down"}
  BY DEF Crash, Die, Workers
<1>3. \A w \in ws, k \in Keys : Denying(w, k) \/ Granting(w, k) => k \in hit
  BY <1>2 DEF Denying, Granting, Adding, Touching
<1>4. \A w \in ws, k \in Keys : ~Denying(w, k)' /\ ~Granting(w, k)' /\ ~Adding(w, k)'
  BY <1>2 DEF Denying, Granting, Adding
<1>5. \A w \in Workers \ ws, k \in Keys : /\ Denying(w, k)' <=> Denying(w, k)
                                          /\ Adding(w, k)' <=> Adding(w, k)
                                          /\ Granting(w, k)' <=> Granting(w, k)
  BY <1>2 DEF Denying, Adding, Granting
<1>6. \A k \in Keys : HasRow(k)' <=> HasRow(k)
  BY <1>2, SameRows
<1>7. Running' => Running
  BY <1>2 DEF Running, Workers, Crash, Die
<1> HIDE DEF hit
<1>8. ASSUME NEW k \in Keys, ~leakCause'[k] PROVE RuleIsDue(k)'
  <2>1. RuleIsDue(k) /\ k \notin hit /\ ~Overlap(k)'
    BY <1>2, <1>8, NotOnRecord DEF PortInv
  <2> QED
    BY <1>2, <1>3, <1>4, <1>5, <1>6, <2>1 DEF RuleIsDue
<1>9. ASSUME NEW k \in Keys, Running', ~missCause'[k] PROVE RowIsServed(k)'
  <2>1. RowIsServed(k) /\ k \notin hit /\ ~Overlap(k)'
    BY <1>2, <1>7, <1>9, NotOnRecord DEF PortInv
  <2> QED
    BY <1>2, <1>3, <1>4, <1>5, <1>6, <2>1 DEF RowIsServed
<1> QED
  BY <1>1, <1>8, <1>9 DEF PortInv

LEMMA RebootStep ==
    ASSUME PortInv, Reboot
    PROVE  PortInv'
<1>1. TypeOK'
  BY StopTypes DEF PortInv
<1>2. /\ \A k \in Keys : accept'[k] = 0
      /\ \A w \in Workers : pc'[w] \in {"idle", "down"}
      /\ pc'["agent"] = "down"
  BY DEF Reboot, Die, Workers
<1>3. \A k \in Keys : RuleIsDue(k)'
  BY <1>2 DEF RuleIsDue, Overlap, Touching, Adding
<1>4. ~Running'
  BY <1>2 DEF Running
<1> QED
  BY <1>1, <1>3, <1>4 DEF PortInv

LEMMA StartStep ==
    ASSUME PortInv, Start
    PROVE  PortInv'
<1>1. TypeOK'
  BY StopTypes DEF PortInv
<1>2. /\ rows' = rows /\ accept' = accept /\ key' = key /\ list' = list
      /\ "agent" \in Workers /\ pc["agent"] = "down" /\ pc'["agent"] = "start"
      /\ \A w \in Workers \ {"agent"} : pc'[w] = pc[w]
  BY DEF Start, Goto, Workers, PortInv, TypeOK
<1>3. \A k \in Keys : HasRow(k)' <=> HasRow(k)
  BY <1>2, SameRows
<1>4. \A w \in Workers, k \in Keys : /\ Denying(w, k)' <=> Denying(w, k)
                                     /\ Adding(w, k)' <=> Adding(w, k)
  BY <1>2 DEF Denying, Adding
<1>5. \A k \in Keys : /\ Granting("agent", k)'
                      /\ \A w \in Workers \ {"agent"} : Denying(w, k)' => Overlap(k)'
                      /\ ~Denying("agent", k)'
  <2>1. \A k \in Keys : Granting("agent", k)' /\ ~Denying("agent", k)'
    BY <1>2 DEF Granting, Denying
  <2> QED
    BY <1>2, <2>1, Clash
<1>6. \A k \in Keys : /\ ~leakCause'[k] => ~leakCause[k] /\ ~Overlap(k)'
                      /\ ~missCause'[k] => ~Overlap(k)'
  BY Zenon DEF Start
<1>7. \A k \in Keys : leakCause'[k] \/ RuleIsDue(k)'
  BY <1>2, <1>3, <1>4, <1>6 DEF PortInv, RuleIsDue
<1>8. \A k \in Keys : missCause'[k] \/ RowIsServed(k)'
  BY <1>2, <1>5, <1>6 DEF RowIsServed
<1> QED
  BY <1>1, <1>7, <1>8 DEF PortInv

-----------------------------------------------------------------------------
(* The theorems.                                                           *)

LEMMA InitInv == Init => PortInv
<1> SUFFICES ASSUME Init PROVE PortInv
  OBVIOUS
<1>1. TypeOK
  BY PortAssumption DEF Init, TypeOK
<1>2. \A k \in Keys : RuleIsDue(k) /\ RowIsServed(k)
  BY DEF Init, RuleIsDue, RowIsServed, Overlap, Touching, Denying, Adding, HasRow, Listed
<1> QED
  BY <1>1, <1>2 DEF PortInv

LEMMA StepInv == PortInv /\ [Next]_vars => PortInv'
<1> SUFFICES ASSUME PortInv, [Next]_vars PROVE PortInv'
  OBVIOUS
<1>1. CASE UNCHANGED vars
  <2> USE <1>1 DEF vars, worker
  <2>1. TypeOK'
    BY DEF PortInv, TypeOK
  <2>2. ASSUME NEW k \in Keys
        PROVE  /\ RuleIsDue(k)' <=> RuleIsDue(k)
               /\ RowIsServed(k)' <=> RowIsServed(k)
    BY DEF RuleIsDue, RowIsServed, Overlap, Touching, Denying, Granting, Adding, HasRow,
           Listed
  <2> QED
    BY <2>1, <2>2 DEF PortInv, Running
<1>2. ASSUME NEW w \in Workers, NEW k \in Keys, NEW target \in Targets,
             AddRow(w, target, k) \/ RemoveRow(w, target, k)
      PROVE  PortInv'
  BY <1>2, RowOpsStep
<1>3. ASSUME NEW w \in Workers,
             ReadEntries(w) \/ Check(w) \/ Insert(w) \/ EndOfList(w)
      PROVE  PortInv'
  BY <1>3, ListStep
<1>4. ASSUME NEW w \in Workers, Find(w) \/ Delete(w)
      PROVE  PortInv'
  BY <1>4, DenyStep
<1>5. CASE Crash({"agent"}) \/ Crash(Requests) \/ Reboot \/ Start
  BY <1>5, CrashStep, RebootStep, StartStep
<1> QED
  BY <1>1, <1>2, <1>3, <1>4, <1>5 DEF Next

LEMMA AlwaysInv == Spec => []PortInv
BY InitInv, StepInv, PTL DEF Spec

\* The types, and which of a worker's locals are set where.
THEOREM TypeInvariance == Spec => []TypeOK
<1>1. PortInv => TypeOK
  BY DEF PortInv
<1> QED
  BY <1>1, AlwaysInv, PTL

\* No ACCEPT rule outlives the last row of its key, whatever agent and API do at
\* once, unless a cause is on record (agent.py:176-207, firewall.py:109-134).
THEOREM RuleHasRowHolds == Spec => []RuleHasRow
<1>1. PortInv => RuleHasRow
  <2> SUFFICES ASSUME PortInv, NEW k \in Keys, accept[k] > 0, Untouched(k),
                      ~leakCause[k]
               PROVE  HasRow(k)
    BY DEF RuleHasRow
  <2>1. \A w \in Workers : ~Denying(w, k)
    BY DEF Untouched, Touching, Denying
  <2> QED
    BY <2>1 DEF PortInv, RuleIsDue
<1> QED
  BY <1>1, AlwaysInv, PTL

\* Every row that applies to a running node has its rule, unless a cause is on
\* record (agent.py:413-417, firewall.py:136-153).
THEOREM RowHasRuleHolds == Spec => []RowHasRule
<1>1. PortInv => RowHasRule
  <2> SUFFICES ASSUME PortInv, NEW k \in Keys, Running, HasRow(k), Untouched(k),
                      ~missCause[k]
               PROVE  accept[k] > 0
    BY DEF RowHasRule
  <2>1. \A w \in Workers : ~Granting(w, k)
    BY DEF Untouched, Touching, Granting, Adding
  <2> QED
    BY <2>1 DEF PortInv, RowIsServed
<1> QED
  BY <1>1, AlwaysInv, PTL
=============================================================================
