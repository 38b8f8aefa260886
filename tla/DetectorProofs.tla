--------------------------- MODULE DetectorProofs ---------------------------
(***************************************************************************)
(* Detector for any addresses, requests, windows and thresholds: that a    *)
(* finished pass reported everyone whose lines reached a threshold, though *)
(* old signals are pruned, and that a pass that dies loses the signals of  *)
(* one log.                                                                *)
(***************************************************************************)
EXTENDS Detector, SequenceTheorems, TLAPS

\* What the argument needs of the types.
Typed ==
    /\ clock \in 1..MaxClock
    /\ lines \in [LogNames -> Seq(Line)]
    /\ offset \in [LogNames -> Nat]
    /\ todo \in Seq(LogNames)
    /\ batch \in Seq(Line)
    /\ age \in 0..MaxPass
    /\ \A row \in history : row.ts \in Nat
    /\ pruned \in Nat /\ pruned <= clock
    /\ capped \in [LogNames -> Nat]
    /\ \A l \in LogNames : capped[l] <= Len(lines[l])

\* The open transaction and the lines at hand are of one log.
OneLog ==
    /\ \A l \in LogNames : \A i \in DOMAIN lines[l] : lines[l][i].log = l
    /\ \E l \in LogNames : /\ \A row \in pending : row.log = l
                           /\ \A i \in DOMAIN batch : batch[i].log = l

\* What the table no longer has was two windows old when a pass pruned.
Past(row, time) == row.ts + MaxWindow < time
Forgotten == \A row \in history \ signals : row.ts + 2 * MaxWindow < pruned

\* Lines to come that are no later than a window before that are in a backlog,
\* those at hand and those still in the log.
Stale(line) == line.at + MaxWindow < pruned
OnlyBacklogStale ==
    /\ \A i \in DOMAIN batch :
          Stale(batch[i]) =>
             offset[batch[i].log] - Len(batch) + i <= capped[batch[i].log]
    /\ \A l \in LogNames : \A i \in DOMAIN lines[l] :
          i > offset[l] /\ Stale(lines[l][i]) => i <= capped[l]

\* What the running pass left unread was in a backlog or written while it ran.
ToRead == {todo[i] : i \in DOMAIN todo}
UnreadIsNew ==
    pc # "off" =>
        \A l \in LogNames \ ToRead : \A i \in DOMAIN lines[l] :
            i > offset[l] => i <= capped[l] \/ lines[l][i].at + age >= clock

\* Who is due was flagged, by this pass.
Flagged ==
    /\ due \subseteq offenders \cup answered
    /\ pc = "off" => due \subseteq answered
    /\ pc = "emit" => batch = <<>> /\ todo = <<>>

DetectorInv == /\ Typed /\ OneLog /\ Forgotten /\ OnlyBacklogStale /\ UnreadIsNew
               /\ Flagged

-----------------------------------------------------------------------------
(* What the operators return.                                              *)

LEMMA WindowBound ==
    MaxWindow \in Nat /\ \A k \in DOMAIN Window : Window[k] <= MaxWindow
<1> DEFINE All == {Window[k] : k \in DOMAIN Window}
<1>1. /\ DOMAIN Window = {"http_404", "bad_status", "auth_fail"}
      /\ \A k \in DOMAIN Window : Window[k] \in Nat
  BY DetectorAssumption
<1>2. \E w \in All : \A k \in DOMAIN Window : Window[k] <= w
  <2> DEFINE a == Window["http_404"] b == Window["bad_status"] c == Window["auth_fail"]
  <2>1. a \in Nat /\ b \in Nat /\ c \in Nat /\ {a, b, c} \subseteq All
    BY <1>1
  <2>2. \E w \in {a, b, c} : a <= w /\ b <= w /\ c <= w
    BY <2>1
  <2> QED
    BY <1>1, <2>1, <2>2
<1>3. MaxWindow \in All /\ \A k \in DOMAIN Window : Window[k] <= MaxWindow
  BY <1>2 DEF MaxWindow
<1> QED
  BY <1>1, <1>3

LEMMA TimeOfLine ==
    ASSUME Typed, NEW line \in Line
    PROVE  Time(line) \in Nat /\ line.at \in Nat /\ line.log \in LogNames
BY DetectorAssumption DEF Typed, Line, Time

\* Rows that are past do not count.
LEMMA SameRecent ==
    ASSUME NEW table, NEW all, table \subseteq all, NEW ip, NEW time \in Nat,
           \A row \in all : row.ts \in Nat,
           \A row \in all \ table : Past(row, time),
           NEW kind \in DOMAIN Window
    PROVE  Recent(table, ip, time, kind) = Recent(all, ip, time, kind)
<1>1. Window[kind] \in Nat /\ MaxWindow \in Nat /\ Window[kind] <= MaxWindow
  BY WindowBound, DetectorAssumption
<1>2. ASSUME NEW row \in all, row.ts + Window[kind] >= time PROVE row \in table
  BY <1>1, <1>2 DEF Past
<1> QED
  BY <1>2 DEF Recent

\* Nor does it matter for what a line shows whether the table has them.
LEMMA SameOffends ==
    ASSUME Typed, NEW line \in Line, NEW table, NEW all, table \subseteq all,
           \A row \in all : row.ts \in Nat,
           \A row \in all \ table : Past(row, Time(line))
    PROVE  Offends(table, line) <=> Offends(all, line)
<1>1. {"http_404", "bad_status", "auth_fail"} = DOMAIN Window
  BY DetectorAssumption
<1>2. \A kind \in DOMAIN Window :
         Recent(table, line.ip, Time(line), kind) = Recent(all, line.ip, Time(line), kind)
  BY TimeOfLine, SameRecent
<1>3. \A kind \in DOMAIN Window :
         Reaches(table, line.ip, Time(line), kind) <=> Reaches(all, line.ip, Time(line), kind)
  BY <1>2 DEF Reaches
<1>4. UniquePaths(table, line.ip, Time(line)) = UniquePaths(all, line.ip, Time(line))
  BY <1>1, <1>2 DEF UniquePaths
<1>5. Burst(table, line) <=> Burst(all, line)
  BY <1>1, <1>3, <1>4 DEF Burst
<1> QED
  BY <1>5 DEF Offends

LEMMA NewRows ==
    ASSUME Typed, NEW line \in Line, NEW row \in SignalsOf(line)
    PROVE  row.ts \in Nat /\ row.log = line.log
BY TimeOfLine DEF SignalsOf

-----------------------------------------------------------------------------
(* The invariant holds at the start and over every step.                   *)

LEMMA InitInv == Init => DetectorInv
<1> SUFFICES ASSUME Init PROVE DetectorInv
  OBVIOUS
<1>1. <<>> \in Seq(Line) /\ <<>> \in Seq(LogNames)
  BY EmptySeq
<1>2. \A l \in LogNames : lines[l] = <<>> /\ DOMAIN lines[l] = {}
  BY EmptySeq DEF Init
<1>3. "combined" \in LogNames /\ DOMAIN batch = {}
  BY EmptySeq DEF LogNames, Init
<1>4. Typed
  <2>1. \A l \in LogNames : Len(lines[l]) = 0
    BY <1>2, EmptySeq
  <2> QED
    BY <1>1, <2>1, DetectorAssumption, WindowBound DEF Init, Typed
<1>5. OneLog
  BY <1>2, <1>3 DEF Init, OneLog
<1>6. Forgotten /\ OnlyBacklogStale /\ UnreadIsNew /\ Flagged
  BY <1>2, <1>3 DEF Init, Forgotten, OnlyBacklogStale, UnreadIsNew, Flagged
<1> QED
  BY <1>4, <1>5, <1>6 DEF DetectorInv

LEMMA TickStep == DetectorInv /\ Tick => DetectorInv'
<1> SUFFICES ASSUME DetectorInv, Tick PROVE DetectorInv'
  OBVIOUS
<1>1. /\ clock \in Nat /\ clock' = clock + 1 /\ clock' \in 1..MaxClock
      /\ age \in Nat /\ age' \in 0..MaxPass
      /\ pc # "off" => age' = age + 1
      /\ MaxWindow \in Nat
  BY DetectorAssumption, WindowBound DEF DetectorInv, Typed, Tick
<1>2. UNCHANGED <<lines, offset, signals, pending, history, pc, todo, batch,
                  offenders, due, answered, pruned, capped>>
  BY DEF Tick, tables, backlog
<1>3. Typed' /\ OneLog' /\ Flagged'
  <2>1. pruned \in Nat /\ pruned <= clock'
    BY <1>1 DEF DetectorInv, Typed
  <2>2. Typed'
    BY <1>1, <1>2, <2>1 DEF DetectorInv, Typed
  <2> QED
    BY <1>2, <2>2 DEF DetectorInv, OneLog, Flagged
<1>4. Forgotten' /\ OnlyBacklogStale'
  BY <1>2 DEF DetectorInv, Forgotten, OnlyBacklogStale, Stale
<1>5. UnreadIsNew'
  <2> SUFFICES ASSUME pc # "off", NEW l \in LogNames \ ToRead, NEW i \in DOMAIN lines[l],
                      i > offset[l]
               PROVE  i <= capped[l] \/ lines[l][i].at + age' >= clock'
    BY <1>2 DEF UnreadIsNew, ToRead
  <2>1. lines[l] \in Seq(Line) /\ lines[l][i] \in Line
    BY ElementOfSeq, LenProperties DEF DetectorInv, Typed
  <2>2. lines[l][i].at \in Nat
    BY <2>1, TimeOfLine DEF DetectorInv
  <2>3. i <= capped[l] \/ lines[l][i].at + age >= clock
    BY DEF DetectorInv, UnreadIsNew
  <2> QED
    BY <1>1, <2>2, <2>3
<1> QED
  BY <1>3, <1>4, <1>5 DEF DetectorInv

LEMMA WriteStep ==
    ASSUME DetectorInv, NEW l \in LogNames, NEW ip \in Ips, NEW request \in Shows,
           Write(l, ip, request)
    PROVE  DetectorInv'
<1> DEFINE line == [log |-> l, ip |-> ip, request |-> request, at |-> clock]
           last == Len(lines[l])
<1>1. /\ clock \in 1..MaxClock /\ clock \in Nat /\ MaxClock \in Nat
      /\ lines \in [LogNames -> Seq(Line)] /\ lines[l] \in Seq(Line)
      /\ age \in Nat
  BY DetectorAssumption DEF DetectorInv, Typed
<1>2. /\ lines' = [lines EXCEPT ![l] = Append(@, line)]
      /\ UNCHANGED <<clock, offset, signals, pending, history, pc, todo, batch, age,
                     offenders, due, answered, pruned, capped>>
  BY DEF Write, tables, passVars, flow, backlog
<1>3. line \in Line /\ line.at = clock /\ line.log = l
  BY <1>1 DEF Line
<1> HIDE DEF line
<1>4. lines' \in [LogNames -> Seq(Line)]
  BY <1>1, <1>2, <1>3, AppendProperties
<1>5. \A m \in LogNames \ {l} : lines'[m] = lines[m]
  BY <1>1, <1>2
<1>6. /\ DOMAIN lines'[l] = 1..(last + 1) /\ DOMAIN lines[l] = 1..last /\ last \in Nat
      /\ \A i \in 1..last : lines'[l][i] = lines[l][i]
      /\ lines'[l][last + 1] = line
  BY <1>1, <1>2, <1>3, <1>4, AppendProperties, LenProperties
<1>7. ASSUME NEW m \in LogNames, NEW i \in DOMAIN lines'[m]
      PROVE  \/ i \in DOMAIN lines[m] /\ lines'[m][i] = lines[m][i]
             \/ m = l /\ lines'[m][i] = line
  BY <1>5, <1>6
<1>8. Typed' /\ Flagged'
  <2>1. lines[l] \in Seq(Line) /\ lines'[l] = Append(lines[l], line)
    BY <1>1, <1>2
  <2>2. Len(lines'[l]) = last + 1
    BY <1>3, <2>1, AppendProperties
  <2>3. ASSUME NEW m \in LogNames PROVE capped[m] <= Len(lines'[m])
    <3>1. capped[m] <= Len(lines[m]) /\ capped[m] \in Nat
      BY DEF DetectorInv, Typed
    <3>2. CASE m = l
      BY <1>6, <2>2, <3>1, <3>2
    <3>3. CASE m # l
      BY <1>5, <3>1, <3>3
    <3> QED
      BY <3>2, <3>3
  <2>4. Flagged'
    BY <1>2 DEF DetectorInv, Flagged
  <2> QED
    BY <1>2, <1>4, <2>3, <2>4 DEF DetectorInv, Typed
<1>9. OneLog'
  BY <1>2, <1>3, <1>7 DEF DetectorInv, OneLog
<1>10. Forgotten' /\ OnlyBacklogStale'
  <2>1. Forgotten'
    BY <1>2 DEF DetectorInv, Forgotten
  <2>2. \A i \in DOMAIN batch' :
           Stale(batch[i])' =>
              offset'[batch'[i].log] - Len(batch') + i <= capped'[batch'[i].log]
    BY <1>2 DEF DetectorInv, OnlyBacklogStale, Stale
  <2>3. ASSUME NEW m \in LogNames, NEW i \in DOMAIN lines'[m], i > offset[m],
               lines'[m][i].at + MaxWindow < pruned
        PROVE  i <= capped[m]
    <3>1. CASE i \in DOMAIN lines[m] /\ lines'[m][i] = lines[m][i]
      BY <2>3, <3>1 DEF DetectorInv, OnlyBacklogStale, Stale
    <3>2. CASE lines'[m][i] = line
      BY <1>1, <1>3, <2>3, <3>2, WindowBound DEF DetectorInv, Typed
    <3> QED
      BY <1>7, <3>1, <3>2
  <2> QED
    BY <1>2, <2>1, <2>2, <2>3 DEF OnlyBacklogStale, Stale
<1>11. UnreadIsNew'
  <2> SUFFICES ASSUME pc # "off", NEW m \in LogNames \ ToRead, NEW i \in DOMAIN lines'[m],
                      i > offset[m]
               PROVE  i <= capped[m] \/ lines'[m][i].at + age >= clock
    BY <1>2 DEF UnreadIsNew, ToRead
  <2>1. CASE i \in DOMAIN lines[m] /\ lines'[m][i] = lines[m][i]
    BY <2>1 DEF DetectorInv, UnreadIsNew
  <2>2. CASE lines'[m][i] = line
    BY <1>1, <1>3, <2>2
  <2> QED
    BY <1>7, <2>1, <2>2
<1> QED
  BY <1>8, <1>9, <1>10, <1>11 DEF DetectorInv

LEMMA BeginStep == DetectorInv /\ Begin => DetectorInv'
<1> SUFFICES ASSUME DetectorInv, Begin PROVE DetectorInv'
  OBVIOUS
<1>1. /\ pc' = "read" /\ todo' = Logs /\ due' = {}
      /\ UNCHANGED <<clock, lines, offset, signals, pending, history, batch, age,
                     pruned, capped>>
  BY DEF Begin, tables, backlog
<1>2. Logs \in Seq(LogNames) /\ Logs[1] = "combined" /\ Logs[2] = "json" /\ Logs[3] = "auth"
  BY DEF Logs, LogNames
<1>3. {Logs[i] : i \in DOMAIN Logs} = LogNames
  <2>1. DOMAIN Logs = 1..3
    BY DEF Logs
  <2> QED
    BY <1>2, <2>1 DEF LogNames
<1>4. Typed' /\ OneLog' /\ Forgotten' /\ OnlyBacklogStale' /\ Flagged'
  BY <1>1, <1>2 DEF DetectorInv, Typed, OneLog, Forgotten, OnlyBacklogStale, Stale,
                    Flagged
<1>5. UnreadIsNew'
  BY <1>1, <1>3 DEF UnreadIsNew, ToRead
<1> QED
  BY <1>4, <1>5 DEF DetectorInv

\* The next unread lines of the log are the batch now, and what was added for
\* the log before is committed, unless there is no new line.
LEMMA ReadLogStep == DetectorInv /\ ReadLog => DetectorInv'
<1> SUFFICES ASSUME DetectorInv, ReadLog PROVE DetectorInv'
  OBVIOUS
<1> DEFINE l == Head(todo)
           last == ReadTo(l)
<1>1. /\ pc = "read" /\ pc' = "read" /\ todo # <<>> /\ todo' = Tail(todo)
      /\ batch' = SubSeq(lines[l], offset[l] + 1, last)
      /\ offset' = [offset EXCEPT ![l] = last]
      /\ pending' = Saved(l)
      /\ capped' = IF last < Len(lines[l])
                   THEN [capped EXCEPT ![l] = Len(lines[l])] ELSE capped
      /\ UNCHANGED <<clock, lines, signals, history, age, offenders, due, answered,
                     pruned>>
  BY DEF ReadLog
<1>2. /\ todo \in Seq(LogNames) /\ lines \in [LogNames -> Seq(Line)]
      /\ offset \in [LogNames -> Nat]
  BY DEF DetectorInv, Typed
<1>3. l \in LogNames /\ Tail(todo) \in Seq(LogNames)
  BY <1>1, <1>2, HeadTailProperties
<1> HIDE DEF l
<1>4. /\ lines[l] \in Seq(Line) /\ last \in Nat /\ last <= Len(lines[l])
      /\ DOMAIN lines[l] = 1..Len(lines[l]) /\ Len(lines[l]) \in Nat
      /\ offset[l] \in Nat
  <2>1. /\ lines[l] \in Seq(Line) /\ Len(lines[l]) \in Nat /\ offset[l] \in Nat
        /\ DOMAIN lines[l] = 1..Len(lines[l])
    BY <1>2, <1>3, LenProperties
  <2>2. MaxRead \in Nat
    BY DetectorAssumption
  <2> QED
    BY <2>1, <2>2 DEF ReadTo
<1>5. /\ batch' \in Seq(Line)
      /\ Len(batch') = IF offset[l] + 1 <= last THEN last - offset[l] ELSE 0
      /\ \A i \in 1..(last - offset[l]) : batch'[i] = lines[l][offset[l] + i]
  <2>1. \A i \in (offset[l] + 1)..last : lines[l][i] \in Line
    BY <1>4, ElementOfSeq
  <2>2. offset[l] + 1 \in Int /\ last \in Int
    BY <1>4
  <2>3. /\ SubSeq(lines[l], offset[l] + 1, last) \in Seq(Line)
        /\ Len(SubSeq(lines[l], offset[l] + 1, last)) =
             IF offset[l] + 1 <= last THEN last - (offset[l] + 1) + 1 ELSE 0
        /\ \A i \in 1..(last - (offset[l] + 1) + 1) :
             SubSeq(lines[l], offset[l] + 1, last)[i] = lines[l][(offset[l] + 1) + i - 1]
    BY <2>1, <2>2, SubSeqProperties
  <2>4. /\ last - (offset[l] + 1) + 1 = last - offset[l]
        /\ \A i \in Nat : (offset[l] + 1) + i - 1 = offset[l] + i
    BY <1>4
  <2>5. \A i \in 1..(last - offset[l]) : i \in Nat
    BY <1>4
  <2> QED
    BY <1>1, <2>3, <2>4, <2>5
<1>6. ASSUME NEW i \in DOMAIN batch'
      PROVE  /\ offset[l] + i \in DOMAIN lines[l] /\ offset[l] + i > offset[l]
             /\ batch'[i] = lines[l][offset[l] + i]
             /\ offset[l] < last
             /\ i \in Nat /\ Len(batch') = last - offset[l]
  <2>1. i \in 1..Len(batch')
    BY <1>5, LenProperties
  <2> QED
    BY <1>4, <1>5, <2>1
<1>7. /\ \A m \in LogNames \ {l} : offset'[m] = offset[m]
      /\ offset'[l] = last
      /\ offset' \in [LogNames -> Nat]
  BY <1>1, <1>2, <1>3, <1>4
<1>13. /\ capped' \in [LogNames -> Nat]
       /\ \A m \in LogNames : capped[m] <= capped'[m] /\ capped'[m] <= Len(lines[m])
       /\ last < Len(lines[l]) => capped'[l] = Len(lines[l])
  <2>1. /\ capped \in [LogNames -> Nat]
        /\ \A m \in LogNames : capped[m] <= Len(lines[m]) /\ Len(lines[m]) \in Nat
    BY <1>2, LenProperties DEF DetectorInv, Typed
  <2>2. CASE last < Len(lines[l])
    <3>1. capped' = [capped EXCEPT ![l] = Len(lines[l])]
      BY <1>1, <2>2
    <3>2. capped'[l] = Len(lines[l]) /\ \A m \in LogNames \ {l} : capped'[m] = capped[m]
      BY <1>3, <2>1, <3>1
    <3>3. capped' \in [LogNames -> Nat]
      BY <1>3, <2>1, <3>1
    <3>4. ASSUME NEW m \in LogNames
          PROVE  capped[m] <= capped'[m] /\ capped'[m] <= Len(lines[m])
      <4>1. capped[m] \in Nat /\ Len(lines[m]) \in Nat /\ capped[m] <= Len(lines[m])
        BY <2>1
      <4>2. CASE m = l
        BY <3>2, <4>1, <4>2
      <4>3. CASE m # l
        BY <3>2, <4>1, <4>3
      <4> QED
        BY <4>2, <4>3
    <3> QED
      BY <3>2, <3>3, <3>4
  <2>3. CASE ~(last < Len(lines[l]))
    <3>1. capped' = capped
      BY <1>1, <2>3
    <3> QED
      BY <2>1, <2>3, <3>1
  <2> QED
    BY <2>2, <2>3
<1>8. Typed'
  BY <1>1, <1>3, <1>5, <1>7, <1>13 DEF DetectorInv, Typed
<1>9. OneLog'
  <2>1. pending' = {} \/ pending' = pending
    BY <1>1 DEF Saved
  <2>2. CASE pending' = {}
    <3>1. \A m \in LogNames : \A i \in DOMAIN lines[m] : lines[m][i].log = m
      BY DEF DetectorInv, OneLog
    <3>2. \A i \in DOMAIN batch' : batch'[i].log = l
      BY <1>3, <1>6, <3>1
    <3> QED
      BY <1>1, <1>3, <2>2, <3>1, <3>2 DEF OneLog
  <2>3. CASE pending' # {}
    <3>1. pending' = pending /\ ~(offset[l] < last)
      BY <1>1, <1>4, <2>3 DEF Saved
    <3>2. DOMAIN batch' = {}
      BY <1>6, <3>1
    <3> QED
      BY <1>1, <3>1, <3>2 DEF DetectorInv, OneLog
  <2> QED
    BY <2>2, <2>3
<1>10. Forgotten' /\ OnlyBacklogStale'
  <2>1. Forgotten'
    BY <1>1 DEF DetectorInv, Forgotten
  <2>2. ASSUME NEW m \in LogNames, NEW i \in DOMAIN lines[m], i > offset[m],
               Stale(lines[m][i])
        PROVE  i <= capped'[m]
    <3>1. i <= capped[m]
      BY <2>2 DEF DetectorInv, OnlyBacklogStale
    <3>2. capped[m] \in Nat /\ capped'[m] \in Nat /\ i \in Nat
      BY <1>2, <1>13, LenProperties DEF DetectorInv, Typed
    <3> QED
      BY <1>13, <3>1, <3>2
  <2>3. ASSUME NEW i \in DOMAIN batch', Stale(batch'[i])
        PROVE  offset'[batch'[i].log] - Len(batch') + i <= capped'[batch'[i].log]
    <3>1. batch'[i] = lines[l][offset[l] + i] /\ batch'[i].log = l
      BY <1>3, <1>6 DEF DetectorInv, OneLog
    <3>2. offset[l] + i <= capped'[l]
      BY <1>3, <1>6, <2>2, <2>3, <3>1
    <3>3. offset'[l] - Len(batch') + i = offset[l] + i
      BY <1>4, <1>6, <1>7
    <3> QED
      BY <3>1, <3>2, <3>3
  <2>4. ASSUME NEW m \in LogNames, NEW i \in DOMAIN lines[m], i > offset'[m],
               Stale(lines[m][i])
        PROVE  i <= capped'[m]
    <3>1. i > offset[m]
      <4>1. CASE m = l
        <5>1. offset[l] <= last \/ ~(i \in 1..Len(lines[l]))
          BY <1>4, DetectorAssumption, <2>4, <4>1, <1>7 DEF ReadTo
        <5> QED
          BY <1>4, <1>7, <2>4, <4>1, <5>1
      <4>2. CASE m # l
        BY <1>7, <2>4, <4>2
      <4> QED
        BY <4>1, <4>2
    <3> QED
      BY <2>2, <2>4, <3>1
  <2>5. pruned' = pruned /\ lines' = lines
    BY <1>1
  <2>6. \A line : line.at + MaxWindow < pruned' <=> Stale(line)
    BY <2>5 DEF Stale
  <2> QED
    BY <2>1, <2>3, <2>4, <2>5, <2>6 DEF OnlyBacklogStale, Stale
<1>11. UnreadIsNew'
  <2> SUFFICES ASSUME NEW m \in LogNames \ ToRead', NEW i \in DOMAIN lines[m],
                      i > offset'[m]
               PROVE  i <= capped'[m] \/ lines[m][i].at + age >= clock
    BY <1>1 DEF UnreadIsNew
  <2>1. CASE m = l
    BY <1>4, <1>7, <1>13, <2>1
  <2>2. CASE m # l
    <3>1. ASSUME NEW j \in DOMAIN todo, todo[j] = m PROVE FALSE
      <4>1. /\ DOMAIN todo = 1..Len(todo) /\ Len(todo) \in Nat
            /\ DOMAIN todo' = 1..(Len(todo) - 1)
            /\ \A k \in 1..(Len(todo) - 1) : todo'[k] = todo[k + 1]
        BY <1>1, <1>2, <1>3, HeadTailProperties, LenProperties
      <4>2. todo[1] = l
        BY <1>1, <1>2 DEF l
      <4>3. j - 1 \in DOMAIN todo' /\ todo'[j - 1] = m
        BY <2>2, <3>1, <4>1, <4>2
      <4> QED
        BY <4>3 DEF ToRead
    <3>2. m \notin ToRead
      BY <3>1 DEF ToRead
    <3>3. offset'[m] = offset[m]
      BY <1>7, <2>2
    <3>4. i <= capped[m] \/ lines[m][i].at + age >= clock
      BY <1>1, <3>2, <3>3 DEF DetectorInv, UnreadIsNew
    <3>5. capped[m] \in Nat /\ capped'[m] \in Nat /\ i \in Nat
      BY <1>2, <1>13, LenProperties DEF DetectorInv, Typed
    <3> QED
      BY <1>13, <3>4, <3>5
  <2> QED
    BY <2>1, <2>2
<1>12. Flagged'
  BY <1>1 DEF DetectorInv, Flagged
<1> QED
  BY <1>8, <1>9, <1>10, <1>11, <1>12 DEF DetectorInv

\* The table flags whom the whole history would.
LEMMA HandleLineStep == DetectorInv /\ signals \subseteq history /\ HandleLine => DetectorInv'
<1> SUFFICES ASSUME DetectorInv, signals \subseteq history, HandleLine PROVE DetectorInv'
  OBVIOUS
<1> DEFINE line == Head(batch)
           new == IF Ignored(line) THEN {} ELSE SignalsOf(line)
           flags(table) == IF ~Ignored(line) /\ Offends(table, line)
                           THEN {line.ip} ELSE {}
<1>1. /\ pc = "read" /\ pc' = "read" /\ batch # <<>> /\ batch' = Tail(batch)
      /\ signals' = signals \cup new
      /\ pending' = pending \cup new
      /\ history' = history \cup new
      /\ offenders' = offenders \cup flags(signals')
      /\ due' = IF LeftBehind(line) THEN due ELSE due \cup flags(history')
      /\ UNCHANGED <<clock, lines, offset, todo, age, answered, pruned, capped>>
  BY DEF HandleLine, backlog
<1>2. Typed /\ batch \in Seq(Line)
  BY DEF DetectorInv, Typed
<1>3. /\ line \in Line /\ line = batch[1] /\ 1 \in DOMAIN batch
      /\ batch' \in Seq(Line)
      /\ \A i \in DOMAIN batch' : /\ i \in Nat /\ i + 1 \in DOMAIN batch
                                   /\ batch'[i] = batch[i + 1]
      /\ Len(batch) \in Nat /\ Len(batch') = Len(batch) - 1
  <2>1. /\ line \in Line /\ Tail(batch) \in Seq(Line) /\ line = batch[1]
        /\ Len(Tail(batch)) = Len(batch) - 1
        /\ \A i \in 1..Len(Tail(batch)) : Tail(batch)[i] = batch[i + 1]
    BY <1>1, <1>2, HeadTailProperties
  <2>2. /\ Len(batch) \in Nat \ {0} /\ DOMAIN batch = 1..Len(batch)
        /\ DOMAIN Tail(batch) = 1..Len(Tail(batch))
    BY <1>1, <1>2, <2>1, EmptySeq, LenProperties
  <2> QED
    BY <1>1, <2>1, <2>2
<1> HIDE DEF line
<1>4. \A row \in new : row.ts \in Nat /\ row.log = line.log
  BY <1>2, <1>3, NewRows
<1>5. \A row \in history' : row.ts \in Nat
  BY <1>1, <1>4 DEF DetectorInv, Typed
<1>6. signals' \subseteq history' /\ history' \ signals' \subseteq history \ signals
  BY <1>1
<1>7. Typed'
  BY <1>1, <1>2, <1>3, <1>5 DEF Typed
<1>8. OneLog'
  <2>1. PICK l \in LogNames : /\ \A row \in pending : row.log = l
                              /\ \A i \in DOMAIN batch : batch[i].log = l
    BY DEF DetectorInv, OneLog
  <2>2. \A row \in pending' : row.log = l
    BY <1>1, <1>3, <1>4, <2>1
  <2>3. \A i \in DOMAIN batch' : batch'[i].log = l
    BY <1>3, <2>1
  <2> QED
    BY <1>1, <2>2, <2>3 DEF DetectorInv, OneLog
<1>9. Forgotten' /\ OnlyBacklogStale'
  <2>1. Forgotten'
    BY <1>1, <1>6 DEF DetectorInv, Forgotten
  <2>2. ASSUME NEW i \in DOMAIN batch', batch'[i].at + MaxWindow < pruned
        PROVE  offset[batch'[i].log] - Len(batch') + i <= capped[batch'[i].log]
    <3>1. batch[i + 1] \in Line /\ batch[i + 1].log \in LogNames
      BY <1>2, <1>3, ElementOfSeq, LenProperties, TimeOfLine
    <3>2. offset[batch[i + 1].log] \in Nat /\ capped[batch[i + 1].log] \in Nat
      BY <3>1 DEF DetectorInv, Typed
    <3>3. offset[batch[i + 1].log] - Len(batch) + (i + 1) <= capped[batch[i + 1].log]
      BY <1>3, <2>2 DEF DetectorInv, OnlyBacklogStale, Stale
    <3> QED
      BY <1>3, <3>2, <3>3
  <2> QED
    BY <1>1, <2>1, <2>2 DEF DetectorInv, OnlyBacklogStale, Stale
<1>10. UnreadIsNew'
  BY <1>1 DEF DetectorInv, UnreadIsNew, ToRead
<1>11. ASSUME ~LeftBehind(line) PROVE flags(signals') = flags(history')
  <2>1. \A row \in history' \ signals' : Past(row, Time(line))
    <3>1. ~(Time(line) + MaxWindow < pruned)
      <4>1. CASE Time(line) = clock
        BY <4>1, WindowBound DEF DetectorInv, Typed
      <4>2. CASE Time(line) = line.at
        BY <1>3, <1>11, <4>2 DEF DetectorInv, OnlyBacklogStale, Stale, LeftBehind
      <4> QED
        BY <4>1, <4>2 DEF Time
    <3>2. ASSUME NEW row \in history \ signals PROVE Past(row, Time(line))
      <4>1. row.ts + 2 * MaxWindow < pruned /\ row.ts \in Nat /\ pruned \in Nat
        BY DEF DetectorInv, Forgotten, Typed
      <4> QED
        BY <1>2, <1>3, <3>1, <4>1, TimeOfLine, WindowBound DEF Past
    <3> QED
      BY <1>6, <3>2
  <2>2. Offends(signals', line) <=> Offends(history', line)
    BY <1>2, <1>3, <1>5, <1>6, <2>1, SameOffends
  <2> QED
    BY <2>2
<1>12. Flagged'
  <2> HIDE DEF flags
  <2> QED
    BY <1>1, <1>11 DEF DetectorInv, Flagged
<1> QED
  BY <1>7, <1>8, <1>9, <1>10, <1>12 DEF DetectorInv

LEMMA CommitAllStep == DetectorInv /\ CommitAll => DetectorInv'
<1> SUFFICES ASSUME DetectorInv, CommitAll PROVE DetectorInv'
  OBVIOUS
<1>1. /\ pc # "off" /\ pc' = "emit" /\ batch = <<>> /\ todo = <<>> /\ pending' = {}
      /\ UNCHANGED <<clock, lines, offset, signals, history, todo, batch, age,
                     offenders, due, answered, pruned, capped>>
  BY DEF CommitAll, backlog
<1>2. Typed' /\ OneLog' /\ Forgotten' /\ OnlyBacklogStale'
  BY <1>1 DEF DetectorInv, Typed, OneLog, Forgotten, OnlyBacklogStale, Stale
<1>3. UnreadIsNew' /\ Flagged'
  BY <1>1 DEF DetectorInv, UnreadIsNew, ToRead, Flagged
<1> QED
  BY <1>2, <1>3 DEF DetectorInv

LEMMA EmitStep == ASSUME DetectorInv, NEW ip \in Ips, Emit(ip) PROVE DetectorInv'
<1>1. /\ pc = "emit" /\ offenders' = offenders \ {ip} /\ answered' = answered \cup {ip}
      /\ UNCHANGED <<clock, lines, offset, signals, pending, history, pc, todo, batch,
                     age, due, pruned, capped>>
  BY DEF Emit, tables, flow, backlog
<1>2. Typed' /\ OneLog' /\ Forgotten' /\ OnlyBacklogStale'
  BY <1>1 DEF DetectorInv, Typed, OneLog, Forgotten, OnlyBacklogStale, Stale
<1>3. UnreadIsNew' /\ Flagged'
  BY <1>1 DEF DetectorInv, UnreadIsNew, ToRead, Flagged
<1> QED
  BY <1>2, <1>3 DEF DetectorInv

\* What is pruned is older than two windows; what was left unread, but for a
\* backlog, is at most as old as the pass, which takes no longer than a window.
LEMMA PruneStep == DetectorInv /\ Prune => DetectorInv'
<1> SUFFICES ASSUME DetectorInv, Prune PROVE DetectorInv'
  OBVIOUS
<1>1. /\ pc = "emit" /\ offenders = {} /\ pc' = "off" /\ age' = 0
      /\ signals' = {row \in signals : Keeps(row)}
      /\ pending' = {} /\ pruned' = clock
      /\ UNCHANGED <<clock, lines, offset, history, todo, batch, offenders, due,
                     answered, capped>>
  BY DEF Prune
<1>2. /\ clock \in Nat /\ age \in Nat /\ age <= MaxPass /\ MaxPass \in Nat
      /\ MaxWindow \in Nat /\ MaxPass <= MaxWindow
      /\ pruned \in Nat /\ pruned <= clock
  BY DetectorAssumption, WindowBound DEF DetectorInv, Typed
<1>3. batch = <<>> /\ DOMAIN batch = {} /\ ToRead = {}
  BY <1>1, EmptySeq DEF DetectorInv, Flagged, ToRead
<1>4. Typed' /\ OneLog' /\ UnreadIsNew' /\ Flagged'
  BY <1>1, <1>2 DEF DetectorInv, Typed, OneLog, UnreadIsNew, Flagged
<1>5. Forgotten'
  <2> SUFFICES ASSUME NEW row \in history \ signals'
               PROVE  row.ts + 2 * MaxWindow < clock
    BY <1>1 DEF Forgotten
  <2>1. row.ts \in Nat
    BY DEF DetectorInv, Typed
  <2>2. CASE row \notin signals
    BY <1>2, <2>1, <2>2 DEF DetectorInv, Forgotten
  <2>3. CASE row \in signals
    BY <1>1, <1>2, <2>1, <2>3 DEF Keeps
  <2> QED
    BY <2>2, <2>3
<1>6. OnlyBacklogStale'
  <2> SUFFICES ASSUME NEW m \in LogNames, NEW i \in DOMAIN lines[m], i > offset[m],
                      lines[m][i].at + MaxWindow < clock
               PROVE  i <= capped[m]
    BY <1>1, <1>3 DEF OnlyBacklogStale, Stale
  <2>1. lines[m] \in Seq(Line) /\ lines[m][i] \in Line
    BY ElementOfSeq, LenProperties DEF DetectorInv, Typed
  <2>2. lines[m][i].at \in Nat
    BY <2>1, TimeOfLine DEF DetectorInv
  <2>3. i <= capped[m] \/ lines[m][i].at + age >= clock
    BY <1>1, <1>3 DEF DetectorInv, UnreadIsNew
  <2> QED
    BY <1>2, <2>2, <2>3
<1> QED
  BY <1>4, <1>5, <1>6 DEF DetectorInv

LEMMA CrashStep == DetectorInv /\ Crash => DetectorInv'
<1> SUFFICES ASSUME DetectorInv, Crash PROVE DetectorInv'
  OBVIOUS
<1>1. /\ signals' = signals \ pending /\ history' = history \ pending
      /\ pending' = {} /\ pc' = "off" /\ todo' = <<>> /\ batch' = <<>> /\ age' = 0
      /\ offenders' = {} /\ due' = {}
      /\ UNCHANGED <<clock, lines, offset, answered, pruned, capped>>
  BY DEF Crash, backlog
<1>2. <<>> \in Seq(LogNames) /\ <<>> \in Seq(Line) /\ DOMAIN batch' = {}
  BY <1>1, EmptySeq
<1>3. history' \ signals' \subseteq history \ signals
  BY <1>1
<1>4. 0 \in 0..MaxPass
  BY DetectorAssumption, WindowBound
<1>5. Typed' /\ OneLog' /\ UnreadIsNew' /\ Flagged'
  BY <1>1, <1>2, <1>4 DEF DetectorInv, Typed, OneLog, UnreadIsNew, Flagged
<1>6. Forgotten' /\ OnlyBacklogStale'
  <2>1. Forgotten'
    BY <1>1, <1>3 DEF DetectorInv, Forgotten
  <2>2. OnlyBacklogStale'
    BY <1>1, <1>2 DEF DetectorInv, OnlyBacklogStale, Stale
  <2> QED
    BY <2>1, <2>2
<1> QED
  BY <1>5, <1>6 DEF DetectorInv

\* The agent's part, and a step that changes nothing.
LEMMA OtherStep ==
    ASSUME DetectorInv, UNCHANGED <<clock, lines, tables, passVars, backlog>>
    PROVE  DetectorInv'
<1>1. UNCHANGED <<clock, lines, offset, signals, pending, history, pc, todo, batch, age,
                  offenders, due, answered, pruned, capped>>
  BY DEF tables, passVars, flow, backlog
<1>2. Typed' /\ OneLog' /\ Forgotten' /\ OnlyBacklogStale'
  BY <1>1 DEF DetectorInv, Typed, OneLog, Forgotten, OnlyBacklogStale, Stale
<1>3. UnreadIsNew' /\ Flagged'
  BY <1>1 DEF DetectorInv, UnreadIsNew, ToRead, Flagged
<1> QED
  BY <1>2, <1>3 DEF DetectorInv

\* The table is part of its history.
Kept == signals \subseteq history /\ pending \subseteq history

LEMMA KeptStep == Kept /\ [Next]_vars => Kept'
<1> SUFFICES ASSUME Kept, [Next]_vars PROVE Kept'
  OBVIOUS
<1>1. ASSUME UNCHANGED tables PROVE Kept'
  BY <1>1 DEF Kept, tables
<1>2. CASE Tick \/ Begin
  BY <1>1, <1>2 DEF Tick, Begin
<1>3. ASSUME NEW l \in LogNames, NEW ip \in Ips, NEW request \in Shows,
             Write(l, ip, request)
      PROVE  Kept'
  BY <1>1, <1>3 DEF Write
<1>4. ASSUME NEW ip \in Ips, Emit(ip) \/ Apply(ip) \/ Reap(ip) PROVE Kept'
  BY <1>1, <1>4 DEF Emit, Apply, Reap
<1>5. CASE ReadLog
  BY <1>5 DEF ReadLog, Saved, Kept
<1>6. CASE HandleLine
  BY <1>6 DEF HandleLine, Kept
<1>7. CASE CommitAll \/ Prune \/ Crash
  BY <1>7 DEF CommitAll, Prune, Crash, Kept
<1>8. CASE UNCHANGED vars
  BY <1>1, <1>8 DEF vars
<1> QED
  BY <1>2, <1>3, <1>4, <1>5, <1>6, <1>7, <1>8 DEF Next

LEMMA StepInv == DetectorInv /\ Kept /\ [Next]_vars => DetectorInv'
<1> SUFFICES ASSUME DetectorInv, Kept, [Next]_vars PROVE DetectorInv'
  OBVIOUS
<1>1. CASE Tick \/ Begin \/ ReadLog
  BY <1>1, TickStep, BeginStep, ReadLogStep
<1>2. CASE HandleLine
  BY <1>2, HandleLineStep DEF Kept
<1>3. CASE CommitAll \/ Prune \/ Crash
  BY <1>3, CommitAllStep, PruneStep, CrashStep
<1>4. ASSUME NEW l \in LogNames, NEW ip \in Ips, NEW request \in Shows,
             Write(l, ip, request)
      PROVE  DetectorInv'
  BY <1>4, WriteStep
<1>5. ASSUME NEW ip \in Ips, Emit(ip) PROVE DetectorInv'
  BY <1>5, EmitStep
<1>6. ASSUME NEW ip \in Ips, Apply(ip) \/ Reap(ip) PROVE DetectorInv'
  BY <1>6, OtherStep DEF Apply, Reap
<1>7. CASE UNCHANGED vars
  BY <1>7, OtherStep DEF vars
<1> QED
  BY <1>1, <1>2, <1>3, <1>4, <1>5, <1>6, <1>7 DEF Next

-----------------------------------------------------------------------------
(* The theorems.                                                           *)

LEMMA AlwaysInv == Spec => [](DetectorInv /\ Kept)
<1>1. Init => Kept
  BY DEF Init, Kept
<1> QED
  BY <1>1, InitInv, StepInv, KeptStep, PTL DEF Spec

\* A pass that ended reported whom the whole history of signals convicts, though
\* it looks only at what was not pruned (detect.py:254-282, 312-331).
THEOREM OffenderReportedHolds == Spec => []OffenderReported
<1>1. DetectorInv => OffenderReported
  BY DEF DetectorInv, Flagged, OffenderReported
<1> QED
  BY <1>1, AlwaysInv, PTL

\* The rows of the open transaction are of one log (detect.py:286-311,
\* state.py:281-302).
THEOREM CrashLosesOneLogHolds == Spec => []CrashLosesOneLog
<1>1. DetectorInv => CrashLosesOneLog
  BY DEF DetectorInv, OneLog, CrashLosesOneLog
<1> QED
  BY <1>1, AlwaysInv, PTL
=============================================================================
