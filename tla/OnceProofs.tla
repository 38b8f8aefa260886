----------------------------- MODULE OnceProofs -----------------------------
(***************************************************************************)
(* What a node takes from outside it takes once: events from the bus,      *)
(* lines from a log.                                                       *)
(*                                                                         *)
(* ReplayGuard for any events, clocks and delivery, under                  *)
(* RetentionAssumption: the inductive invariant ReplayInv, what follows    *)
(* from it, and that ReplayGuard implements AtMostOnce.                    *)
(*                                                                         *)
(* LogTail for any log, chunk size, rotations, truncations and crashes,    *)
(* under TailAssumption: the inductive invariant TailInv, and that lines   *)
(* are scored once, in order, and none that is complete is passed over.    *)
(***************************************************************************)
EXTENDS ReplayGuard, LogTail, SequenceTheorems, FiniteSetTheorems, TLAPS


----------------------------------------------------------------------------
\* Freshness makes up for what dedupe forgot: a copy the node may accept is
\* of an event whose handler was never entered, and not of its own.
LEMMA AcceptedIsNew ==
    ASSUME ReplayInv, NEW m \in wire, m.id \in Enforcement, Deliver(m)
    PROVE  /\ m.id \notin Own
           /\ claimed[m.id] = 0
           /\ firstTs[m.id] <= now + MaxAge
<1>1. m.id \in Ids /\ m.ts \in Int /\ now \in Nat /\ firstTs[m.id] \in Int
  BY DEF ReplayInv, TypeOK, Copies
<1>2. /\ m.id \in tried
      /\ firstTs[m.id] <= m.ts
      /\ m.ts <= firstTs[m.id] + Spread
  BY DEF ReplayInv, WireInSpread
<1>3. now - m.ts <= MaxAge /\ m.ts - now <= MaxAge
  BY DEF Deliver, Fresh
<1>4. ~TooLate(m.id)
  BY <1>1, <1>2, <1>3, ConstantsAssumption DEF TooLate
<1>5. ~Spent(m.id)
  BY <1>4 DEF ReplayInv, Remembered, Deliver
<1>6. claimed[m.id] \in Nat
  BY <1>1 DEF ReplayInv, TypeOK
<1>7. firstTs[m.id] <= now + MaxAge
  BY <1>1, <1>2, <1>3, ConstantsAssumption
<1> QED
  BY <1>2, <1>5, <1>6, <1>7 DEF Spent

\* Only an event that is too late for freshness is forgotten.
LEMMA PrunedIsTooLate ==
    ASSUME ReplayInv, NEW id \in Enforcement, Spent(id),
           seen[id] # Unseen, seen[id] < now - Retention
    PROVE  TooLate(id)
<1>1. /\ id \in Ids /\ now \in Nat /\ firstTs[id] \in Int
      /\ seen[id] \in Nat \cup {Unseen}
  BY ConstantsAssumption DEF ReplayInv, TypeOK
<1>2. TooLate(id) \/ firstTs[id] <= seen[id] + MaxAge
  BY DEF ReplayInv, Remembered
<1> QED
  BY <1>1, <1>2, ConstantsAssumption, RetentionAssumption
     DEF TooLate, Unseen

----------------------------------------------------------------------------
LEMMA InitReplayInv == Init => ReplayInv
BY ConstantsAssumption
   DEF Init, ReplayInv, TypeOK, WireInSpread, SentFirst, Remembered, Spent,
       ClaimInProgress, NoReplay, Unseen, Copies

\* Sending, by a peer or by the node itself.
LEMMA AttemptReplayInv ==
    ASSUME ReplayInv, NEW id \in Ids, PeerSends(id) \/ OwnPublish(id)
    PROVE  ReplayInv'
<1> USE ConstantsAssumption
<1>1. PICK ts \in Int : /\ Attempt(id, ts)
                        /\ id \in Own => ts = now
                        /\ seen' = IF id \in Own THEN MarkSeen(id)
                                                 ELSE seen
  <2>1. now \in Int /\ \A x \in (now - Skew)..(now + Skew) : x \in Int
    BY DEF ReplayInv, TypeOK
  <2>2. CASE PeerSends(id)
    BY <2>1, <2>2 DEF PeerSends
  <2>3. CASE OwnPublish(id)
    BY <2>1, <2>3 DEF OwnPublish, MarkSeen
  <2> QED
    BY <2>2, <2>3
<1>2. TypeOK'
  <2>1. firstTs' \in [Ids -> Int]
    BY <1>1 DEF ReplayInv, TypeOK, Attempt
  <2>2. seen' \in [Ids -> Nat \cup {Unseen}]
    BY <1>1 DEF ReplayInv, TypeOK, MarkSeen
  <2>3. wire' \subseteq Copies
    BY <1>1 DEF ReplayInv, TypeOK, Attempt, Copies
  <2> QED
    BY <1>1, <2>1, <2>2, <2>3 DEF ReplayInv, TypeOK, Attempt
<1>3. \A i \in Ids : i \in tried => firstTs'[i] = firstTs[i]
  BY <1>1 DEF ReplayInv, TypeOK, Attempt
<1>4. firstTs'[id] <= ts /\ ts <= firstTs'[id] + Spread
  BY <1>1 DEF ReplayInv, TypeOK, Attempt
<1>5. WireInSpread'
  BY <1>1, <1>3, <1>4 DEF ReplayInv, TypeOK, Copies, WireInSpread, Attempt
<1>6. SentFirst'
  BY <1>1 DEF ReplayInv, TypeOK, SentFirst, Attempt, MarkSeen
<1>7. Remembered'
  <2> SUFFICES ASSUME NEW i \in Enforcement, Spent(i)'
               PROVE  \/ seen'[i] # Unseen /\ firstTs'[i] <= seen'[i] + MaxAge
                      \/ TooLate(i)'
    BY DEF Remembered
  <2>1. CASE Spent(i)
    <3>1. i \in tried
      BY <2>1 DEF Spent, ReplayInv, SentFirst
    <3>2. firstTs'[i] = firstTs[i] /\ now' = now
      BY <1>1, <1>3, <3>1 DEF Attempt
    <3>3. seen[i] # Unseen => seen'[i] = seen[i]
      BY <1>1 DEF ReplayInv, TypeOK, MarkSeen
    <3> QED
      BY <2>1, <3>2, <3>3 DEF ReplayInv, Remembered, TooLate
  <2>2. CASE ~Spent(i)
    <3>1. i = id /\ id \in Own /\ id \notin tried
      BY <1>1, <2>2 DEF Spent, Attempt
    <3>2. seen[i] = Unseen
      BY <3>1 DEF ReplayInv, SentFirst
    <3>3. seen'[i] = now /\ now \in Nat
      BY <1>1, <3>1, <3>2 DEF ReplayInv, TypeOK, MarkSeen
    <3>4. firstTs'[i] = now
      BY <1>1, <3>1 DEF Attempt, ReplayInv, TypeOK
    <3> QED
      BY <3>3, <3>4 DEF Unseen
  <2> QED
    BY <2>1, <2>2
<1>8. ClaimInProgress' /\ NoReplay'
  BY <1>1 DEF ReplayInv, ClaimInProgress, NoReplay, Attempt
<1> QED
  BY <1>2, <1>5, <1>6, <1>7, <1>8 DEF ReplayInv

\* Accepting an event.
LEMMA DeliverReplayInv ==
    ASSUME ReplayInv, NEW m \in wire, Deliver(m)
    PROVE  ReplayInv'
<1> USE ConstantsAssumption
<1>1. m.id \in Ids /\ m.id \in tried /\ now \in Nat
  BY DEF ReplayInv, TypeOK, Copies, WireInSpread
<1>2. /\ seen' = [seen EXCEPT ![m.id] = now]
      /\ claimed' = [claimed EXCEPT ![m.id] = @ + 1]
      /\ handling = NoId /\ handling' = m.id
      /\ UNCHANGED <<now, firstTs, tried, wire, applied>>
  BY <1>1 DEF Deliver, MarkSeen, ReplayInv, TypeOK
<1>3. TypeOK'
  BY <1>1, <1>2 DEF ReplayInv, TypeOK
<1>4. WireInSpread' /\ SentFirst'
  BY <1>1, <1>2 DEF ReplayInv, TypeOK, WireInSpread, SentFirst
<1>5. Remembered'
  <2> SUFFICES ASSUME NEW i \in Enforcement, Spent(i)'
               PROVE  \/ seen'[i] # Unseen /\ firstTs'[i] <= seen'[i] + MaxAge
                      \/ TooLate(i)'
    BY DEF Remembered
  <2>1. CASE i = m.id
    BY <1>1, <1>2, <2>1, AcceptedIsNew DEF ReplayInv, TypeOK, Unseen
  <2>2. CASE i # m.id
    BY <1>1, <1>2, <2>2
       DEF ReplayInv, TypeOK, Remembered, Spent, TooLate
  <2> QED
    BY <2>1, <2>2
<1>6. ClaimInProgress'
  BY <1>1, <1>2 DEF ReplayInv, TypeOK, ClaimInProgress
<1>7. NoReplay'
  BY <1>1, <1>2, AcceptedIsNew DEF ReplayInv, TypeOK, NoReplay
<1> QED
  BY <1>3, <1>4, <1>5, <1>6, <1>7 DEF ReplayInv

\* The end of a handler, however it ends.
LEMMA HandlerEndReplayInv ==
    ASSUME ReplayInv, Apply \/ Abandon
    PROVE  ReplayInv'
<1> USE ConstantsAssumption
<1>1. /\ handling \in Ids /\ handling' = NoId
      /\ applied' \in {applied, [applied EXCEPT ![handling] = @ + 1]}
      /\ UNCHANGED <<now, firstTs, tried, wire, seen, claimed>>
  BY DEF Apply, Abandon, ReplayInv, TypeOK
<1>2. TypeOK'
  BY <1>1 DEF ReplayInv, TypeOK
<1>3. WireInSpread' /\ SentFirst' /\ Remembered' /\ NoReplay'
  BY <1>1 DEF ReplayInv, WireInSpread, SentFirst, Remembered, Spent, TooLate,
              NoReplay
<1>4. ClaimInProgress'
  BY <1>1 DEF ReplayInv, TypeOK, ClaimInProgress
<1> QED
  BY <1>2, <1>3, <1>4 DEF ReplayInv

LEMMA PruneReplayInv ==
    ASSUME ReplayInv, Prune
    PROVE  ReplayInv'
<1> USE ConstantsAssumption
<1>1. /\ seen' = [id \in Ids |-> IF seen[id] < now - Retention
                                 THEN Unseen ELSE seen[id]]
      /\ UNCHANGED <<now, firstTs, tried, wire, handling, claimed, applied>>
  BY DEF Prune
<1>2. TypeOK'
  BY <1>1 DEF ReplayInv, TypeOK
<1>3. WireInSpread' /\ SentFirst' /\ ClaimInProgress' /\ NoReplay'
  BY <1>1 DEF ReplayInv, WireInSpread, SentFirst, ClaimInProgress, NoReplay
<1>4. Remembered'
  <2> SUFFICES ASSUME NEW i \in Enforcement, Spent(i)'
               PROVE  \/ seen'[i] # Unseen /\ firstTs'[i] <= seen'[i] + MaxAge
                      \/ TooLate(i)'
    BY DEF Remembered
  <2>1. Spent(i) /\ i \in Ids
    BY <1>1 DEF Spent
  <2>2. \/ TooLate(i)
        \/ /\ seen'[i] = seen[i] /\ seen[i] # Unseen
           /\ firstTs[i] <= seen[i] + MaxAge
    BY <1>1, <2>1, PrunedIsTooLate DEF ReplayInv, Remembered
  <2> QED
    BY <1>1, <2>2 DEF TooLate
<1> QED
  BY <1>2, <1>3, <1>4 DEF ReplayInv

LEMMA TickReplayInv ==
    ASSUME ReplayInv, Tick
    PROVE  ReplayInv'
<1> USE ConstantsAssumption
<1>1. /\ now' = now + 1
      /\ UNCHANGED <<firstTs, tried, wire, seen, handling, claimed, applied>>
  BY DEF Tick
<1>2. TypeOK'
  BY <1>1 DEF ReplayInv, TypeOK
<1>3. WireInSpread' /\ SentFirst' /\ ClaimInProgress' /\ NoReplay'
  BY <1>1 DEF ReplayInv, WireInSpread, SentFirst, ClaimInProgress, NoReplay
<1>4. \A i \in Enforcement : TooLate(i) => TooLate(i)'
  BY <1>1 DEF ReplayInv, TypeOK, TooLate
<1>5. Remembered'
  BY <1>1, <1>4 DEF ReplayInv, Remembered, Spent
<1> QED
  BY <1>2, <1>3, <1>5 DEF ReplayInv

----------------------------------------------------------------------------
\* ReplayInv is inductive.
LEMMA StepReplayInv == ReplayInv /\ [Next]_vars => ReplayInv'
<1> SUFFICES ASSUME ReplayInv, [Next]_vars PROVE ReplayInv'
  OBVIOUS
<1>1. ASSUME NEW id \in Ids, PeerSends(id) \/ OwnPublish(id) PROVE ReplayInv'
  BY <1>1, AttemptReplayInv
<1>2. ASSUME NEW m \in wire, Deliver(m) PROVE ReplayInv'
  BY <1>2, DeliverReplayInv
<1>3. CASE Apply \/ Abandon
  BY <1>3, HandlerEndReplayInv
<1>4. CASE Prune
  BY <1>4, PruneReplayInv
<1>5. CASE Tick
  BY <1>5, TickReplayInv
<1>6. CASE UNCHANGED vars
  BY <1>6 DEF vars, ReplayInv, TypeOK, WireInSpread, SentFirst, Remembered,
              Spent, TooLate, ClaimInProgress, NoReplay
<1> QED
  BY <1>1, <1>2, <1>3, <1>4, <1>5, <1>6 DEF Next

\* ReplayInv always holds, for every set of events, clock error and retry
\* window that the retention covers.
THEOREM ReplayInvariance == Spec => []ReplayInv
BY InitReplayInv, StepReplayInv, PTL DEF Spec

\* The variables keep their types.
THEOREM TypeInvariance == Spec => []TypeOK
<1>1. ReplayInv => TypeOK
  BY DEF ReplayInv
<1> QED
  BY <1>1, ReplayInvariance, PTL

\* No enforcement event is accepted twice and no announcement of the node's
\* own comes back to it, whatever the broker repeats or delays and whenever
\* prune_seen runs.
THEOREM NoReplayHolds == Spec => []NoReplay
<1>1. ReplayInv => NoReplay
  BY DEF ReplayInv
<1> QED
  BY <1>1, ReplayInvariance, PTL

----------------------------------------------------------------------------
\* Every step is one of AtMostOnce's, or a stutter of it.
LEMMA StepImplementsAtMostOnce ==
    ReplayInv /\ [Next]_vars => [Promise!Next]_(Promise!vars)
<1> DEFINE begun == [id \in Enforcement |-> claimed[id]]
           done == [id \in Enforcement |-> applied[id]]
<1> SUFFICES ASSUME ReplayInv, [Next]_vars,
                    ~(UNCHANGED <<claimed, applied>>)
             PROVE  Promise!Next \/ UNCHANGED <<begun, done>>
  <2>1. UNCHANGED <<claimed, applied>> => UNCHANGED <<begun, done>>
    OBVIOUS
  <2> QED
    BY <2>1 DEF Promise!vars
<1> USE ConstantsAssumption
<1>1. ASSUME NEW m \in wire, Deliver(m)
      PROVE  Promise!Next \/ UNCHANGED <<begun, done>>
  <2>1. /\ claimed' = [claimed EXCEPT ![m.id] = @ + 1]
        /\ claimed \in [Ids -> Nat] /\ UNCHANGED applied
    BY <1>1 DEF Deliver, ReplayInv, TypeOK
  <2>2. CASE m.id \notin Enforcement
    BY <2>1, <2>2
  <2>3. CASE m.id \in Enforcement
    <3>1. m.id \notin Own /\ claimed[m.id] = 0
      BY <1>1, <2>3, AcceptedIsNew
    <3>2. \A i \in Enforcement :
             claimed'[i] = IF i = m.id THEN 1 ELSE claimed[i]
      BY <2>1, <2>3, <3>1
    <3>3. Promise!Begin(m.id)
      BY <2>1, <2>3, <3>1, <3>2 DEF Promise!Begin
    <3> QED
      BY <2>3, <3>3 DEF Promise!Next
  <2> QED
    BY <2>2, <2>3
<1>2. ASSUME NEW id \in Ids, id = handling, Apply
      PROVE  Promise!Next \/ UNCHANGED <<begun, done>>
  <2>1. /\ applied' = [applied EXCEPT ![id] = @ + 1]
        /\ applied \in [Ids -> Nat] /\ claimed \in [Ids -> Nat]
        /\ UNCHANGED claimed
    BY <1>2 DEF Apply, ReplayInv, TypeOK
  <2>2. CASE id \notin Enforcement
    BY <2>1, <2>2
  <2>3. CASE id \in Enforcement
    <3>1. claimed[id] = 1 /\ applied[id] = 0
      BY <1>2, <2>1, <2>3 DEF ReplayInv, NoReplay, ClaimInProgress
    <3>2. \A i \in Enforcement :
             applied'[i] = IF i = id THEN 1 ELSE applied[i]
      BY <2>1, <2>3, <3>1
    <3>3. Promise!Finish(id)
      BY <2>1, <2>3, <3>1, <3>2 DEF Promise!Finish
    <3> QED
      BY <2>3, <3>3 DEF Promise!Next
  <2> QED
    BY <2>2, <2>3
<1>3. Apply => handling \in Ids
  BY DEF Apply, ReplayInv, TypeOK
<1> QED
  BY <1>1, <1>2, <1>3 DEF Next, vars, PeerSends, OwnPublish, Attempt, Abandon, Prune,
                    Tick

\* ReplayGuard implements AtMostOnce: seen from its handlers, a node that
\* forgets events after the retention is one that never forgets.
THEOREM ReplayGuardImplements == Spec => ImplementsAtMostOnce
<1>1. Init => Promise!Init
  BY ConstantsAssumption DEF Init, Promise!Init
<1> QED
  BY <1>1, StepImplementsAtMostOnce, ReplayInvariance, PTL
     DEF Spec, ImplementsAtMostOnce, Promise!Spec

-----------------------------------------------------------------------------
-----------------------------------------------------------------------------
(* LogTail: its invariant.                                                 *)

\* Lines follow each other, each from its first piece to the one with the
\* newline, and without gap.
Shaped(f) ==
    /\ f \in Seq(Piece)
    /\ \A i, j \in DOMAIN f : i < j => /\ f[i].line <= f[j].line
                                       /\ f[i].last => f[i].line < f[j].line
                                       /\ f[j].first => f[i].line < f[j].line
    /\ \A i, j \in DOMAIN f : \A line \in f[i].line..f[j].line :
          \E k \in DOMAIN f : f[k].line = line

Begun(f, line) == \E i \in DOMAIN f : f[i].line = line /\ f[i].first

\* A file begins with its first line; a part of it may begin within a line.
Whole(f) == \A i \in DOMAIN f : Begun(f, f[i].line)
Started(f) ==
    \A i, j \in DOMAIN f : f[i].line < f[j].line => Begun(f, f[j].line)

FileInv ==
    /\ Shaped(file) /\ lines \in Nat
    /\ Whole(file) /\ \A i \in DOMAIN file : file[i].line \in 1..lines
    /\ file # <<>> => file[Len(file)].line = lines

\* What a pass has read ends with a newline.
ChunkInv ==
    /\ Shaped(chunk) /\ Started(chunk)
    /\ \A k \in DOMAIN chunk : chunk[k].line \in 1..lines
    /\ chunk # <<>> => pc = "save" /\ chunk[Len(chunk)].last
    /\ batch # <<>> => pc = "score"

\* Lines that are taken for good, and those that need no further reading.
Taken == Elements(scored) \cup Elements(batch)
Accounted == Taken \cup excused

\* A place to read on from: what is before it is accounted for, and the lines
\* that begin behind it are newer than all that was taken.
Behind(f, place, known) == \A i \in DOMAIN f : i <= place => f[i].line \in known
Ahead(f, place, older) ==
    \A i \in DOMAIN f : place < i /\ f[i].first => \A line \in older : line < f[i].line
Resumable(f, place, known, older) ==
    place \in 0..Len(f) /\ Behind(f, place, known) /\ Ahead(f, place, older)

\* The saved offset is good for its own file, and so is a pass's.
OffsetsSound ==
    /\ savedFor \in Nat /\ statFor \in Nat /\ rotations \in Nat
    /\ savedFor <= statFor /\ statFor <= rotations
    /\ savedFor = rotations
         => /\ Resumable(file, saved.offset, Accounted, Taken)
            /\ saved.inode = inode \/ saved.offset = 0
    /\ savedFor # rotations => Ahead(file, 0, Taken)
    /\ pc \in {"uptodate", "open", "save"} /\ statFor = rotations
         => Resumable(file, offset, Accounted, Taken) /\ stat = inode
    /\ pc = "open" => statFor = rotations

PartOf(c, f, place) ==
    /\ c \in Seq(Piece) /\ place \in Nat /\ place + Len(c) <= Len(f)
    /\ \A k \in DOMAIN c : c[k] = f[place + k]

\* A chunk is a part of its file, or older than the file that replaced it; a
\* line that began before the chunk did is accounted for.
ChunkSound ==
    /\ pc = "save" /\ statFor = rotations => PartOf(chunk, file, offset)
    /\ statFor # rotations
         => \A k \in DOMAIN chunk, i \in DOMAIN file : chunk[k].line < file[i].line
    /\ \A k \in DOMAIN chunk :
          \/ Begun(chunk, chunk[k].line) /\ \A line \in Taken : line < chunk[k].line
          \/ ~Begun(chunk, chunk[k].line) /\ chunk[k].line \in Accounted

\* A line that is not accounted for is newer than all that was taken, and there
\* to be read.
NothingLost ==
    \A line \in (1..lines) \ Accounted :
        /\ \A older \in Taken : older < line
        /\ line \in LinesOf(file) \cup LinesOf(chunk)

Increasing(s) == \A i, j \in DOMAIN s : i < j => s[i] < s[j]

InOrder ==
    /\ scored \in Seq(Nat) /\ batch \in Seq(Nat)
    /\ Increasing(scored) /\ Increasing(batch)
    /\ \A older \in Elements(scored), line \in Elements(batch) : older < line
    /\ Taken \subseteq 1..lines

Sound == OffsetsSound /\ ChunkSound /\ NothingLost /\ InOrder

OffsetsTyped == offset \in Nat /\ saved.offset \in Nat

TailInv == FileInv /\ ChunkInv /\ OffsetsTyped /\ (raced \/ Sound)

-----------------------------------------------------------------------------
LEMMA LeastOf ==
  ASSUME NEW T, T \subseteq Nat, T # {}
  PROVE  \E x \in T : \A y \in T : x <= y
<1>1. PICK m \in T : m \in Nat
  OBVIOUS
<1> DEFINE F == {1..k : k \in {n \in T : n <= m}}
           R == StrictSubsetOrdering(1..m)
<1>2. IsWellFoundedOn(R, SUBSET (1..m))
  <2>1. IsFiniteSet(1..m)
    BY <1>1, FS_Interval
  <2>2. FiniteSubsetsOf(1..m) = SUBSET (1..m)
    BY <2>1, FS_FiniteSubsetsOfFinite
  <2> QED
    BY <2>2, FS_StrictSubsetOrderingWellFounded
<1>3. F \subseteq SUBSET (1..m) /\ F # {}
  BY <1>1
<1>4. PICK s \in F : \A t \in F : ~(<<t, s>> \in R)
  <2> HIDE DEF F, R
  <2> QED
    BY <1>2, <1>3, WFMin
<1>5. PICK x \in T : x <= m /\ s = 1..x
  BY <1>4
<1>6. ASSUME NEW y \in T, y < x PROVE FALSE
  <2>1. y \in Nat /\ x \in Nat /\ y <= m
    BY <1>1, <1>5, <1>6
  <2>2. 1..y \in F
    BY <2>1
  <2>3. 1..y \subseteq 1..x /\ x \in 1..x /\ x \notin 1..y
    BY <1>6, <2>1
  <2>4. <<1..y, 1..x>> \in R
    BY <1>3, <1>4, <1>5, <2>2, <2>3 DEF StrictSubsetOrdering
  <2> QED
    BY <1>4, <1>5, <2>2, <2>4
<1>7. \A y \in T : x <= y
  BY <1>5, <1>6
<1> QED
  BY <1>7

\* Sets of numbers with a bound have a greatest one.
LEMMA GreatestOf ==
  ASSUME NEW n \in Nat, NEW T, T \subseteq 0..n, T # {}
  PROVE  \E x \in T : \A y \in T : x >= y
<1> DEFINE U == {n - t : t \in T}
<1>1. U \subseteq Nat /\ U # {}
  <2>1. \A t \in T : t \in 0..n /\ n - t \in Nat
    OBVIOUS
  <2> QED
    BY <2>1
<1>2. PICK u \in U : \A v \in U : u <= v
  BY <1>1, LeastOf
<1>3. PICK x \in T : u = n - x
  BY <1>2
<1>4. ASSUME NEW y \in T PROVE x >= y
  <2>1. n - y \in U
    OBVIOUS
  <2>2. n - x <= n - y
    BY <1>2, <1>3, <2>1
  <2> QED
    BY <2>2, <1>3
<1> QED
  BY <1>4

-----------------------------------------------------------------------------
(* LogTail: pieces of files.                                               *)

\* Files and what is known of their pieces.
LEMMA PiecesOf ==
  ASSUME NEW f \in Seq(Piece)
  PROVE  /\ Len(f) \in Nat /\ DOMAIN f = 1..Len(f)
         /\ \A i \in DOMAIN f : /\ f[i] \in Piece /\ f[i].line \in Nat
                                /\ f[i].first \in BOOLEAN /\ f[i].last \in BOOLEAN
<1>1. Len(f) \in Nat /\ DOMAIN f = 1..Len(f)
  BY LenProperties
<1>2. \A i \in 1..Len(f) : f[i] \in Piece
  BY ElementOfSeq
<1> QED
  BY <1>1, <1>2 DEF Piece

\* A part of a file is one.
LEMMA PartShaped ==
  ASSUME NEW f, Shaped(f), NEW c, NEW o, PartOf(c, f, o)
  PROVE  Shaped(c)
<1> DEFINE m == Len(c)
           n == Len(f)
<1>1. f \in Seq(Piece) /\ c \in Seq(Piece) /\ o \in Nat
  BY DEF Shaped, PartOf
<1>2. /\ m \in Nat /\ DOMAIN c = 1..m /\ n \in Nat /\ DOMAIN f = 1..n
      /\ o + m <= n
  BY <1>1, PiecesOf DEF PartOf
<1>3. \A i \in DOMAIN f : f[i].line \in Nat
  BY <1>1, PiecesOf
<1> HIDE DEF m, n
<1>4. \A k \in DOMAIN c : o + k \in DOMAIN f /\ c[k] = f[o + k]
  BY <1>2 DEF PartOf
<1>5. \A i, j \in DOMAIN c : i < j => o + i < o + j
  BY <1>1, <1>2
<1>6. \A i, j \in DOMAIN c : i < j => /\ c[i].line <= c[j].line
                                      /\ c[i].last => c[i].line < c[j].line
                                      /\ c[j].first => c[i].line < c[j].line
  BY <1>4, <1>5 DEF Shaped
<1>7. ASSUME NEW i \in DOMAIN c, NEW j \in DOMAIN c, NEW line \in c[i].line..c[j].line
      PROVE  \E k \in DOMAIN c : c[k].line = line
  <2>1. CASE line = c[i].line \/ line = c[j].line
    BY <2>1
  <2>2. CASE c[i].line < line /\ line < c[j].line
    <3>1. PICK k \in DOMAIN f : f[k].line = line
      BY <1>4, <1>7 DEF Shaped
    <3>2. /\ o + i \in DOMAIN f /\ o + j \in DOMAIN f
          /\ f[o + i].line < f[k].line /\ f[k].line < f[o + j].line
      BY <1>4, <2>2, <3>1
    <3>3. \A x, y \in DOMAIN f : f[x].line < f[y].line => x < y
      <4>1. \A x, y \in DOMAIN f : y < x => f[y].line <= f[x].line
        BY DEF Shaped
      <4> QED
        BY <1>2, <1>3, <4>1
    <3>5. o + i < k /\ k < o + j
      BY <3>2, <3>3
    <3>4. k - o \in DOMAIN c /\ o + (k - o) = k
      BY <1>1, <1>2, <3>5
    <3> QED
      BY <1>4, <3>1, <3>4
  <2>3. c[i].line \in Nat /\ c[j].line \in Nat
    BY <1>3, <1>4
  <2> QED
    BY <2>1, <2>2, <2>3
<1> QED
  BY <1>1, <1>6, <1>7 DEF Shaped

\* Where the lines of a part begin.
LEMMA PartStarts ==
  ASSUME NEW f, Shaped(f), Whole(f), NEW c, NEW o, PartOf(c, f, o), NEW k \in DOMAIN c
  PROVE  \/ Begun(c, c[k].line)
         \/ \E i \in DOMAIN f : i <= o /\ f[i].line = c[k].line
<1> DEFINE m == Len(c)
           n == Len(f)
<1>1. f \in Seq(Piece) /\ c \in Seq(Piece) /\ o \in Nat
  BY DEF Shaped, PartOf
<1>2. /\ m \in Nat /\ DOMAIN c = 1..m /\ n \in Nat /\ DOMAIN f = 1..n
      /\ o + m <= n
  BY <1>1, PiecesOf DEF PartOf
<1>3. \A i \in DOMAIN f : f[i].line \in Nat
  BY <1>1, PiecesOf
<1> HIDE DEF m, n
<1>4. o + k \in DOMAIN f /\ c[k] = f[o + k]
  BY <1>2 DEF PartOf
<1>5. PICK i \in DOMAIN f : f[i].line = c[k].line /\ f[i].first
  BY <1>4 DEF Begun, Whole
<1>6. ~(o + k < i)
  BY <1>2, <1>3, <1>4, <1>5 DEF Shaped
<1>7. CASE o < i
  <2>1. i - o \in DOMAIN c /\ o + (i - o) = i
    BY <1>1, <1>2, <1>6, <1>7
  <2>2. c[i - o] = f[i]
    BY <2>1 DEF PartOf
  <2> QED
    BY <1>5, <2>1, <2>2 DEF Begun
<1>8. CASE i <= o
  BY <1>5, <1>8
<1> QED
  BY <1>1, <1>2, <1>7, <1>8

LEMMA PartStarted ==
  ASSUME NEW f, Shaped(f), Whole(f), NEW c, NEW o, PartOf(c, f, o)
  PROVE  Started(c)
<1> SUFFICES ASSUME NEW i \in DOMAIN c, NEW j \in DOMAIN c, c[i].line < c[j].line,
                    ~Begun(c, c[j].line)
             PROVE  FALSE
  BY DEF Started
<1> DEFINE m == Len(c)
           n == Len(f)
<1>1. f \in Seq(Piece) /\ c \in Seq(Piece) /\ o \in Nat
  BY DEF Shaped, PartOf
<1>2. /\ m \in Nat /\ DOMAIN c = 1..m /\ n \in Nat /\ DOMAIN f = 1..n
      /\ o + m <= n
  BY <1>1, PiecesOf DEF PartOf
<1>3. \A k \in DOMAIN f : f[k].line \in Nat
  BY <1>1, PiecesOf
<1>4. PICK k \in DOMAIN f : k <= o /\ f[k].line = c[j].line
  BY PartStarts
<1> HIDE DEF m, n
<1>5. o + i \in DOMAIN f /\ c[i] = f[o + i] /\ k < o + i
  BY <1>2, <1>4 DEF PartOf
<1> QED
  BY <1>3, <1>4, <1>5 DEF Shaped

\* The consumed part of what was read ends with a newline.
LEMMA ConsumedEnds ==
  ASSUME NEW p \in Seq(Piece)
  PROVE  /\ Consumed(p) \in Seq(Piece) /\ Len(Consumed(p)) <= Len(p)
         /\ \A k \in DOMAIN Consumed(p) : k \in DOMAIN p /\ Consumed(p)[k] = p[k]
         /\ Consumed(p) # <<>> => Consumed(p)[Len(Consumed(p))].last
<1> DEFINE newlines == {i \in DOMAIN p : p[i].last}
           T == {0} \cup newlines
           e == Max(T)
           n == Len(p)
<1>1. n \in Nat /\ DOMAIN p = 1..n
  BY PiecesOf
<1>2. T \subseteq 0..n /\ T # {}
  BY <1>1
<1>3. e \in T
  <2> HIDE DEF T
  <2>1. \E x \in T : \A y \in T : x >= y
    BY <1>1, <1>2, GreatestOf
  <2> QED
    BY <2>1 DEF Max
<1>4. Consumed(p) = SubSeq(p, 1, e)
  BY DEF Consumed
<1>5. e \in 0..n /\ (e = 0 \/ e \in newlines)
  BY <1>2, <1>3
<1> HIDE DEF T, e, newlines, n
<1>6. /\ SubSeq(p, 1, e) \in Seq(Piece)
      /\ Len(SubSeq(p, 1, e)) = e /\ DOMAIN SubSeq(p, 1, e) = 1..e
      /\ \A k \in 1..e : SubSeq(p, 1, e)[k] = p[k]
  <2>1. /\ SubSeq(p, 1, e) \in Seq(Piece)
        /\ Len(SubSeq(p, 1, e)) = e
    BY <1>1, <1>5, SubSeqProperties DEF n
  <2>2. \A k \in 1..e : SubSeq(p, 1, e)[k] = p[k]
    BY <1>1, <1>5, SubSeqProperties DEF n
  <2> QED
    BY <2>1, <2>2, LenProperties
<1>7. \A k \in 1..e : k \in DOMAIN p
  BY <1>1, <1>5
<1>8. SubSeq(p, 1, e) # <<>> => e # 0
  BY <1>6, EmptySeq
<1>9. e # 0 => e \in 1..e /\ p[e].last
  BY <1>5 DEF newlines
<1> QED
  BY <1>1, <1>4, <1>5, <1>6, <1>7, <1>8, <1>9 DEF n

\* The lines of a chunk, in order.
LEMMA LinesOfChunk ==
  ASSUME NEW c, Shaped(c), Started(c), c # <<>> => c[Len(c)].last
  PROVE  /\ LinesIn(c) \in Seq(Nat)
         /\ Increasing(LinesIn(c))
         /\ \A line \in Elements(LinesIn(c)) : \E k \in DOMAIN c : c[k].line = line /\ Begun(c, line)
         /\ \A k \in DOMAIN c : Begun(c, c[k].line) => c[k].line \in Elements(LinesIn(c))
<1> DEFINE starts == {i \in DOMAIN c : c[i].first}
           newlines == {i \in DOMAIN c : c[i].last}
           a == Min(starts)
           begin == c[a].line
           end == c[Len(c)].line
           s == [k \in 1..(end - begin + 1) |-> begin + k - 1]
<1>1. /\ Len(c) \in Nat /\ DOMAIN c = 1..Len(c)
      /\ \A i \in DOMAIN c : c[i].line \in Nat
  BY PiecesOf DEF Shaped
<1>2. CASE starts = {}
  <2>1. LinesIn(c) = <<>>
    BY <1>2 DEF LinesIn
  <2>2. \A k \in DOMAIN c : ~Begun(c, c[k].line)
    BY <1>2 DEF Begun
  <2>3. <<>> \in Seq(Nat) /\ DOMAIN <<>> = {}
    BY EmptySeq
  <2> QED
    BY <2>1, <2>2, <2>3 DEF Increasing, Elements
<1>3. CASE starts # {}
  <2>1. a \in starts /\ \A i \in starts : a <= i
    <3>1. starts \subseteq Nat
      BY <1>1
    <3> HIDE DEF starts
    <3>2. \E x \in starts : \A y \in starts : x <= y
      BY <1>3, <3>1, LeastOf
    <3> QED
      BY <3>2 DEF Min
  <2>2. a \in DOMAIN c /\ c[a].first /\ Len(c) \in DOMAIN c
    BY <1>1, <2>1
  <2>3. LinesIn(c) = s
    <3>1. Len(c) \in newlines /\ \A i \in newlines : i <= Len(c)
      <4>1. c # <<>>
        BY <2>2, EmptySeq
      <4> QED
        BY <1>1, <2>2, <4>1
    <3>2. Max(newlines) = Len(c)
      <4>1. newlines \subseteq Nat
        BY <1>1
      <4> HIDE DEF newlines
      <4>2. \E x \in newlines : \A y \in newlines : x >= y
        BY <1>1, <3>1, <4>1
      <4> DEFINE z == Max(newlines)
      <4>3. z \in newlines /\ \A y \in newlines : z >= y
        BY <4>2 DEF Max
      <4> HIDE DEF z
      <4>4. z \in Nat /\ z <= Len(c) /\ z >= Len(c)
        BY <3>1, <4>1, <4>3
      <4>5. z = Len(c)
        <5>1. \A x, y \in Nat : x <= y /\ x >= y => x = y
          OBVIOUS
        <5> QED
          BY <1>1, <4>4, <5>1, Zenon
      <4> QED
        BY <4>5 DEF z
    <3>3. {} \notin {starts, newlines}
      BY <1>3, <3>1
    <3> QED
      BY <3>2, <3>3 DEF LinesIn
  <2> HIDE DEF a
  <2>4. \A k \in DOMAIN c : c[k].line <= c[Len(c)].line
    BY <1>1, <2>2 DEF Shaped
  <2>5. begin \in Nat /\ end \in Nat /\ begin <= end
    BY <1>1, <2>2, <2>4
  <2>6. ASSUME NEW line \in begin..end
        PROVE  \E k \in DOMAIN c : c[k].line = line /\ Begun(c, line)
    <3>1. PICK k \in DOMAIN c : c[k].line = line
      BY <2>2, <2>6 DEF Shaped
    <3>2. CASE line = begin
      BY <2>2, <3>2 DEF Begun
    <3>3. CASE begin < line
      BY <2>2, <3>1, <3>3 DEF Started
    <3> QED
      BY <2>5, <3>1, <3>2, <3>3
  <2>7. ASSUME NEW k \in DOMAIN c, Begun(c, c[k].line)
        PROVE  c[k].line \in begin..end
    <3>1. PICK i \in DOMAIN c : c[i].line = c[k].line /\ c[i].first
      BY <2>7 DEF Begun
    <3>2. a <= i
      BY <2>1, <3>1
    <3>3. c[a].line <= c[i].line
      BY <1>1, <2>2, <3>1, <3>2 DEF Shaped
    <3> QED
      BY <1>1, <2>4, <2>5, <3>1, <3>3
  <2> HIDE DEF begin, end, starts
  <2>8. /\ DOMAIN s = 1..(end - begin + 1) /\ end - begin + 1 \in Nat
        /\ \A k \in DOMAIN s : s[k] = begin + k - 1 /\ s[k] \in Nat
    BY <2>5
  <2>9. s \in Seq(Nat)
    <3> HIDE DEF s
    <3>1. s \in [1..(end - begin + 1) -> Nat]
      BY <2>8 DEF s
    <3> QED
      BY <2>8, <3>1, SeqDef
  <2>10. Increasing(s)
    BY <2>5, <2>8 DEF Increasing
  <2>11. Elements(s) = begin..end
    <3>1. \A line \in begin..end : line - begin + 1 \in DOMAIN s /\ s[line - begin + 1] = line
      BY <2>5, <2>8
    <3>2. \A k \in DOMAIN s : s[k] \in begin..end
      BY <2>5, <2>8
    <3> HIDE DEF s
    <3> QED
      BY <3>1, <3>2 DEF Elements
  <2> HIDE DEF s
  <2> QED
    BY <2>3, <2>6, <2>7, <2>9, <2>10, <2>11
<1> QED
  BY <1>2, <1>3

-----------------------------------------------------------------------------
(* LogTail: the steps of the service and of logrotate.                     *)

\* What a write adds.
LEMMA WriteAdds ==
  ASSUME FileInv, NEW last \in BOOLEAN, Write(last)
  PROVE  /\ Len(file') = Len(file) + 1 /\ file' \in Seq(Piece)
         /\ \A i \in DOMAIN file : i \in DOMAIN file' /\ file'[i] = file[i]
         /\ \A i \in DOMAIN file' : i \in DOMAIN file \/ i = Len(file) + 1
         /\ file'[Len(file) + 1].line = lines'
         /\ \/ /\ lines' = lines + 1 /\ file'[Len(file) + 1].first
            \/ /\ lines' = lines /\ ~file'[Len(file) + 1].first
               /\ Len(file) \in DOMAIN file /\ ~file[Len(file)].last
<1> DEFINE p == [line |-> lines', first |-> OpenPieces = {}, last |-> last]
           n == Len(file)
<1>1. file \in Seq(Piece) /\ lines \in Nat
  BY DEF FileInv, Shaped
<1>2. n \in Nat /\ DOMAIN file = 1..n
  BY <1>1, PiecesOf
<1>3. /\ lines' = IF OpenPieces = {} THEN lines + 1 ELSE lines
      /\ file' = Append(file, p)
  BY DEF Write
<1>4. p \in Piece /\ p.line = lines' /\ p.first = (OpenPieces = {})
  <2>1. (OpenPieces = {}) \in BOOLEAN /\ lines' \in Nat
    BY <1>1, <1>3
  <2> QED
    BY <2>1 DEF Piece
<1>5. OpenPieces # {} => n \in DOMAIN file /\ ~file[n].last
  BY <1>2 DEF OpenPieces
<1> HIDE DEF p, n
<1>6. /\ Len(Append(file, p)) = n + 1 /\ Append(file, p) \in Seq(Piece)
      /\ DOMAIN Append(file, p) = 1..(n + 1)
      /\ \A i \in 1..n : Append(file, p)[i] = file[i]
      /\ Append(file, p)[n + 1] = p
  BY <1>1, <1>2, <1>4, AppendProperties DEF n
<1>7. /\ \A i \in DOMAIN file : i \in DOMAIN file' /\ file'[i] = file[i]
      /\ \A i \in DOMAIN file' : i \in DOMAIN file \/ i = n + 1
  BY <1>2, <1>3, <1>6
<1> QED
  BY <1>3, <1>4, <1>5, <1>6, <1>7 DEF n

LEMMA WriteFile ==
  ASSUME FileInv, NEW last \in BOOLEAN, Write(last)
  PROVE  FileInv'
<1> DEFINE n == Len(file)
           g == file'
           p == g[n + 1]
<1>1. /\ Shaped(file) /\ lines \in Nat
      /\ \A i \in DOMAIN file : file[i].line \in 1..lines
      /\ Whole(file)
      /\ file # <<>> => file[n].line = lines
  BY DEF FileInv
<1>2. n \in Nat /\ DOMAIN file = 1..n
  BY <1>1, PiecesOf DEF Shaped
<1>3. /\ Len(g) = n + 1 /\ g \in Seq(Piece) /\ DOMAIN g = 1..(n + 1)
      /\ \A i \in DOMAIN file : i \in DOMAIN g /\ g[i] = file[i]
      /\ \A i \in DOMAIN g : i \in DOMAIN file \/ i = n + 1
      /\ n + 1 \in DOMAIN g
  <2>1. /\ Len(g) = n + 1 /\ g \in Seq(Piece)
        /\ \A i \in DOMAIN file : i \in DOMAIN g /\ g[i] = file[i]
        /\ \A i \in DOMAIN g : i \in DOMAIN file \/ i = n + 1
    BY WriteAdds
  <2> QED
    BY <1>2, <2>1, PiecesOf
<1>4. /\ p.line = lines' /\ lines' \in Nat /\ lines <= lines'
      /\ \/ lines' = lines + 1 /\ p.first
         \/ lines' = lines /\ ~p.first /\ n \in DOMAIN file /\ ~file[n].last
  BY <1>1, WriteAdds
<1>5. n \in DOMAIN file => file[n].line = lines
  BY <1>1, EmptySeq
<1> HIDE DEF n, g, p
<1>6. ASSUME NEW i \in DOMAIN file
      PROVE  /\ file[i].line <= p.line
             /\ file[i].last => file[i].line < p.line
             /\ p.first => file[i].line < p.line
  <2>1. file[i].line \in 1..lines
    BY <1>1
  <2>2. CASE lines' = lines + 1
    BY <1>1, <1>4, <2>1, <2>2
  <2>3. CASE lines' = lines /\ ~p.first /\ n \in DOMAIN file /\ ~file[n].last
    <3>1. file[i].last => i < n
      BY <1>2, <2>3
    <3>2. file[i].last => file[i].line < file[n].line
      BY <1>1, <2>3, <3>1 DEF Shaped
    <3> QED
      BY <1>1, <1>4, <1>5, <2>1, <2>3, <3>2
  <2> QED
    BY <1>4, <2>2, <2>3
<1>7. \A i, j \in DOMAIN g : i < j => /\ g[i].line <= g[j].line
                                      /\ g[i].last => g[i].line < g[j].line
                                      /\ g[j].first => g[i].line < g[j].line
  <2> SUFFICES ASSUME NEW i \in DOMAIN g, NEW j \in DOMAIN g, i < j
               PROVE  /\ g[i].line <= g[j].line
                      /\ g[i].last => g[i].line < g[j].line
                      /\ g[j].first => g[i].line < g[j].line
    OBVIOUS
  <2>1. i \in DOMAIN file /\ g[i] = file[i]
    BY <1>2, <1>3
  <2>2. CASE j \in DOMAIN file
    BY <1>1, <1>3, <2>1, <2>2 DEF Shaped
  <2>3. CASE j = n + 1
    BY <1>6, <2>1, <2>3 DEF p
  <2> QED
    BY <1>3, <2>2, <2>3
<1>8. \A i \in DOMAIN g : g[i].line \in 1..lines' /\ Begun(g, g[i].line)
  <2> SUFFICES ASSUME NEW i \in DOMAIN g PROVE g[i].line \in 1..lines' /\ Begun(g, g[i].line)
    OBVIOUS
  <2>1. \A j \in DOMAIN file : g[j].line \in 1..lines' /\ Begun(g, g[j].line)
    <3> SUFFICES ASSUME NEW j \in DOMAIN file PROVE g[j].line \in 1..lines' /\ Begun(g, g[j].line)
      OBVIOUS
    <3>1. PICK k \in DOMAIN file : file[k].line = file[j].line /\ file[k].first
      BY <1>1 DEF Whole, Begun
    <3>2. file[j].line \in 1..lines /\ g[j] = file[j] /\ g[k] = file[k] /\ k \in DOMAIN g
      BY <1>1, <1>3
    <3> QED
      BY <1>1, <1>4, <3>1, <3>2 DEF Begun
  <2>2. CASE i \in DOMAIN file
    BY <2>1, <2>2
  <2>3. CASE i = n + 1
    <3>1. CASE lines' = lines + 1 /\ p.first
      BY <1>1, <1>3, <1>4, <2>3, <3>1 DEF Begun, p
    <3>2. CASE lines' = lines /\ n \in DOMAIN file
      BY <1>3, <1>4, <1>5, <2>1, <2>3, <3>2 DEF p
    <3> QED
      BY <1>4, <3>1, <3>2
  <2> QED
    BY <1>3, <2>2, <2>3
<1>9. ASSUME NEW i \in DOMAIN g, NEW j \in DOMAIN g, NEW line \in g[i].line..g[j].line
      PROVE  \E k \in DOMAIN g : g[k].line = line
  <2>1. CASE line = g[i].line \/ line = g[j].line
    BY <2>1
  <2>2. CASE g[i].line < line /\ line < g[j].line
    <3>1. i \in DOMAIN file
      BY <1>3, <1>4, <1>8, <2>2 DEF p
    <3>2. PICK m \in DOMAIN file : line <= file[m].line
      <4>1. CASE j \in DOMAIN file
        BY <1>1, <1>3, <1>8, <2>2, <4>1
      <4>2. CASE j = n + 1
        <5>1. n \in DOMAIN file
          BY <1>2, <3>1
        <5>2. file[n].line = lines /\ line < lines + 1 /\ line \in Nat
          BY <1>1, <1>4, <1>5, <1>8, <2>2, <4>2, <5>1 DEF p
        <5> QED
          BY <1>1, <5>1, <5>2
      <4> QED
        BY <1>3, <4>1, <4>2
    <3>3. line \in file[i].line..file[m].line
      BY <1>1, <1>3, <1>8, <2>2, <3>1, <3>2
    <3>4. PICK k \in DOMAIN file : file[k].line = line
      BY <1>1, <3>1, <3>3 DEF Shaped
    <3> QED
      BY <1>3, <3>4
  <2>3. g[i].line \in Nat /\ g[j].line \in Nat
    BY <1>8
  <2> QED
    BY <2>1, <2>2, <2>3
<1>10. Shaped(g) /\ Whole(g)
  BY <1>3, <1>7, <1>8, <1>9 DEF Shaped, Whole
<1>11. g[Len(g)].line = lines'
  BY <1>3, <1>4 DEF p
<1> QED
  BY <1>4, <1>8, <1>10, <1>11 DEF FileInv, g

LEMMA NoPieces ==
  Shaped(<<>>) /\ Started(<<>>) /\ Whole(<<>>) /\ DOMAIN <<>> = {} /\ LinesOf(<<>>) = {}
     /\ Elements(<<>>) = {}
<1>1. <<>> \in Seq(Piece) /\ DOMAIN <<>> = {}
  BY EmptySeq
<1> QED
  BY <1>1 DEF Shaped, Started, Whole, LinesOf, Elements

LEMMA ChunkKept ==
  ASSUME FileInv, ChunkInv, UNCHANGED <<chunk, batch, pc>>, lines' \in Nat, lines <= lines'
  PROVE  ChunkInv'
<1>1. lines \in Nat
  BY DEF FileInv
<1>2. 1..lines \subseteq 1..lines'
  BY <1>1
<1> QED
  BY <1>2 DEF ChunkInv

LEMMA ChunkGone ==
  ASSUME chunk' = <<>>, batch' = <<>> PROVE ChunkInv'
BY NoPieces DEF ChunkInv

\* A file that begins.
LEMMA RotateShape ==
  ASSUME FileInv, ChunkInv, NEW i \in Inodes, Rotate(i) PROVE FileInv' /\ ChunkInv'
<1>1. file' = <<>> /\ UNCHANGED <<lines, chunk, batch, pc>> /\ lines \in Nat
  BY DEF Rotate, pass, FileInv
<1>2. FileInv'
  BY <1>1, NoPieces DEF FileInv
<1>3. ChunkInv'
  BY <1>1, ChunkKept
<1> QED
  BY <1>2, <1>3

\* The part of the file that a pass reads.
LEMMA ReadPart ==
  ASSUME FileInv, offset \in Nat, ReadChunk
  PROVE  /\ PartOf(chunk', file, IF offset <= Len(file) THEN offset ELSE 0)
         /\ chunk' # <<>> => offset <= Len(file) /\ chunk'[Len(chunk')].last
<1> DEFINE n == Len(file)
           e == IF offset + MaxChunk < n THEN offset + MaxChunk ELSE n
           s == SubSeq(file, offset + 1, e)
<1>1. file \in Seq(Piece) /\ n \in Nat /\ DOMAIN file = 1..n /\ MaxChunk \in Nat
  BY TailAssumption, PiecesOf DEF FileInv, Shaped
<1>2. Read = s /\ chunk' = Consumed(Read)
  BY DEF Read, ReadChunk
<1>3. e \in 0..n
  BY <1>1
<1> HIDE DEF n, e
<1>4. /\ s \in Seq(Piece)
      /\ Len(s) = IF offset + 1 <= e THEN e - offset ELSE 0
      /\ \A k \in 1..Len(s) : offset + k \in DOMAIN file /\ s[k] = file[offset + k]
  <2>1. CASE offset + 1 <= e
    <3>1. offset + 1 \in 1..(n + 1) /\ e \in 0..n /\ offset + 1 \in 1..(e + 1)
      BY <1>1, <1>3, <2>1
    <3>2. s \in Seq(Piece) /\ Len(s) = e - offset
      BY <1>1, <1>3, <3>1, <2>1, SubSeqProperties DEF n
    <3>3. \A k \in 1..(e - offset) : s[k] = file[offset + 1 + k - 1]
      BY <1>1, <1>3, <3>1, <2>1, SubSeqProperties DEF n
    <3>4. \A k \in 1..(e - offset) : offset + 1 + k - 1 = offset + k /\ offset + k \in 1..n
      BY <1>3, <2>1, <1>1
    <3> HIDE DEF s
    <3>5. \A k \in 1..(e - offset) : s[k] = file[offset + k]
      BY <3>3, <3>4
    <3> QED
      BY <1>1, <2>1, <3>2, <3>4, <3>5
  <2>2. CASE ~(offset + 1 <= e)
    <3>1. s = <<>>
      BY <1>1, <1>3, <2>2
    <3>2. <<>> \in Seq(Piece) /\ Len(<<>>) = 0 /\ 1..0 = {}
      BY EmptySeq, LenProperties
    <3> HIDE DEF s
    <3> QED
      BY <2>2, <3>1, <3>2
  <2> QED
    BY <2>1, <2>2
<1> HIDE DEF s
<1>5. /\ chunk' \in Seq(Piece) /\ Len(chunk') <= Len(s)
      /\ \A k \in DOMAIN chunk' : k \in DOMAIN s /\ chunk'[k] = s[k]
      /\ chunk' # <<>> => chunk'[Len(chunk')].last
  BY <1>2, <1>4, ConsumedEnds
<1>6. /\ Len(chunk') \in Nat /\ Len(s) \in Nat /\ DOMAIN s = 1..Len(s)
      /\ chunk' # <<>> => Len(chunk') # 0
      /\ DOMAIN chunk' = 1..Len(chunk')
  BY <1>4, <1>5, PiecesOf, EmptySeq
<1>7. CASE offset <= n
  <2>1. offset + Len(chunk') <= n
    BY <1>1, <1>3, <1>4, <1>5, <1>6, <1>7
  <2>2. \A k \in DOMAIN chunk' : chunk'[k] = file[offset + k]
    BY <1>4, <1>5, <1>6
  <2> QED
    BY <1>5, <1>7, <2>1, <2>2 DEF PartOf, n
<1>8. CASE ~(offset <= n)
  <2>1. Len(s) = 0
    BY <1>1, <1>3, <1>4, <1>8
  <2>2. Len(chunk') = 0
    BY <1>5, <1>6, <2>1
  <2>3. 0 + Len(chunk') <= Len(file)
    BY <1>1, <2>2 DEF n
  <2> QED
    BY <1>5, <1>6, <1>8, <2>2, <2>3 DEF PartOf, n
<1> QED
  BY <1>7, <1>8

LEMMA ReadShape ==
  ASSUME FileInv, ChunkInv, offset \in Nat, ReadChunk PROVE FileInv' /\ ChunkInv'
<1> DEFINE o == IF offset <= Len(file) THEN offset ELSE 0
<1>1. /\ UNCHANGED <<file, lines, batch>> /\ pc' = "save" /\ pc = "open"
  BY DEF ReadChunk, disk
<1>2. PartOf(chunk', file, o) /\ (chunk' # <<>> => chunk'[Len(chunk')].last)
  BY ReadPart
<1>3. Shaped(file) /\ Whole(file) /\ \A i \in DOMAIN file : file[i].line \in 1..lines
  BY DEF FileInv
<1>4. FileInv'
  BY <1>1 DEF FileInv
<1> HIDE DEF o
<1>5. Shaped(chunk') /\ Started(chunk')
  BY <1>2, <1>3, PartShaped, PartStarted
<1>6. \A k \in DOMAIN chunk' : chunk'[k].line \in 1..lines
  <2>1. /\ chunk' \in Seq(Piece) /\ file \in Seq(Piece) /\ o \in Nat
        /\ o + Len(chunk') <= Len(file)
    BY <1>2, <1>3 DEF PartOf, Shaped
  <2>2. /\ DOMAIN chunk' = 1..Len(chunk') /\ DOMAIN file = 1..Len(file)
        /\ Len(chunk') \in Nat /\ Len(file) \in Nat
    BY <2>1, PiecesOf
  <2>3. \A k \in DOMAIN chunk' : o + k \in DOMAIN file /\ chunk'[k] = file[o + k]
    BY <1>2, <2>1, <2>2 DEF PartOf
  <2> QED
    BY <1>3, <2>3
<1>7. batch' = <<>>
  BY <1>1 DEF ChunkInv
<1> QED
  BY <1>1, <1>2, <1>4, <1>5, <1>6, <1>7 DEF ChunkInv

-----------------------------------------------------------------------------
(* LogTail: what a step keeps while nobody raced.                          *)

LEMMA ResumableKept ==
  ASSUME NEW f, NEW place, NEW known, NEW older, NEW more, NEW fewer,
         Resumable(f, place, known, older), known \subseteq more, fewer \subseteq older
  PROVE  Resumable(f, place, more, fewer)
BY DEF Resumable, Behind, Ahead

LEMMA AheadKept ==
  ASSUME NEW f, NEW place, NEW older, NEW fewer, Ahead(f, place, older), fewer \subseteq older
  PROVE  Ahead(f, place, fewer)
BY DEF Ahead

LEMMA AheadLater ==
  ASSUME NEW f, NEW place \in Nat, NEW older, Ahead(f, 0, older), DOMAIN f \subseteq Nat
  PROVE  Ahead(f, place, older)
BY DEF Ahead

\* Where a file that grew is read on from.
LEMMA ResumableGrown ==
  ASSUME NEW f, NEW g, NEW place, NEW known, NEW older, NEW n \in Nat, n = Len(f), Len(g) = n + 1,
         Resumable(f, place, known, older),
         \A i \in DOMAIN g : (i \in DOMAIN f /\ g[i] = f[i]) \/ i = n + 1,
         g[n + 1].first => \A line \in older : line < g[n + 1].line
  PROVE  Resumable(g, place, known, older)
<1>1. place \in 0..n /\ place \in 0..(n + 1) /\ place < n + 1
  BY DEF Resumable
<1>2. Behind(g, place, known)
  BY <1>1 DEF Resumable, Behind
<1>3. Ahead(g, place, older)
  BY <1>1 DEF Resumable, Ahead
<1> QED
  BY <1>1, <1>2, <1>3 DEF Resumable

LEMMA AheadGrown ==
  ASSUME NEW f, NEW g, NEW older, NEW n \in Nat, Ahead(f, 0, older),
         \A i \in DOMAIN g : (i \in DOMAIN f /\ g[i] = f[i]) \/ i = n + 1,
         g[n + 1].first => \A line \in older : line < g[n + 1].line
  PROVE  Ahead(g, 0, older)
BY DEF Ahead

LEMMA WriteSound ==
  ASSUME FileInv, ChunkInv, Sound, NEW last \in BOOLEAN, Write(last)
  PROVE  Sound'
<1> DEFINE n == Len(file)
           g == file'
           p == g[n + 1]
<1>1. /\ UNCHANGED <<inode, rotations, pc, stat, statFor, offset, chunk, batch, saved,
                     savedFor, scored, excused>>
  BY DEF Write, pass, table
<1>2. Taken' = Taken /\ Accounted' = Accounted
  BY <1>1 DEF Taken, Accounted
<1>3. file \in Seq(Piece) /\ n \in Nat /\ lines \in Nat /\ DOMAIN file = 1..n
  BY PiecesOf DEF FileInv, Shaped
<1>4. /\ Len(g) = n + 1
      /\ \A i \in DOMAIN g : (i \in DOMAIN file /\ g[i] = file[i]) \/ i = n + 1
      /\ \A i \in DOMAIN file : i \in DOMAIN g /\ g[i] = file[i]
      /\ p.line = lines' /\ lines' \in {lines, lines + 1}
      /\ p.first => lines' = lines + 1
      /\ n + 1 \in DOMAIN g
  <2>1. /\ Len(g) = n + 1 /\ g \in Seq(Piece)
        /\ \A i \in DOMAIN g : i \in DOMAIN file \/ i = n + 1
        /\ \A i \in DOMAIN file : i \in DOMAIN g /\ g[i] = file[i]
        /\ p.line = lines' /\ lines' \in {lines, lines + 1}
        /\ p.first => lines' = lines + 1
    BY <1>3, WriteAdds
  <2>2. n + 1 \in DOMAIN g
    BY <1>3, <2>1, PiecesOf
  <2> QED
    BY <2>1, <2>2
<1>5. lines' = lines => n \in DOMAIN file /\ file[n].line = lines
  <2>1. lines' = lines => n \in DOMAIN file
    BY <1>3, WriteAdds
  <2> QED
    BY <2>1, NoPieces DEF FileInv
<1>6. \A line \in Taken : line \in 1..lines
  BY DEF Sound, InOrder
<1>7. p.first => \A line \in Taken : line < p.line
  BY <1>3, <1>4, <1>6
<1> HIDE DEF n, g, p
<1>8. ASSUME NEW place, Resumable(file, place, Accounted, Taken)
      PROVE  Resumable(g, place, Accounted, Taken)
  BY <1>3, <1>4, <1>7, <1>8, ResumableGrown DEF n, p
<1>9. OffsetsSound'
  <2>1. Ahead(file, 0, Taken) => Ahead(g, 0, Taken)
    BY <1>3, <1>4, <1>7, AheadGrown DEF p
  <2>2. OffsetsSound
    BY DEF Sound
  <2> QED
    BY <1>1, <1>2, <1>8, <2>1, <2>2 DEF OffsetsSound, g
<1>10. ChunkSound'
  <2>0. ChunkSound
    BY DEF Sound
  <2>1. PartOf(chunk, file, offset) => PartOf(chunk, g, offset)
    <3>1. CASE PartOf(chunk, file, offset)
      <4>1. /\ chunk \in Seq(Piece) /\ offset \in Nat /\ offset + Len(chunk) <= n
            /\ \A k \in DOMAIN chunk : chunk[k] = file[offset + k]
        BY <3>1 DEF PartOf, n
      <4>2. Len(chunk) \in Nat /\ DOMAIN chunk = 1..Len(chunk)
        BY <4>1, PiecesOf
      <4>3. \A k \in DOMAIN chunk : offset + k \in DOMAIN file
        BY <1>3, <4>1, <4>2
      <4>4. offset + Len(chunk) <= Len(g)
        BY <1>3, <1>4, <4>1, <4>2
      <4> QED
        BY <1>4, <4>1, <4>3, <4>4 DEF PartOf
    <3> QED
      BY <3>1
  <2>2. ASSUME statFor # rotations, NEW k \in DOMAIN chunk, NEW i \in DOMAIN g
        PROVE  chunk[k].line < g[i].line
    <3>1. \A j \in DOMAIN file : chunk[k].line < file[j].line
      BY <2>0, <2>2 DEF ChunkSound
    <3>2. chunk[k].line \in 1..lines
      BY DEF ChunkInv
    <3>3. CASE i \in DOMAIN file
      BY <1>4, <3>1, <3>3
    <3>4. CASE i = n + 1
      BY <1>3, <1>4, <1>5, <3>1, <3>2, <3>4 DEF p
    <3> QED
      BY <1>4, <3>3, <3>4
  <2> QED
    BY <1>1, <1>2, <2>0, <2>1, <2>2 DEF ChunkSound, g
<1>11. NothingLost'
  <2> SUFFICES ASSUME NEW line \in (1..lines') \ Accounted
               PROVE  /\ \A older \in Taken : older < line
                      /\ line \in LinesOf(g) \cup LinesOf(chunk)
    BY <1>1, <1>2 DEF NothingLost, g, LinesOf, Elements
  <2>1. CASE line \in 1..lines
    <3>1. /\ \A older \in Taken : older < line
          /\ line \in LinesOf(file) \cup LinesOf(chunk)
      BY <2>1 DEF Sound, NothingLost
    <3>2. LinesOf(file) \subseteq LinesOf(g)
      BY <1>4 DEF LinesOf, Elements
    <3> QED
      BY <3>1, <3>2
  <2>2. CASE line = lines + 1
    <3>1. p.line = line
      BY <1>3, <1>4, <2>2
    <3>2. line \in LinesOf(g)
      BY <1>4, <3>1 DEF LinesOf, Elements, p
    <3>3. \A older \in Taken : older < line
      BY <1>3, <1>6, <2>2
    <3> QED
      BY <3>2, <3>3
  <2> QED
    BY <1>3, <1>4, <2>1, <2>2
<1>12. InOrder'
  <2>1. Taken \subseteq 1..lines'
    BY <1>3, <1>4, <1>6
  <2> QED
    BY <1>1, <1>2, <2>1 DEF Sound, InOrder
<1> QED
  BY <1>9, <1>10, <1>11, <1>12 DEF Sound

LEMMA RotateSound ==
  ASSUME FileInv, ChunkInv, Sound, NEW i \in Inodes, Rotate(i), ~raced'
  PROVE  Sound'
<1>1. /\ UNCHANGED <<lines, pc, stat, statFor, offset, chunk, batch, saved, savedFor, scored>>
      /\ file' = <<>> /\ rotations' = rotations + 1 /\ pc # "open"
      /\ excused' = excused \cup (LinesOf(file) \ (Elements(scored) \cup Elements(batch)
                                                      \cup LinesOf(chunk)))
  BY DEF Rotate, pass, table
<1>2. Taken' = Taken /\ Accounted \subseteq Accounted'
  BY <1>1 DEF Taken, Accounted
<1>3. OffsetsSound /\ ChunkSound /\ NothingLost /\ InOrder
  BY DEF Sound
<1>4. OffsetsSound'
  <2>1. savedFor # rotations' /\ statFor # rotations'
    BY <1>1, <1>3 DEF OffsetsSound
  <2>2. Ahead(<<>>, 0, Taken')
    BY NoPieces DEF Ahead
  <2> QED
    BY <1>1, <1>3, <2>1, <2>2 DEF OffsetsSound
<1>5. ChunkSound'
  <2>1. statFor' # rotations'
    BY <1>1, <1>3 DEF OffsetsSound
  <2>2. \A k \in DOMAIN chunk :
          \/ Begun(chunk, chunk[k].line) /\ \A line \in Taken' : line < chunk[k].line
          \/ ~Begun(chunk, chunk[k].line) /\ chunk[k].line \in Accounted'
    BY <1>2, <1>3 DEF ChunkSound
  <2> QED
    BY <1>1, <2>1, <2>2, NoPieces DEF ChunkSound
<1>6. NothingLost'
  <2> SUFFICES ASSUME NEW line \in (1..lines) \ Accounted'
               PROVE  (\A older \in Taken : older < line) /\ line \in LinesOf(chunk)
    BY <1>1, <1>2 DEF NothingLost, LinesOf, Elements
  <2>1. line \in (1..lines) \ Accounted
    BY <1>2
  <2>2. (\A older \in Taken : older < line) /\ line \in LinesOf(file) \cup LinesOf(chunk)
    BY <1>3, <2>1 DEF NothingLost
  <2>3. line \notin excused' /\ line \notin Taken
    BY <1>2 DEF Accounted
  <2> QED
    BY <1>1, <2>2, <2>3 DEF Taken
<1>7. InOrder'
  BY <1>1, <1>2, <1>3 DEF InOrder
<1> QED
  BY <1>4, <1>5, <1>6, <1>7 DEF Sound

-----------------------------------------------------------------------------
(* LogTail: the steps of a pass.                                           *)

LEMMA FileKept == FileInv /\ UNCHANGED disk => FileInv'
BY DEF FileInv, disk

LEMMA StatSound ==
  ASSUME FileInv, ChunkInv, OffsetsTyped, Sound, StatFile
  PROVE  Sound'
<1>1. /\ UNCHANGED <<file, inode, lines, rotations, chunk, batch, saved, savedFor, scored>>
      /\ pc = "idle" /\ stat' = inode /\ statFor' = rotations /\ offset' = Resumed
      /\ pc' \in {"uptodate", "open"}
      /\ excused' = IF savedFor = rotations THEN excused
                    ELSE excused \cup {file[i].line : i \in (1..Resumed) \cap DOMAIN file}
  BY DEF StatFile, disk, table
<1>2. Taken' = Taken /\ Accounted \subseteq Accounted'
  BY <1>1 DEF Taken, Accounted
<1>3. OffsetsSound /\ ChunkSound /\ NothingLost /\ InOrder
  BY DEF Sound
<1>4. chunk = <<>> /\ batch = <<>>
  BY <1>1 DEF ChunkInv
<1>5. file \in Seq(Piece) /\ Len(file) \in Nat /\ DOMAIN file = 1..Len(file) /\ saved.offset \in Nat
  BY PiecesOf DEF FileInv, Shaped, OffsetsTyped
<1>6. Resumed \in 0..Len(file)
  BY <1>5 DEF Resumed
<1>7. Resumable(file, Resumed, Accounted', Taken)
  <2>1. CASE savedFor = rotations
    <3>1. /\ Resumable(file, saved.offset, Accounted, Taken)
          /\ saved.inode = inode \/ saved.offset = 0
      BY <1>3, <2>1 DEF OffsetsSound
    <3>2. saved.offset <= Len(file)
      BY <1>5, <3>1 DEF Resumable
    <3>3. Resumed = saved.offset
      BY <3>1, <3>2 DEF Resumed
    <3> QED
      BY <1>2, <3>1, <3>3, ResumableKept
  <2>2. CASE savedFor # rotations
    <3>1. \A i \in DOMAIN file : i <= Resumed => i \in (1..Resumed) \cap DOMAIN file
      BY <1>5, <1>6
    <3>2. \A i \in DOMAIN file : i <= Resumed => file[i].line \in excused'
      BY <1>1, <2>2, <3>1
    <3>3. Behind(file, Resumed, Accounted')
      BY <3>2 DEF Behind, Accounted
    <3>4. Ahead(file, 0, Taken)
      BY <1>3, <2>2 DEF OffsetsSound
    <3>5. Ahead(file, Resumed, Taken)
      BY <1>5, <1>6, <3>4, AheadLater
    <3> QED
      BY <1>6, <3>3, <3>5 DEF Resumable
  <2> QED
    BY <2>1, <2>2
<1>8. Resumable(file, saved.offset, Accounted, Taken) => Resumable(file, saved.offset, Accounted', Taken)
  BY <1>2, ResumableKept
<1>9. OffsetsSound'
  BY <1>1, <1>2, <1>3, <1>7, <1>8 DEF OffsetsSound
<1>10. ChunkSound'
  BY <1>1, <1>4, NoPieces DEF ChunkSound
<1>11. NothingLost'
  BY <1>1, <1>2, <1>3 DEF NothingLost, LinesOf, Elements
<1>12. InOrder'
  BY <1>1, <1>2, <1>3 DEF InOrder
<1> QED
  BY <1>9, <1>10, <1>11, <1>12 DEF Sound

LEMMA UpToDateSound ==
  ASSUME Sound, UpToDate
  PROVE  Sound'
<1>1. /\ UNCHANGED <<file, inode, lines, rotations, stat, statFor, offset, chunk, batch, scored,
                     excused>>
      /\ pc = "uptodate" /\ pc' = "idle"
      /\ saved' = [inode |-> stat, offset |-> offset] /\ savedFor' = statFor
  BY DEF UpToDate, disk
<1>2. Taken' = Taken /\ Accounted' = Accounted
  BY <1>1 DEF Taken, Accounted
<1>3. OffsetsSound /\ ChunkSound /\ NothingLost /\ InOrder
  BY DEF Sound
<1>4. saved'.inode = stat /\ saved'.offset = offset
  BY <1>1
<1>5. OffsetsSound'
  <2>1. statFor # rotations => Ahead(file, 0, Taken)
    BY <1>3 DEF OffsetsSound
  <2>2. statFor = rotations => Resumable(file, offset, Accounted, Taken) /\ stat = inode
    BY <1>1, <1>3 DEF OffsetsSound
  <2> QED
    BY <1>1, <1>2, <1>3, <1>4, <2>1, <2>2 DEF OffsetsSound
<1>6. ChunkSound'
  BY <1>1, <1>2, <1>3 DEF ChunkSound
<1>7. NothingLost' /\ InOrder'
  BY <1>1, <1>2, <1>3 DEF NothingLost, InOrder, LinesOf, Elements
<1> QED
  BY <1>5, <1>6, <1>7 DEF Sound

LEMMA ReadSound ==
  ASSUME FileInv, ChunkInv, OffsetsTyped, Sound, ReadChunk
  PROVE  Sound'
<1>1. /\ UNCHANGED <<file, inode, lines, rotations, stat, statFor, offset, batch, saved, savedFor,
                     scored, excused>>
      /\ pc = "open" /\ pc' = "save"
  BY DEF ReadChunk, disk, table
<1>2. Taken' = Taken /\ Accounted' = Accounted
  BY <1>1 DEF Taken, Accounted
<1>3. OffsetsSound /\ ChunkSound /\ NothingLost /\ InOrder
  BY DEF Sound
<1>4. statFor = rotations /\ Resumable(file, offset, Accounted, Taken) /\ stat = inode
  BY <1>1, <1>3 DEF OffsetsSound
<1>5. chunk = <<>>
  BY <1>1 DEF ChunkInv
<1>6. file \in Seq(Piece) /\ Len(file) \in Nat /\ DOMAIN file = 1..Len(file) /\ offset \in Nat
  BY PiecesOf DEF FileInv, Shaped, OffsetsTyped
<1>7. PartOf(chunk', file, offset)
  <2>1. offset <= Len(file)
    BY <1>4, <1>6 DEF Resumable
  <2> QED
    BY <1>6, <2>1, ReadPart
<1>8. OffsetsSound'
  BY <1>1, <1>2, <1>3, <1>4 DEF OffsetsSound
<1>9. ASSUME NEW k \in DOMAIN chunk'
      PROVE  \/ Begun(chunk', chunk'[k].line) /\ \A line \in Taken : line < chunk'[k].line
             \/ ~Begun(chunk', chunk'[k].line) /\ chunk'[k].line \in Accounted
  <2>1. CASE Begun(chunk', chunk'[k].line)
    <3>1. PICK i \in DOMAIN chunk' : chunk'[i].line = chunk'[k].line /\ chunk'[i].first
      BY <2>1 DEF Begun
    <3>2. chunk'[i] = file[offset + i] /\ chunk' \in Seq(Piece) /\ offset + Len(chunk') <= Len(file)
      BY <1>7 DEF PartOf
    <3>3. Len(chunk') \in Nat /\ DOMAIN chunk' = 1..Len(chunk')
      BY <3>2, PiecesOf
    <3>4. offset + i \in DOMAIN file /\ offset < offset + i
      BY <1>6, <3>2, <3>3
    <3> QED
      BY <1>4, <2>1, <3>1, <3>2, <3>4 DEF Resumable, Ahead
  <2>2. CASE ~Begun(chunk', chunk'[k].line)
    <3>1. Shaped(file) /\ Whole(file)
      BY DEF FileInv
    <3>2. \E i \in DOMAIN file : i <= offset /\ file[i].line = chunk'[k].line
      <4> DEFINE c == chunk'
      <4>1. PartOf(c, file, offset) /\ k \in DOMAIN c /\ ~Begun(c, c[k].line)
        BY <1>7, <2>2
      <4> HIDE DEF c
      <4>2. \E i \in DOMAIN file : i <= offset /\ file[i].line = c[k].line
        BY <3>1, <4>1, PartStarts
      <4> QED
        BY <4>2 DEF c
    <3> QED
      BY <1>4, <2>2, <3>2 DEF Resumable, Behind
  <2> QED
    BY <2>1, <2>2
<1>10. ChunkSound'
  BY <1>1, <1>2, <1>4, <1>7, <1>9 DEF ChunkSound
<1>11. NothingLost'
  <2>1. LinesOf(chunk) = {}
    BY <1>5, NoPieces
  <2>2. \A line \in (1..lines) \ Accounted : (\A older \in Taken : older < line) /\ line \in LinesOf(file)
    BY <1>3, <2>1 DEF NothingLost
  <2> QED
    BY <1>1, <1>2, <2>2 DEF NothingLost, LinesOf, Elements
<1>12. InOrder'
  BY <1>1, <1>2, <1>3 DEF InOrder
<1> QED
  BY <1>8, <1>10, <1>11, <1>12 DEF Sound

LEMMA SaveSound ==
  ASSUME FileInv, ChunkInv, OffsetsTyped, Sound, SaveOffset
  PROVE  Sound'
<1> DEFINE b == LinesIn(chunk)
           place == offset + Len(chunk)
<1>1. /\ UNCHANGED <<file, inode, lines, rotations, stat, statFor, offset, scored, excused>>
      /\ pc = "save" /\ pc' = "score" /\ batch' = b /\ chunk' = <<>>
      /\ saved' = [inode |-> stat, offset |-> place] /\ savedFor' = statFor
  BY DEF SaveOffset, NewOffset, disk
<1>2. OffsetsSound /\ ChunkSound /\ NothingLost /\ InOrder
  BY DEF Sound
<1>3. batch = <<>>
  BY <1>1 DEF ChunkInv
<1>4. saved'.inode = stat /\ saved'.offset = place
  BY <1>1
<1>5. /\ Shaped(chunk) /\ Started(chunk) /\ \A k \in DOMAIN chunk : chunk[k].line \in 1..lines
      /\ chunk # <<>> => chunk[Len(chunk)].last
  BY DEF ChunkInv
<1>6. /\ b \in Seq(Nat) /\ Increasing(b)
      /\ \A line \in Elements(b) : \E k \in DOMAIN chunk : chunk[k].line = line /\ Begun(chunk, line)
      /\ \A k \in DOMAIN chunk : Begun(chunk, chunk[k].line) => chunk[k].line \in Elements(b)
  BY <1>5, LinesOfChunk
<1>7. /\ file \in Seq(Piece) /\ Len(file) \in Nat /\ DOMAIN file = 1..Len(file) /\ offset \in Nat
      /\ chunk \in Seq(Piece) /\ Len(chunk) \in Nat /\ DOMAIN chunk = 1..Len(chunk)
      /\ lines \in Nat
  BY <1>5, PiecesOf DEF FileInv, Shaped, OffsetsTyped
<1> HIDE DEF b
<1>8. /\ Taken = Elements(scored) /\ Taken' = Elements(scored) \cup Elements(b)
      /\ Accounted' = Elements(scored) \cup Elements(b) \cup excused
      /\ Accounted \subseteq Accounted' /\ Taken \subseteq Taken'
  BY <1>1, <1>3, NoPieces DEF Taken, Accounted
\* What was read is accounted for now, and newer than what was taken before.
<1>9. \A k \in DOMAIN chunk : chunk[k].line \in Accounted'
  BY <1>2, <1>6, <1>8 DEF ChunkSound
<1>10. \A line \in Elements(b) : \A older \in Taken : older < line
  BY <1>2, <1>6 DEF ChunkSound
<1>11. \A line \in Elements(b) : line \in 1..lines
  BY <1>5, <1>6
<1>12. ASSUME statFor # rotations
       PROVE  \A older \in Taken', i \in DOMAIN file : file[i].first => older < file[i].line
  <2>1. \A line \in Elements(b), i \in DOMAIN file : line < file[i].line
    BY <1>2, <1>6, <1>12 DEF ChunkSound
  <2>2. Ahead(file, 0, Taken)
    BY <1>2, <1>12 DEF OffsetsSound
  <2> QED
    BY <1>7, <1>8, <2>1, <2>2 DEF Ahead
<1>13. ASSUME statFor = rotations
       PROVE  /\ \A k \in DOMAIN chunk : offset + k \in DOMAIN file /\ chunk[k] = file[offset + k]
              /\ place \in 0..Len(file)
              /\ Resumable(file, offset, Accounted, Taken) /\ stat = inode
  <2>1. PartOf(chunk, file, offset)
    BY <1>1, <1>2, <1>13 DEF ChunkSound
  <2>2. place <= Len(file) /\ \A k \in DOMAIN chunk : chunk[k] = file[offset + k]
    BY <2>1 DEF PartOf
  <2>3. Resumable(file, offset, Accounted, Taken) /\ stat = inode
    BY <1>1, <1>2, <1>13 DEF OffsetsSound
  <2> QED
    BY <1>7, <2>2, <2>3
<1>14. ASSUME statFor = rotations
       PROVE  \A i \in DOMAIN file : i <= place => file[i].line \in Accounted'
  <2> SUFFICES ASSUME NEW i \in DOMAIN file, i <= place PROVE file[i].line \in Accounted'
    OBVIOUS
  <2>1. CASE i <= offset
    BY <1>8, <1>13, <1>14, <2>1 DEF Resumable, Behind
  <2>2. CASE offset < i
    <3>1. i - offset \in DOMAIN chunk /\ offset + (i - offset) = i
      BY <1>7, <2>2
    <3>2. chunk[i - offset] = file[i]
      BY <1>13, <1>14, <3>1
    <3> QED
      BY <1>9, <3>1, <3>2
  <2> QED
    BY <1>7, <2>1, <2>2
<1>15. ASSUME statFor = rotations, NEW k \in DOMAIN chunk, NEW i \in DOMAIN file, place < i
       PROVE  /\ chunk[k].line <= file[i].line
              /\ file[i].first => chunk[k].line < file[i].line
  <2>1. offset + k \in DOMAIN file /\ offset + k < i /\ chunk[k] = file[offset + k]
    BY <1>7, <1>13, <1>15
  <2> QED
    BY <2>1 DEF FileInv, Shaped
<1>16. ASSUME statFor = rotations
       PROVE  Resumable(file, place, Accounted', Taken')
  <2>1. Behind(file, place, Accounted')
    BY <1>14, <1>16 DEF Behind
  <2>2. ASSUME NEW i \in DOMAIN file, place < i, file[i].first, NEW line \in Taken'
        PROVE  line < file[i].line
    <3>1. CASE line \in Taken
      <4>1. offset < i
        BY <1>7, <2>2
      <4> QED
        BY <1>13, <1>16, <2>2, <3>1, <4>1 DEF Resumable, Ahead
    <3>2. CASE line \in Elements(b)
      BY <1>6, <1>15, <1>16, <2>2, <3>2
    <3> QED
      BY <1>8, <3>1, <3>2
  <2>3. Ahead(file, place, Taken')
    BY <2>2 DEF Ahead
  <2> QED
    BY <1>13, <1>16, <2>1, <2>3 DEF Resumable
<1>17. OffsetsSound'
  <2>1. statFor # rotations => Ahead(file, 0, Taken')
    BY <1>12 DEF Ahead
  <2> HIDE DEF place
  <2> QED
    BY <1>1, <1>2, <1>4, <1>13, <1>16, <2>1 DEF OffsetsSound
<1>18. ChunkSound'
  BY <1>1, NoPieces DEF ChunkSound
<1>19. ASSUME NEW line \in (1..lines) \ Accounted'
       PROVE  (\A older \in Taken' : older < line) /\ line \in LinesOf(file)
  <2>1. line \in (1..lines) \ Accounted
    BY <1>8, <1>19
  <2>2. (\A older \in Taken : older < line) /\ line \in LinesOf(file) \cup LinesOf(chunk)
    BY <1>2, <2>1 DEF NothingLost
  <2>3. line \notin LinesOf(chunk)
    BY <1>9, <1>19 DEF LinesOf, Elements
  <2>4. PICK i \in DOMAIN file : file[i].line = line
    BY <2>2, <2>3 DEF LinesOf, Elements
  <2>5. \A k \in DOMAIN chunk : chunk[k].line < line
    <3>1. CASE statFor # rotations
      BY <1>2, <2>4, <3>1 DEF ChunkSound
    <3>2. CASE statFor = rotations
      <4>1. place < i
        BY <1>7, <1>14, <1>19, <2>4, <3>2
      <4>2. \A k \in DOMAIN chunk : chunk[k].line <= line
        BY <1>15, <2>4, <3>2, <4>1
      <4>3. \A k \in DOMAIN chunk : chunk[k].line # line
        BY <2>3 DEF LinesOf, Elements
      <4>4. \A k \in DOMAIN chunk : chunk[k].line \in Nat
        BY <1>7, PiecesOf
      <4> QED
        BY <2>1, <4>2, <4>3, <4>4
    <3> QED
      BY <3>1, <3>2
  <2>6. \A older \in Elements(b) : older < line
    BY <1>6, <2>5
  <2> QED
    BY <1>8, <2>2, <2>3, <2>6
<1>20. NothingLost'
  BY <1>1, <1>19 DEF NothingLost, LinesOf, Elements
<1>21. InOrder'
  <2>1. Taken' \subseteq 1..lines
    BY <1>2, <1>8, <1>11 DEF InOrder
  <2> QED
    BY <1>1, <1>2, <1>6, <1>8, <1>10, <2>1 DEF InOrder
<1> QED
  BY <1>17, <1>18, <1>20, <1>21 DEF Sound

\* Two rising sequences, the second above the first.
LEMMA ConcatRises ==
  ASSUME NEW s \in Seq(Nat), NEW t \in Seq(Nat), Increasing(s), Increasing(t),
         \A older \in Elements(s), line \in Elements(t) : older < line
  PROVE  /\ s \o t \in Seq(Nat) /\ Increasing(s \o t)
         /\ Elements(s \o t) = Elements(s) \cup Elements(t)
<1> DEFINE u == s \o t
           m == Len(s)
           n == Len(t)
<1>1. /\ m \in Nat /\ n \in Nat /\ DOMAIN s = 1..m /\ DOMAIN t = 1..n
  BY LenProperties
<1>2. /\ u \in Seq(Nat) /\ Len(u) = m + n /\ DOMAIN u = 1..(m + n)
      /\ \A i \in 1..(m + n) : u[i] = IF i <= m THEN s[i] ELSE t[i - m]
  BY ConcatProperties, LenProperties
<1> HIDE DEF u, m, n
<1>3. \A i \in DOMAIN u : \/ i \in DOMAIN s /\ u[i] = s[i]
                          \/ m < i /\ i - m \in DOMAIN t /\ u[i] = t[i - m]
  BY <1>1, <1>2
<1>4. ASSUME NEW i \in DOMAIN u, NEW j \in DOMAIN u, i < j
      PROVE  u[i] < u[j]
  <2>1. CASE i \in DOMAIN s /\ u[i] = s[i] /\ j \in DOMAIN s /\ u[j] = s[j]
    BY <1>4, <2>1 DEF Increasing
  <2>2. CASE i \in DOMAIN s /\ u[i] = s[i] /\ j - m \in DOMAIN t /\ u[j] = t[j - m]
    BY <2>2 DEF Elements
  <2>3. CASE /\ m < i /\ i - m \in DOMAIN t /\ u[i] = t[i - m]
             /\ m < j /\ j - m \in DOMAIN t /\ u[j] = t[j - m]
    <3>1. i - m < j - m
      BY <1>1, <1>2, <1>4
    <3> QED
      BY <2>3, <3>1 DEF Increasing
  <2>4. ~(m < i /\ j \in DOMAIN s)
    BY <1>1, <1>2, <1>4
  <2> QED
    BY <1>3, <2>1, <2>2, <2>3, <2>4
<1>5. Elements(u) \subseteq Elements(s) \cup Elements(t)
  BY <1>3 DEF Elements
<1>6. /\ \A i \in DOMAIN s : i \in DOMAIN u /\ u[i] = s[i]
      /\ \A i \in DOMAIN t : i + m \in DOMAIN u /\ u[i + m] = t[i]
  BY <1>1, <1>2
<1>7. Elements(s) \cup Elements(t) \subseteq Elements(u)
  BY <1>6 DEF Elements
<1> QED
  BY <1>2, <1>4, <1>5, <1>7 DEF Increasing, u

LEMMA ScoreSound ==
  ASSUME ChunkInv, Sound, Score
  PROVE  Sound'
<1>1. /\ UNCHANGED <<file, inode, lines, rotations, stat, statFor, offset, chunk, saved, savedFor,
                     excused>>
      /\ pc = "score" /\ pc' = "idle" /\ scored' = scored \o batch /\ batch' = <<>>
  BY DEF Score, disk, table
<1>2. OffsetsSound /\ ChunkSound /\ NothingLost /\ InOrder
  BY DEF Sound
<1>3. scored' \in Seq(Nat) /\ Increasing(scored') /\ Elements(scored') = Taken
  <2>1. /\ scored \in Seq(Nat) /\ batch \in Seq(Nat) /\ Increasing(scored) /\ Increasing(batch)
        /\ \A older \in Elements(scored), line \in Elements(batch) : older < line
    BY <1>2 DEF InOrder
  <2> QED
    BY <1>1, <2>1, ConcatRises DEF Taken
<1>4. Taken' = Taken /\ Accounted' = Accounted
  BY <1>1, <1>3, NoPieces DEF Taken, Accounted
<1>5. OffsetsSound'
  BY <1>1, <1>2, <1>4 DEF OffsetsSound
<1>6. ChunkSound' /\ NothingLost'
  BY <1>1, <1>2, <1>4 DEF ChunkSound, NothingLost, LinesOf, Elements
<1>7. InOrder'
  <2>1. batch' \in Seq(Nat) /\ Increasing(batch') /\ Elements(batch') = {}
    BY <1>1, NoPieces, EmptySeq DEF Increasing
  <2> QED
    BY <1>1, <1>2, <1>3, <1>4, <2>1 DEF InOrder
<1> QED
  BY <1>5, <1>6, <1>7 DEF Sound

LEMMA CrashSound ==
  ASSUME Sound, Crash
  PROVE  Sound'
<1>1. /\ UNCHANGED <<file, inode, lines, rotations, stat, statFor, offset, saved, savedFor, scored>>
      /\ pc' = "idle" /\ chunk' = <<>> /\ batch' = <<>>
      /\ excused' = excused \cup Elements(batch) \cup (LinesOf(chunk) \ LinesOf(file))
  BY DEF Crash, disk, table
<1>2. OffsetsSound /\ ChunkSound /\ NothingLost /\ InOrder
  BY DEF Sound
<1>3. Taken' = Elements(scored) /\ Taken' \subseteq Taken /\ Accounted \subseteq Accounted'
  BY <1>1, NoPieces DEF Taken, Accounted
<1>4. Resumable(file, saved.offset, Accounted, Taken) => Resumable(file, saved.offset, Accounted', Taken')
  BY <1>3, ResumableKept
<1>5. Ahead(file, 0, Taken) => Ahead(file, 0, Taken')
  BY <1>3, AheadKept
<1>6. OffsetsSound'
  BY <1>1, <1>2, <1>4, <1>5 DEF OffsetsSound
<1>7. ChunkSound'
  BY <1>1, NoPieces DEF ChunkSound
<1>8. ASSUME NEW line \in (1..lines) \ Accounted'
      PROVE  (\A older \in Taken' : older < line) /\ line \in LinesOf(file)
  <2>1. line \in (1..lines) \ Accounted /\ line \notin excused'
    BY <1>3, <1>8 DEF Accounted
  <2>2. (\A older \in Taken : older < line) /\ line \in LinesOf(file) \cup LinesOf(chunk)
    BY <1>2, <2>1 DEF NothingLost
  <2> QED
    BY <1>1, <1>3, <2>1, <2>2
<1>9. NothingLost'
  BY <1>1, <1>8 DEF NothingLost, LinesOf, Elements
<1>10. InOrder'
  <2>1. batch' \in Seq(Nat) /\ Increasing(batch') /\ Elements(batch') = {}
    BY <1>1, NoPieces, EmptySeq DEF Increasing
  <2>2. Taken' \subseteq 1..lines
    BY <1>2, <1>3 DEF InOrder
  <2> QED
    BY <1>1, <1>2, <2>1, <2>2 DEF InOrder
<1> QED
  BY <1>6, <1>7, <1>9, <1>10 DEF Sound

-----------------------------------------------------------------------------
(* LogTail: the invariant holds at the start and over every step.          *)

LEMMA TailInitInv == TailInit => TailInv
<1> SUFFICES ASSUME TailInit PROVE TailInv
  OBVIOUS
<1>1. /\ file = <<>> /\ lines = 0 /\ saved.offset = 0 /\ pc = "idle" /\ offset = 0
      /\ chunk = <<>> /\ batch = <<>> /\ scored = <<>> /\ rotations = 0
      /\ savedFor = 0 /\ statFor = 0
  BY DEF TailInit, NoOffset
<1>2. FileInv /\ ChunkInv /\ OffsetsTyped
  BY <1>1, NoPieces DEF FileInv, ChunkInv, OffsetsTyped
<1>3. Taken = {}
  BY <1>1, NoPieces DEF Taken
<1>4. <<>> \in Seq(Nat) /\ Len(<<>>) = 0
  BY EmptySeq, LenProperties
<1>5. Resumable(file, 0, Accounted, Taken) /\ Ahead(file, 0, Taken)
  BY <1>1, <1>4, NoPieces DEF Resumable, Behind, Ahead
<1>6. OffsetsSound
  BY <1>1, <1>5 DEF OffsetsSound
<1>7. ChunkSound /\ NothingLost
  BY <1>1, NoPieces DEF ChunkSound, NothingLost
<1>8. InOrder
  BY <1>1, <1>3, <1>4, NoPieces DEF InOrder, Increasing
<1> QED
  BY <1>2, <1>6, <1>7, <1>8 DEF TailInv, Sound

LEMMA TailStepInv == TailInv /\ [TailNext]_tailVars => TailInv'
<1> SUFFICES ASSUME TailInv, [TailNext]_tailVars PROVE TailInv'
  OBVIOUS
<1>1. FileInv /\ ChunkInv /\ OffsetsTyped /\ (raced \/ Sound)
  BY DEF TailInv
<1>2. /\ file \in Seq(Piece) /\ Len(file) \in Nat /\ chunk \in Seq(Piece) /\ Len(chunk) \in Nat
      /\ lines \in Nat
  BY <1>1, PiecesOf DEF FileInv, ChunkInv, Shaped
<1>3. ASSUME NEW last \in BOOLEAN, Write(last) PROVE TailInv'
  <2>1. FileInv' /\ UNCHANGED <<chunk, batch, pc, offset, saved, raced>>
    BY <1>1, <1>3, WriteFile DEF Write, pass, table
  <2>2. lines' \in Nat /\ lines <= lines'
    BY <1>2, <1>3 DEF Write
  <2>3. ChunkInv'
    BY <1>1, <2>1, <2>2, ChunkKept
  <2> QED
    BY <1>1, <1>3, <2>1, <2>3, WriteSound DEF TailInv, OffsetsTyped
<1>4. ASSUME NEW i \in Inodes, Rotate(i) PROVE TailInv'
  <2>1. FileInv' /\ ChunkInv' /\ UNCHANGED <<offset, saved>> /\ (raced => raced')
    BY <1>1, <1>4, RotateShape DEF Rotate, pass, table
  <2>2. raced' \/ Sound'
    BY <1>1, <1>4, <2>1, RotateSound
  <2> QED
    BY <1>1, <2>1, <2>2 DEF TailInv, OffsetsTyped
<1>5. CASE StatFile
  <2>1. /\ UNCHANGED <<disk, chunk, batch, saved, raced>> /\ pc = "idle" /\ offset' = Resumed
    BY <1>5 DEF StatFile, table
  <2>2. FileInv' /\ chunk = <<>> /\ batch = <<>>
    BY <1>1, <2>1, FileKept DEF ChunkInv
  <2>3. ChunkInv'
    BY <2>1, <2>2, ChunkGone
  <2>4. OffsetsTyped'
    BY <1>1, <2>1 DEF OffsetsTyped, Resumed
  <2> QED
    BY <1>1, <1>5, <2>1, <2>2, <2>3, <2>4, StatSound DEF TailInv
<1>6. CASE UpToDate
  <2>1. /\ UNCHANGED <<disk, chunk, batch, offset, raced>> /\ pc = "uptodate"
        /\ saved' = [inode |-> stat, offset |-> offset]
    BY <1>6 DEF UpToDate
  <2>2. FileInv' /\ chunk = <<>> /\ batch = <<>>
    BY <1>1, <2>1, FileKept DEF ChunkInv
  <2>3. ChunkInv'
    BY <2>1, <2>2, ChunkGone
  <2>4. OffsetsTyped'
    BY <1>1, <2>1 DEF OffsetsTyped
  <2> QED
    BY <1>1, <1>6, <2>1, <2>2, <2>3, <2>4, UpToDateSound DEF TailInv
<1>7. CASE ReadChunk
  <2>1. UNCHANGED <<offset, saved, raced>> /\ offset \in Nat
    BY <1>1, <1>7 DEF ReadChunk, table, OffsetsTyped
  <2>2. FileInv' /\ ChunkInv'
    BY <1>1, <1>7, <2>1, ReadShape
  <2> QED
    BY <1>1, <1>7, <2>1, <2>2, ReadSound DEF TailInv, OffsetsTyped
<1>8. CASE SaveOffset
  <2>1. /\ UNCHANGED <<disk, offset, raced>> /\ chunk' = <<>> /\ pc' = "score"
        /\ saved' = [inode |-> stat, offset |-> offset + Len(chunk)]
    BY <1>8 DEF SaveOffset, NewOffset
  <2>2. FileInv' /\ ChunkInv'
    BY <1>1, <2>1, FileKept, NoPieces DEF ChunkInv
  <2>3. OffsetsTyped'
    BY <1>1, <1>2, <2>1 DEF OffsetsTyped
  <2> QED
    BY <1>1, <1>8, <2>1, <2>2, <2>3, SaveSound DEF TailInv
<1>9. CASE Score
  <2>1. UNCHANGED <<disk, chunk, offset, saved, raced>> /\ batch' = <<>> /\ pc = "score"
    BY <1>9 DEF Score, table
  <2>2. FileInv' /\ chunk' = <<>>
    BY <1>1, <2>1, FileKept DEF ChunkInv
  <2>3. ChunkInv'
    BY <2>1, <2>2, ChunkGone
  <2> QED
    BY <1>1, <1>9, <2>1, <2>2, <2>3, ScoreSound DEF TailInv, OffsetsTyped
<1>10. CASE Crash
  <2>1. UNCHANGED <<disk, offset, saved, raced>> /\ batch' = <<>> /\ chunk' = <<>>
    BY <1>10 DEF Crash, table
  <2>2. FileInv' /\ ChunkInv'
    BY <1>1, <2>1, FileKept, ChunkGone
  <2> QED
    BY <1>1, <1>10, <2>1, <2>2, CrashSound DEF TailInv, OffsetsTyped
<1>11. CASE UNCHANGED tailVars
  <2>1. /\ UNCHANGED <<disk, pc, stat, statFor, offset, chunk, batch, saved, savedFor, scored,
                       excused, raced>>
        /\ UNCHANGED <<file, inode, lines, rotations>>
    BY <1>11 DEF tailVars, disk, pass, table
  <2>2. FileInv' /\ ChunkInv' /\ OffsetsTyped'
    BY <1>1, <2>1, FileKept DEF ChunkInv, OffsetsTyped
  <2>3. Taken' = Taken /\ Accounted' = Accounted
    BY <2>1 DEF Taken, Accounted
  <2>4. Sound => OffsetsSound' /\ ChunkSound'
    BY <2>1, <2>3 DEF Sound, OffsetsSound, ChunkSound
  <2>5. Sound => NothingLost' /\ InOrder'
    BY <2>1, <2>3 DEF Sound, NothingLost, InOrder, LinesOf, Elements
  <2> QED
    BY <1>1, <2>1, <2>2, <2>4, <2>5 DEF TailInv, Sound
<1> QED
  BY <1>3, <1>4, <1>5, <1>6, <1>7, <1>8, <1>9, <1>10, <1>11 DEF TailNext, PassStep

LEMMA AlwaysTailInv == TailSpec => []TailInv
BY TailInitInv, TailStepInv, PTL DEF TailSpec

\* No line of a log is scored twice or before an earlier one, through rotations,
\* truncations, reused inodes and crashes, while the file was never replaced
\* between os.stat and open (authmon/logtail.py:7-9, 20-56).
THEOREM ScoredOnceInOrderHolds == TailSpec => []ScoredOnceInOrder
<1>1. TailInv => ScoredOnceInOrder
  BY DEF TailInv, Sound, InOrder, Increasing, ScoredOnceInOrder
<1> QED
  BY <1>1, AlwaysTailInv, PTL

\* A line before a scored one was scored too, or went with a rotated file, under
\* a reused inode or in a crash: read_new_lines passes over nothing
\* (authmon/logtail.py:20-56).
THEOREM NothingSkippedHolds == TailSpec => []NothingSkipped
<1>1. TailInv => NothingSkipped
  <2> SUFFICES ASSUME TailInv, ~raced, NEW i \in DOMAIN scored, NEW line \in 1..scored[i]
               PROVE  line \in Elements(scored) \cup excused
    BY DEF NothingSkipped
  <2>1. NothingLost /\ InOrder
    BY DEF TailInv, Sound
  <2>2. scored[i] \in Elements(scored) /\ scored[i] \in Taken
    BY DEF Elements, Taken
  <2>3. scored[i] \in 1..lines /\ lines \in Nat
    BY <2>1, <2>2 DEF InOrder, TailInv, FileInv
  <2>4. line \in Accounted
    BY <2>1, <2>2, <2>3 DEF NothingLost
  <2>5. line \notin Elements(batch)
    BY <2>1, <2>2, <2>3 DEF InOrder
  <2> QED
    BY <2>4, <2>5 DEF Accounted, Taken
<1> QED
  BY <1>1, AlwaysTailInv, PTL

-----------------------------------------------------------------------------
(* LogTail: the types.                                                     *)

\* Nothing is ahead of what was written, nor of the lines begun.
Bounds ==
    /\ inode \in Inodes /\ stat \in Inodes \cup {-1}
    /\ saved.inode \in Inodes \cup {-1} /\ saved = [inode |-> saved.inode, offset |-> saved.offset]
    /\ written \in 0..MaxPieces /\ lines <= written
    /\ Len(file) <= written /\ saved.offset <= written /\ offset + Len(chunk) <= written
    /\ rotations \in 0..MaxRotations /\ crashes \in 0..MaxCrashes
    /\ savedFor \in 0..rotations /\ statFor \in 0..rotations
    /\ pc \in {"idle", "uptodate", "open", "save", "score"}
    /\ batch \in Seq(1..lines) /\ scored \in Seq(1..lines)
    /\ complete \subseteq 1..lines /\ excused \subseteq 1..lines
    /\ raced \in BOOLEAN

TailTypes == FileInv /\ ChunkInv /\ OffsetsTyped /\ Bounds

LEMMA LargerSeq ==
  ASSUME NEW S, NEW T, S \subseteq T, NEW s \in Seq(S)
  PROVE  s \in Seq(T)
OBVIOUS

LEMMA BoundsAreTypes == TailTypes => TailTypeOK
<1> SUFFICES ASSUME TailTypes PROVE TailTypeOK
  OBVIOUS
<1>1. /\ file \in Seq(Piece) /\ chunk \in Seq(Piece) /\ lines \in Nat /\ Bounds
      /\ offset \in Nat /\ saved.offset \in Nat
  BY DEF TailTypes, FileInv, ChunkInv, Shaped, OffsetsTyped
<1>2. Len(chunk) \in Nat /\ written \in Nat /\ written <= MaxPieces /\ MaxPieces \in Nat
  BY <1>1, TailAssumption, PiecesOf DEF Bounds
<1>3. offset \in 0..MaxPieces /\ saved.offset \in 0..written /\ lines \in 0..written
  BY <1>1, <1>2 DEF Bounds
<1>4. saved \in [inode : Inodes \cup {-1}, offset : 0..written]
  BY <1>1, <1>3 DEF Bounds
<1>5. 1..lines \subseteq Nat
  BY <1>1
<1>6. batch \in Seq(Nat) /\ scored \in Seq(Nat)
  BY <1>1, <1>5, LargerSeq DEF Bounds
<1> QED
  BY <1>1, <1>3, <1>4, <1>6 DEF TailTypeOK, Bounds

LEMMA InitBounds == TailInit => TailTypes
<1> SUFFICES ASSUME TailInit PROVE TailTypes
  OBVIOUS
<1>1. /\ file = <<>> /\ lines = 0 /\ saved = NoOffset /\ pc = "idle" /\ offset = 0 /\ stat = -1
      /\ chunk = <<>> /\ batch = <<>> /\ scored = <<>> /\ rotations = 0 /\ crashes = 0
      /\ savedFor = 0 /\ statFor = 0 /\ written = 0 /\ complete = {} /\ excused = {}
      /\ raced = FALSE /\ inode \in Inodes
  BY DEF TailInit
<1>2. <<>> \in Seq(1..lines) /\ Len(<<>>) = 0
  BY EmptySeq, LenProperties
<1>3. 0 \in 0..MaxPieces /\ 0 \in 0..MaxRotations /\ 0 \in 0..MaxCrashes /\ 0 \in 0..0
  BY TailAssumption
<1>4. saved = [inode |-> -1, offset |-> 0] /\ saved.inode = -1 /\ saved.offset = 0
  BY <1>1 DEF NoOffset
<1>5. lines <= written /\ Len(file) <= written /\ saved.offset <= written
      /\ offset + Len(chunk) <= written
  BY <1>1, <1>2, <1>4
<1>6. Bounds
  BY <1>1, <1>2, <1>3, <1>4, <1>5 DEF Bounds
<1> QED
  BY <1>6, TailInitInv DEF TailInv, TailTypes

LEMMA LinesTyped ==
  ASSUME FileInv, ChunkInv, Bounds
  PROVE  /\ LinesOf(file) \subseteq 1..lines /\ LinesOf(chunk) \subseteq 1..lines
         /\ Elements(batch) \subseteq 1..lines
<1>1. \A i \in DOMAIN batch : batch[i] \in 1..lines
  <2> DEFINE L == 1..lines
  <2>1. batch \in Seq(L)
    BY DEF Bounds
  <2> HIDE DEF L
  <2>2. \A i \in DOMAIN batch : batch[i] \in L
    BY <2>1, ElementOfSeq, LenProperties
  <2> QED
    BY <2>2 DEF L
<1> QED
  BY <1>1 DEF FileInv, ChunkInv, LinesOf, Elements

LEMMA StepBounds == TailTypes /\ [TailNext]_tailVars => Bounds'
<1> SUFFICES ASSUME TailTypes, [TailNext]_tailVars PROVE Bounds'
  OBVIOUS
<1>1. FileInv /\ ChunkInv /\ OffsetsTyped /\ Bounds
  BY DEF TailTypes
<1>2. /\ file \in Seq(Piece) /\ Len(file) \in Nat /\ chunk \in Seq(Piece) /\ Len(chunk) \in Nat
      /\ lines \in Nat /\ written \in Nat /\ offset \in Nat /\ saved.offset \in Nat
      /\ rotations \in Nat /\ crashes \in Nat
  BY <1>1, PiecesOf DEF FileInv, ChunkInv, Shaped, Bounds, OffsetsTyped
<1>3. /\ LinesOf(file) \subseteq 1..lines /\ LinesOf(chunk) \subseteq 1..lines
      /\ Elements(batch) \subseteq 1..lines
  BY <1>1, LinesTyped
<1>4. <<>> \in Seq(1..lines) /\ Len(<<>>) = 0
  BY EmptySeq, LenProperties
<1>5. /\ written \in 0..MaxPieces /\ rotations \in 0..MaxRotations /\ crashes \in 0..MaxCrashes
      /\ MaxPieces \in Nat /\ MaxRotations \in Nat /\ MaxCrashes \in Nat
  BY <1>1, TailAssumption DEF Bounds
<1>6. ASSUME NEW last \in BOOLEAN, Write(last) PROVE Bounds'
  <2>1. /\ UNCHANGED <<inode, rotations, pc, stat, statFor, offset, chunk, batch, saved,
                       savedFor, scored, crashes, excused, raced>>
        /\ written < MaxPieces /\ written' = written + 1
        /\ lines' = IF OpenPieces = {} THEN lines + 1 ELSE lines
        /\ complete' = IF last THEN complete \cup {lines'} ELSE complete
    BY <1>6 DEF Write, pass, table
  <2>2. Len(file') = Len(file) + 1
    BY <1>1, <1>6, WriteAdds
  <2>3. lines' \in {lines, lines + 1} /\ lines' \in Nat /\ lines <= lines'
    BY <1>2, <2>1
  <2>4. batch \in Seq(1..lines') /\ scored \in Seq(1..lines')
    <3>1. 1..lines \subseteq 1..lines'
      BY <1>2, <2>3
    <3> QED
      BY <1>1, <3>1, LargerSeq DEF Bounds
  <2>5. lines' # 0
    <3>1. CASE OpenPieces = {}
      BY <1>2, <2>1, <3>1
    <3>2. CASE OpenPieces # {}
      <4>1. PICK i \in DOMAIN file : TRUE
        BY <3>2 DEF OpenPieces
      <4>2. file[i].line \in 1..lines
        BY <1>1, <4>1 DEF FileInv
      <4> QED
        BY <1>2, <2>3, <4>2
    <3> QED
      BY <3>1, <3>2
  <2>6. complete' \subseteq 1..lines' /\ excused' \subseteq 1..lines'
    <3>1. complete \subseteq 1..lines /\ excused \subseteq 1..lines
      BY <1>1 DEF Bounds
    <3>2. 1..lines \subseteq 1..lines' /\ lines' \in 1..lines'
      BY <1>2, <2>3, <2>5
    <3> QED
      BY <2>1, <3>1, <3>2
  <2>7. /\ written' \in 0..MaxPieces /\ lines' <= written' /\ Len(file') <= written'
        /\ saved.offset <= written' /\ offset + Len(chunk) <= written'
    <3>1. /\ lines <= written /\ Len(file) <= written /\ saved.offset <= written
          /\ offset + Len(chunk) <= written
      BY <1>1 DEF Bounds
    <3>2. written' \in 0..MaxPieces
      BY <1>2, <1>5, <2>1
    <3>3. lines' <= written' /\ Len(file') <= written'
      BY <1>2, <2>1, <2>2, <2>3, <3>1
    <3>4. saved.offset <= written' /\ offset + Len(chunk) <= written'
      BY <1>2, <2>1, <3>1
    <3> QED
      BY <3>2, <3>3, <3>4
  <2> QED
    BY <1>1, <2>1, <2>4, <2>6, <2>7 DEF Bounds
<1>7. ASSUME NEW i \in Inodes, Rotate(i) PROVE Bounds'
  <2>1. /\ UNCHANGED <<lines, written, complete, pc, stat, statFor, offset, chunk, batch, saved,
                       savedFor, scored, crashes>>
        /\ rotations < MaxRotations /\ rotations' = rotations + 1 /\ inode' = i /\ file' = <<>>
        /\ excused' \subseteq excused \cup LinesOf(file) /\ raced' = (raced \/ pc = "open")
    BY <1>7 DEF Rotate, pass, table
  <2>2. excused' \subseteq 1..lines
    BY <1>1, <1>3, <2>1 DEF Bounds
  <2>3. rotations' \in 0..MaxRotations /\ 0..rotations \subseteq 0..rotations'
    BY <1>2, <1>5, <2>1
  <2>4. Len(file') <= written
    BY <1>2, <1>4, <2>1
  <2> QED
    BY <1>1, <2>1, <2>2, <2>3, <2>4 DEF Bounds
<1>8. CASE StatFile
  <2>1. /\ UNCHANGED <<disk, chunk, batch, saved, savedFor, scored, crashes, raced>>
        /\ pc = "idle" /\ pc' \in {"uptodate", "open"} /\ stat' = inode /\ statFor' = rotations
        /\ offset' = Resumed
        /\ excused' \subseteq excused \cup LinesOf(file)
    BY <1>8 DEF StatFile, table, LinesOf, Elements
  <2>2. chunk = <<>>
    BY <1>1, <2>1 DEF ChunkInv
  <2>3. offset' + Len(chunk') <= written
    BY <1>1, <1>2, <1>4, <2>1, <2>2 DEF Resumed, Bounds
  <2>4. excused' \subseteq 1..lines
    BY <1>1, <1>3, <2>1 DEF Bounds
  <2>5. rotations \in 0..rotations
    BY <1>2
  <2> QED
    BY <1>1, <2>1, <2>3, <2>4, <2>5 DEF Bounds, disk
<1>9. CASE UpToDate
  <2>1. /\ UNCHANGED <<disk, stat, statFor, offset, chunk, batch, scored, crashes, excused, raced>>
        /\ saved' = [inode |-> stat, offset |-> offset] /\ savedFor' = statFor /\ pc' = "idle"
    BY <1>9 DEF UpToDate
  <2>2. saved'.inode = stat /\ saved'.offset = offset /\ offset <= written
    BY <1>1, <1>2, <2>1 DEF Bounds
  <2> QED
    BY <1>1, <2>1, <2>2 DEF Bounds, disk
<1>10. CASE ReadChunk
  <2>1. /\ UNCHANGED <<disk, stat, statFor, offset, batch, saved, savedFor, scored, crashes,
                       excused, raced>>
        /\ pc' = "save"
    BY <1>10 DEF ReadChunk, table
  <2>2. /\ PartOf(chunk', file, IF offset <= Len(file) THEN offset ELSE 0)
        /\ chunk' # <<>> => offset <= Len(file)
    BY <1>1, <1>2, <1>10, ReadPart
  <2>3. Len(chunk') \in Nat /\ (chunk' = <<>> => Len(chunk') = 0)
    BY <2>2, PiecesOf, <1>4 DEF PartOf
  <2>4. offset + Len(chunk') <= written
    <3>1. CASE chunk' = <<>>
      BY <1>1, <1>2, <2>3, <3>1 DEF Bounds
    <3>2. CASE chunk' # <<>>
      <4>1. offset + Len(chunk') <= Len(file)
        BY <2>2, <3>2 DEF PartOf
      <4> QED
        BY <1>1, <1>2, <2>3, <4>1 DEF Bounds
    <3> QED
      BY <3>1, <3>2
  <2> QED
    BY <1>1, <2>1, <2>4 DEF Bounds, disk
<1>11. CASE SaveOffset
  <2>1. /\ UNCHANGED <<disk, stat, statFor, offset, scored, crashes, excused, raced>>
        /\ saved' = [inode |-> stat, offset |-> offset + Len(chunk)] /\ savedFor' = statFor
        /\ pc' = "score" /\ batch' = LinesIn(chunk) /\ chunk' = <<>>
    BY <1>11 DEF SaveOffset, NewOffset
  <2>2. saved'.inode = stat /\ saved'.offset = offset + Len(chunk)
    BY <2>1
  <2>3. batch' \in Seq(1..lines)
    <3> DEFINE b == LinesIn(chunk)
    <3>1. /\ b \in Seq(Nat)
          /\ \A line \in Elements(b) : \E k \in DOMAIN chunk : chunk[k].line = line
      BY <1>1, LinesOfChunk DEF ChunkInv
    <3> HIDE DEF b
    <3>2. \A line \in Elements(b) : line \in 1..lines
      BY <1>1, <3>1 DEF ChunkInv
    <3>3. Len(b) \in Nat /\ DOMAIN b = 1..Len(b) /\ b = [i \in 1..Len(b) |-> b[i]]
      BY <3>1, LenProperties
    <3>4. \A i \in 1..Len(b) : b[i] \in 1..lines
      BY <3>2, <3>3 DEF Elements
    <3> DEFINE L == 1..lines
               n == Len(b)
    <3>5. n \in Nat /\ b \in [1..n -> L]
      BY <3>3, <3>4
    <3> HIDE DEF L, n
    <3>6. b \in Seq(L)
      BY <3>5, SeqDef
    <3> QED
      BY <2>1, <3>6 DEF L, b
  <2>4. offset' + Len(chunk') <= written
    BY <1>1, <1>2, <1>4, <2>1 DEF Bounds
  <2> QED
    BY <1>1, <2>1, <2>2, <2>3, <2>4 DEF Bounds, disk
<1>12. CASE Score
  <2>1. /\ UNCHANGED <<disk, stat, statFor, offset, chunk, saved, savedFor, crashes, excused, raced>>
        /\ pc' = "idle" /\ scored' = scored \o batch /\ batch' = <<>>
    BY <1>12 DEF Score, table
  <2>2. scored' \in Seq(1..lines)
    <3> DEFINE L == 1..lines
    <3>1. scored \in Seq(L) /\ batch \in Seq(L)
      BY <1>1 DEF Bounds
    <3> HIDE DEF L
    <3>2. scored \o batch \in Seq(L)
      BY <3>1, ConcatProperties
    <3> QED
      BY <2>1, <3>2 DEF L
  <2> QED
    BY <1>1, <1>4, <2>1, <2>2 DEF Bounds, disk
<1>13. CASE Crash
  <2>1. /\ UNCHANGED <<disk, stat, statFor, offset, saved, savedFor, scored, raced>>
        /\ crashes < MaxCrashes /\ crashes' = crashes + 1
        /\ pc' = "idle" /\ chunk' = <<>> /\ batch' = <<>>
        /\ excused' \subseteq excused \cup Elements(batch) \cup LinesOf(chunk)
    BY <1>13 DEF Crash, table
  <2>2. excused' \subseteq 1..lines
    BY <1>1, <1>3, <2>1 DEF Bounds
  <2>3. crashes' \in 0..MaxCrashes
    BY <1>2, <1>5, <2>1
  <2>4. offset + Len(chunk') <= written
    BY <1>1, <1>2, <1>4, <2>1 DEF Bounds
  <2> QED
    BY <1>1, <1>4, <2>1, <2>2, <2>3, <2>4 DEF Bounds, disk
<1>14. CASE UNCHANGED tailVars
  BY <1>1, <1>14 DEF tailVars, disk, pass, table, Bounds
<1> QED
  BY <1>6, <1>7, <1>8, <1>9, <1>10, <1>11, <1>12, <1>13, <1>14 DEF TailNext, PassStep

\* The types of all variables: no offset is ahead of what was written, and no
\* line is scored or excused that was not begun, not even by a pass that raced
\* (authmon/logtail.py:20-56).
THEOREM TailTypeInvariance == TailSpec => []TailTypeOK
<1>1. TailInit => TailInv /\ Bounds
  BY TailInitInv, InitBounds DEF TailTypes
<1>2. TailInv /\ Bounds /\ [TailNext]_tailVars => TailInv' /\ Bounds'
  BY TailStepInv, StepBounds DEF TailInv, TailTypes
<1>3. TailInv /\ Bounds => TailTypeOK
  BY BoundsAreTypes DEF TailInv, TailTypes
<1> QED
  BY <1>1, <1>2, <1>3, PTL DEF TailSpec
====
