-------------------------- MODULE ControlLogsProofs --------------------------
(***************************************************************************)
(* Proofs about ControlLogs, for every set of packets, every length of the *)
(* logs and every environment.                                             *)
(***************************************************************************)
EXTENDS ControlLogs, SequenceTheorems, WellFoundedInduction, TLAPS

(***************************************************************************)
(* The inductive invariant.                                                *)
(***************************************************************************)

\* A log holds no more lines than it may, and a torn line is one of them.
LogsBounded ==
  \A r \in Roles : Len(log[r]) <= MaxLines /\ (torn[r] => Len(log[r]) > 0)

Typed == TypeOK /\ LogsBounded

\* What has been pushed lies behind the offset of the tail, and where something has
\* been pushed the log has not shrunk.
PushedBehindTail ==
  \A r \in Roles :
    /\ \A i \in DOMAIN pushed[r] : pushed[r][i] <= tailOffset[r]
    /\ pushed[r] # <<>> => tailOffset[r] <= Whole(r)

\* Between the two logs the browser is there, unless a message to it has failed.
TailingSends == tailing /\ "send" \notin env => ws

\* The cache knows a line of each packet that a scan has passed.
CacheCovers ==
  "truncate" \notin env =>
    \A r \in Roles, u \in Uids : Scanned(r, u) # {} => cache[u][r] # None

\* A line in the cache is of the side it is kept for; a torn one is still in the log,
\* behind the offset from which the next scan reads.
CacheTruthful ==
  \A r \in Roles, u \in Uids : cache[u][r] # None =>
    /\ cache[u][r][1] = r
    /\ ("truncate" \notin env /\ cache[u][r][3]) =>
         /\ packetOffset[r] < cache[u][r][2] /\ cache[u][r][2] <= Len(log[r])
         /\ log[r][cache[u][r][2]] = u

\* Between two requests each packet in the cache has its record.
RecordsFollowCache ==
  ~scanning => \A u \in Uids : cache[u] # NoLines =>
    [uid |-> u, line |-> Picked(u, cache[u])] \in packets

\* A torn record's line is in the log and will be read again, unless the request under
\* way has read it.
TornRecords ==
  "truncate" \notin env => \A x \in packets : x.line[3] =>
    LET r == x.line[1] IN
    /\ x.line[2] <= Len(log[r]) /\ log[r][x.line[2]] = x.uid
    /\ packetOffset[r] < x.line[2] \/ (scanning /\ r = "server" /\ cache[x.uid] # NoLines)

TailInv == PushedBehindTail /\ PushedOnceInOrder /\ PassedLinesPushed /\ TailingSends
RecordInv ==
  /\ OneRecordPerPacket /\ CacheCovers /\ CacheTruthful /\ RecordsFollowCache
  /\ TornRecords
IInv == Typed /\ TailInv /\ RecordInv

(***************************************************************************)
(* The operators.                                                          *)
(***************************************************************************)

\* The whole lines of a log are all lines but a torn one.
LEMMA WholeLines ==
  ASSUME TypeOK, LogsBounded, NEW r \in Roles
  PROVE  /\ log[r] \in Seq(Uids) /\ Len(log[r]) \in Nat /\ Len(log[r]) <= MaxLines
         /\ Whole(r) \in 0..MaxLines /\ Whole(r) <= Len(log[r])
         /\ ~torn[r] => Whole(r) = Len(log[r])
         /\ torn[r] => Whole(r) = Len(log[r]) - 1
<1>1. log[r] \in Seq(Uids) /\ torn[r] \in BOOLEAN
  BY DEF TypeOK
<1>2. Len(log[r]) \in Nat
  BY <1>1, LenProperties
<1>3. Len(log[r]) <= MaxLines /\ (torn[r] => Len(log[r]) > 0)
  BY DEF LogsBounded
<1>4. CASE torn[r]
  BY <1>1, <1>2, <1>3, <1>4, BoundsAssumption DEF Whole
<1>5. CASE ~torn[r]
  BY <1>1, <1>2, <1>3, <1>5, BoundsAssumption DEF Whole
<1>6. QED
  BY <1>4, <1>5

\* A reader begins at a place in the log, not beyond its end.
LEMMA FromPlace ==
  ASSUME TypeOK, LogsBounded, NEW r \in Roles, NEW offset \in 0..MaxLines
  PROVE  /\ From(r, offset) \in 0..Whole(r)
         /\ offset <= Whole(r) => From(r, offset) = offset
BY WholeLines DEF From

\* A set of places in a log that is not empty has a last one: the distances from the end have a
\* least.
LEMMA HasLast ==
  ASSUME NEW n \in Nat, NEW S, S \subseteq 0..n, S # {}
  PROVE  \E m \in S : \A j \in S : j <= m
<1>. DEFINE T == {n - i : i \in S}
<1>1. T \subseteq Nat /\ T # {}
  <2>1. \A i \in S : n - i \in Nat
    OBVIOUS
  <2>2. QED
    BY <2>1
<1>2. \E x \in T : \A y \in T : ~(<<y, x>> \in OpToRel(<, Nat))
  BY <1>1, NatLessThanWellFounded, WFMin
<1>3. PICK m \in S : \A j \in S : ~(n - j < n - m)
  BY <1>1, <1>2 DEF OpToRel
<1>4. QED
  BY <1>3

\* The last of the new lines of a packet.
LEMMA LastLineProperties ==
  ASSUME TypeOK, LogsBounded, NEW r \in Roles, NEW u \in Uids, NewLines(r, u) # {}
  PROVE  /\ LastLine(r, u) \in 1..Len(log[r]) /\ log[r][LastLine(r, u)] = u
         /\ LastLine(r, u) > From(r, packetOffset[r])
         /\ \A j \in NewLines(r, u) : j <= LastLine(r, u)
<1>1. packetOffset[r] \in 0..MaxLines
  BY DEF TypeOK
<1>2. From(r, packetOffset[r]) \in Nat /\ Len(log[r]) \in Nat
  BY <1>1, FromPlace, WholeLines
<1>3. NewLines(r, u) \subseteq 0..Len(log[r])
  BY <1>2 DEF NewLines
<1>4. \E m \in NewLines(r, u) : \A j \in NewLines(r, u) : j <= m
  BY <1>2, <1>3, HasLast
<1>5. LastLine(r, u) \in NewLines(r, u) /\ \A j \in NewLines(r, u) : j <= LastLine(r, u)
  BY <1>4 DEF LastLine
<1>6. QED
  BY <1>2, <1>5 DEF NewLines

LEMMA EntryIsLine ==
  ASSUME NEW r \in Roles, NEW i \in 1..MaxLines, NEW part \in BOOLEAN
  PROVE  /\ Entry(r, i, part) \in Lines /\ Entry(r, i, part) # None
         /\ Entry(r, i, part)[1] = r /\ Entry(r, i, part)[2] = i /\ Entry(r, i, part)[3] = part
BY DEF Entry, Lines, None

\* What a scan leaves in the cache.
LEMMA ScanType ==
  ASSUME TypeOK, LogsBounded, NEW r \in Roles, Scan(r)
  PROVE  /\ packetOffset' \in [Roles -> 0..MaxLines] /\ packetOffset'[r] = Whole(r)
         /\ \A q \in Roles \ {r} : packetOffset'[q] = packetOffset[q]
         /\ cache' \in [Uids -> [Roles -> Lines]]
<1>1. packetOffset' = [packetOffset EXCEPT ![r] = Whole(r)]
  BY DEF Scan, NextOffset
<1>2. packetOffset \in [Roles -> 0..MaxLines] /\ Whole(r) \in 0..MaxLines
  BY WholeLines DEF TypeOK
<1>3. ASSUME NEW u \in Uids, NewLines(r, u) # {}
      PROVE  Entry(r, LastLine(r, u), LastLine(r, u) > Whole(r)) \in Lines
  <2>1. LastLine(r, u) \in 1..MaxLines
    BY <1>3, LastLineProperties, WholeLines, BoundsAssumption
  <2>2. (LastLine(r, u) > Whole(r)) \in BOOLEAN
    OBVIOUS
  <2>3. QED
    BY <2>1, <2>2, EntryIsLine
<1>4. ASSUME NEW u \in Uids
      PROVE  cache'[u] \in [Roles -> Lines]
  <2>1. cache[u] \in [Roles -> Lines]
    BY DEF TypeOK
  <2>2. cache'[u] = IF NewLines(r, u) = {} THEN cache[u]
                    ELSE [cache[u] EXCEPT ![r] = Entry(r, LastLine(r, u), LastLine(r, u) > Whole(r))]
    BY DEF Scan
  <2>3. QED
    BY <1>3, <2>1, <2>2
<1>5. cache' = [u \in Uids |-> cache'[u]]
  BY DEF Scan
<1>6. QED
  BY <1>1, <1>2, <1>4, <1>5

(***************************************************************************)
(* The steps of the children: a log grows, and what is whole stays whole.  *)
(***************************************************************************)
Grow ==
  \A r \in Roles :
    /\ log'[r] \in Seq(Uids) /\ Len(log[r]) <= Len(log'[r])
    /\ \A i \in 1..Len(log[r]) : log'[r][i] = log[r][i]
    /\ Whole(r) <= Whole(r)'

LEMMA WriteGrows ==
  ASSUME TypeOK, LogsBounded, NEW r \in Roles, Write(r)
  PROVE  /\ log' \in [Roles -> Seq(Uids)] /\ torn' \in [Roles -> BOOLEAN]
         /\ LogsBounded' /\ Grow
<1>1. PICK u \in Uids : log' = [log EXCEPT ![r] = Append(@, u)]
  BY DEF Write
<1>2. log[r] \in Seq(Uids) /\ Len(log[r]) \in Nat /\ Len(log[r]) < MaxLines /\ ~torn[r]
  BY WholeLines DEF Write
<1>3. /\ Append(log[r], u) \in Seq(Uids) /\ Len(Append(log[r], u)) = Len(log[r]) + 1
      /\ \A i \in 1..Len(log[r]) : Append(log[r], u)[i] = log[r][i]
  BY <1>2, AppendProperties
<1>4. log' \in [Roles -> Seq(Uids)] /\ log'[r] = Append(log[r], u)
      /\ \A q \in Roles \ {r} : log'[q] = log[q]
  BY <1>1, <1>3 DEF TypeOK
<1>5. torn' \in [Roles -> BOOLEAN] /\ \A q \in Roles \ {r} : torn'[q] = torn[q]
  BY DEF TypeOK, Write
<1>6. ASSUME NEW q \in Roles
      PROVE  Len(log'[q]) <= MaxLines /\ (torn'[q] => Len(log'[q]) > 0)
  <2>1. CASE q = r
    BY <1>2, <1>3, <1>4, <2>1, BoundsAssumption
  <2>2. CASE q # r
    BY <1>4, <1>5, <2>2 DEF LogsBounded
  <2>3. QED
    BY <2>1, <2>2
<1>7. Whole(r) <= Whole(r)'
  <2>1. CASE torn'[r]
    BY <1>2, <1>3, <1>4, <2>1 DEF Whole
  <2>2. CASE ~torn'[r]
    BY <1>2, <1>3, <1>4, <2>2 DEF Whole
  <2>3. QED
    BY <2>1, <2>2
<1>8. ASSUME NEW q \in Roles
      PROVE  /\ log'[q] \in Seq(Uids) /\ Len(log[q]) <= Len(log'[q])
             /\ \A i \in 1..Len(log[q]) : log'[q][i] = log[q][i]
             /\ Whole(q) <= Whole(q)'
  <2>1. CASE q = r
    BY <1>2, <1>3, <1>4, <1>7, <2>1
  <2>2. CASE q # r
    <3>1. log'[q] = log[q] /\ torn'[q] = torn[q]
      BY <1>4, <1>5, <2>2
    <3>2. Whole(q)' = Whole(q)
      BY <3>1 DEF Whole
    <3>3. log[q] \in Seq(Uids) /\ Len(log[q]) \in Nat /\ Whole(q) \in Nat
      BY WholeLines
    <3>4. QED
      BY <3>1, <3>2, <3>3
  <2>3. QED
    BY <2>1, <2>2
<1>9. QED
  BY <1>4, <1>5, <1>6, <1>8 DEF Grow, LogsBounded

LEMMA CompleteGrows ==
  ASSUME TypeOK, LogsBounded, NEW r \in Roles, Complete(r)
  PROVE  torn' \in [Roles -> BOOLEAN] /\ LogsBounded' /\ Grow
<1>1. log' = log /\ torn[r] /\ torn' = [torn EXCEPT ![r] = FALSE]
  BY DEF Complete
<1>2. torn' \in [Roles -> BOOLEAN] /\ ~torn'[r] /\ \A q \in Roles \ {r} : torn'[q] = torn[q]
  BY <1>1 DEF TypeOK
<1>3. LogsBounded'
  BY <1>1, <1>2 DEF LogsBounded
<1>4. ASSUME NEW q \in Roles
      PROVE  Whole(q) <= Whole(q)'
  <2>1. CASE q = r
    BY <1>1, <1>2, <2>1, WholeLines DEF Whole
  <2>2. CASE q # r
    BY <1>1, <1>2, <2>2, WholeLines DEF Whole
  <2>3. QED
    BY <2>1, <2>2
<1>5. \A q \in Roles : log[q] \in Seq(Uids) /\ Len(log[q]) \in Nat
  BY WholeLines
<1>6. QED
  BY <1>1, <1>2, <1>3, <1>4, <1>5 DEF Grow

(***************************************************************************)
(* The steps of the tail.  The places pushed are those from the offset to  *)
(* the last line sent.                                                     *)
(***************************************************************************)
LEMMA Places ==
  ASSUME NEW S, NEW n \in Nat, NEW from \in Int, \A i \in 1..n : from + i \in S
  PROVE  /\ [i \in 1..n |-> from + i] \in Seq(S) /\ Len([i \in 1..n |-> from + i]) = n
         /\ \A i \in 1..n : [j \in 1..n |-> from + j][i] = from + i
OBVIOUS

\* The same places, counted from behind the k lines pushed before.
LEMMA PlacesShift ==
  ASSUME NEW from \in Nat, NEW sent \in Nat, NEW k \in Nat, NEW i \in Int,
         NEW whole \in Nat, sent <= whole
  PROVE  /\ \A j \in Int : i < j => from + (i - k) < from + (j - k)
         /\ i - k \in 1..(sent - from) =>
              /\ from + (i - k) \in Nat
              /\ from + (i - k) > from /\ from + (i - k) <= whole
OBVIOUS

LEMMA PushProperties ==
  ASSUME TypeOK, LogsBounded, NEW r \in Roles, PushLogTail(r)
  PROVE  \E sent \in From(r, tailOffset[r])..Whole(r) :
           /\ sent < Whole(r) => "send" \in env \/ ~ws
           /\ ws' \in BOOLEAN /\ (ws /\ "send" \notin env => ws')
           /\ pushed'[r] \in Seq(1..MaxLines) /\ pushed' \in [Roles -> Seq(1..MaxLines)]
           /\ \A q \in Roles \ {r} : pushed'[q] = pushed[q]
           /\ Len(pushed'[r]) = Len(pushed[r]) + (sent - From(r, tailOffset[r]))
           /\ \A i \in 1..Len(pushed'[r]) :
                pushed'[r][i] = IF i <= Len(pushed[r]) THEN pushed[r][i]
                                ELSE From(r, tailOffset[r]) + (i - Len(pushed[r]))
<1>. DEFINE from == From(r, tailOffset[r])
<1>1. tailOffset[r] \in 0..MaxLines
  BY DEF TypeOK
<1>2. from \in 0..Whole(r) /\ Whole(r) \in 0..MaxLines /\ MaxLines \in Nat
  BY <1>1, FromPlace, WholeLines, BoundsAssumption
<1>3. PICK sent \in from..Whole(r) :
        /\ IF ws THEN sent = Whole(r) \/ "send" \in env ELSE sent = from
        /\ ws' \in {ws /\ sent = Whole(r)} \cup (IF torn[r] /\ "send" \in env THEN {FALSE} ELSE {})
        /\ pushed' = [pushed EXCEPT ![r] = @ \o [i \in 1..(sent - from) |-> from + i]]
  BY DEF PushLogTail
<1>. DEFINE places == [i \in 1..(sent - from) |-> from + i]
<1>4. sent - from \in Nat /\ \A i \in 1..(sent - from) : from + i \in 1..MaxLines
  BY <1>2
<1>5. /\ places \in Seq(1..MaxLines) /\ Len(places) = sent - from
      /\ \A i \in 1..(sent - from) : places[i] = from + i
  <2>1. from \in Int
    BY <1>2
  <2>. HIDE DEF from
  <2>2. QED
    BY <1>4, <2>1, Places
<1>6. pushed \in [Roles -> Seq(1..MaxLines)] /\ pushed[r] \in Seq(1..MaxLines)
      /\ Len(pushed[r]) \in Nat
  BY LenProperties DEF TypeOK
<1>. HIDE DEF places
<1>7. /\ pushed[r] \o places \in Seq(1..MaxLines)
      /\ Len(pushed[r] \o places) = Len(pushed[r]) + (sent - from)
      /\ \A i \in 1..(Len(pushed[r]) + (sent - from)) : (pushed[r] \o places)[i] =
           IF i <= Len(pushed[r]) THEN pushed[r][i] ELSE places[i - Len(pushed[r])]
  BY <1>5, <1>6, ConcatProperties
<1>8. pushed' = [pushed EXCEPT ![r] = pushed[r] \o places]
  BY <1>3 DEF places
<1>9. /\ pushed'[r] = pushed[r] \o places /\ pushed' \in [Roles -> Seq(1..MaxLines)]
      /\ \A q \in Roles \ {r} : pushed'[q] = pushed[q]
  BY <1>6, <1>7, <1>8
<1>10. ws' \in BOOLEAN /\ (ws /\ "send" \notin env => ws')
  <2>1. (ws /\ sent = Whole(r)) \in BOOLEAN
    OBVIOUS
  <2>2. ws' \in {ws /\ sent = Whole(r)} \cup (IF torn[r] /\ "send" \in env THEN {FALSE} ELSE {})
    BY <1>3
  <2>3. CASE "send" \in env
    BY Zenon, <2>1, <2>2, <2>3
  <2>4. CASE "send" \notin env
    <3>1. ws' = (ws /\ sent = Whole(r))
      BY Zenon, <2>2, <2>4
    <3>2. ws => sent = Whole(r)
      BY <1>3, <2>4
    <3>3. QED
      BY Zenon, <2>1, <3>1, <3>2
  <2>5. QED
    BY <2>3, <2>4
<1>11. ASSUME NEW i \in 1..Len(pushed'[r])
       PROVE  pushed'[r][i] = IF i <= Len(pushed[r]) THEN pushed[r][i]
                              ELSE from + (i - Len(pushed[r]))
  <2>. HIDE DEF from
  <2>1. CASE i <= Len(pushed[r])
    BY <1>2, <1>4, <1>6, <1>7, <1>9, <2>1
  <2>2. CASE ~(i <= Len(pushed[r]))
    <3>1. i - Len(pushed[r]) \in 1..(sent - from)
      BY <1>2, <1>4, <1>6, <1>7, <1>9, <2>2
    <3>2. places[i - Len(pushed[r])] = from + (i - Len(pushed[r]))
      BY <1>5, <3>1
    <3>3. QED
      BY <1>2, <1>4, <1>6, <1>7, <1>9, <2>2, <3>2
  <2>3. QED
    BY <2>1, <2>2
<1>12. (sent < Whole(r) => "send" \in env \/ ~ws)
  <2>1. CASE ws
    BY <1>2, <1>3, <2>1
  <2>2. CASE ~ws
    BY <2>2
  <2>3. QED
    BY <2>1, <2>2
<1>13. QED
  BY <1>7, <1>9, <1>10, <1>11, <1>12

(***************************************************************************)
(* Type correctness.                                                       *)
(***************************************************************************)
LEMMA TypedInit == Init => Typed
<1>. SUFFICES ASSUME Init PROVE Typed
  OBVIOUS
<1>1. MaxLines \in Nat /\ MaxEvents \in Nat
  BY BoundsAssumption
<1>2. <<>> \in Seq(Uids) /\ <<>> \in Seq(1..MaxLines) /\ Len(<<>>) = 0
  BY EmptySeq
<1>3. NoLines \in [Roles -> Lines]
  BY DEF NoLines, Lines
<1>4. \A r \in Roles : Whole(r) = 0
  BY <1>2 DEF Init, Whole
<1>5. LogsBounded
  BY <1>1, <1>2 DEF Init, LogsBounded
<1>6. TypeOK
  <2>1. Zero \in [Roles -> 0..MaxLines] /\ \A r \in Roles : Zero[r] <= Whole(r)
    BY <1>1, <1>4 DEF Zero
  <2>2. /\ log \in [Roles -> Seq(Uids)] /\ torn \in [Roles -> BOOLEAN]
        /\ pushed \in [Roles -> Seq(1..MaxLines)] /\ cache \in [Uids -> [Roles -> Lines]]
    BY <1>2, <1>3 DEF Init
  <2>3. env \in Environments /\ ws \in BOOLEAN /\ tailing \in BOOLEAN /\ scanning \in BOOLEAN
        /\ tailOffset = Zero /\ packetOffset = Zero /\ packets = {}
    BY DEF Init
  <2>4. events \in 0..MaxEvents
    BY <1>1 DEF Init
  <2>5. QED
    BY <2>1, <2>2, <2>3, <2>4 DEF TypeOK
<1>7. QED
  BY <1>5, <1>6 DEF Typed

\* The environment of a behaviour does not change.
LEMMA SameEnvironment == [Next]_vars => env' = env
BY DEF Next, Loop, vars, PushServerLog, PushClientLog, PushLogTail, ApiPacketsScanServer,
       ApiPacketsScanClient, Write, Complete, TruncateElsewhere, Connect, Disconnect, Clear, Reset, Restart

\* The offsets stay within logs that only grow.
LEMMA GrowTyped ==
  ASSUME TypeOK, LogsBounded, Grow, env' = env,
         log' \in [Roles -> Seq(Uids)], torn' \in [Roles -> BOOLEAN], LogsBounded',
         UNCHANGED <<tailVars, packetVars, events>>
  PROVE  Typed'
<1>1. ASSUME NEW r \in Roles, tailOffset[r] <= Whole(r), packetOffset[r] <= Whole(r)
      PROVE  tailOffset[r] <= Whole(r)' /\ packetOffset[r] <= Whole(r)'
  <2>1. Whole(r) <= Whole(r)'
    BY DEF Grow
  <2>2. Whole(r) \in Int /\ tailOffset[r] \in Int /\ packetOffset[r] \in Int
    BY SMTT(60), WholeLines DEF TypeOK
  <2>3. Whole(r)' \in Int
    <3>1. Len(log'[r]) \in Int
      BY LenProperties DEF Grow
    <3>2. QED
      BY <3>1 DEF Whole
  <2>4. QED
    BY <1>1, <2>1, <2>2, <2>3
<1>2. TypeOK'
  BY <1>1 DEF TypeOK, tailVars, packetVars
<1>3. QED
  BY <1>2 DEF Typed

\* The rest of the model reads the logs; what is whole does not change.
LEMMA SameLogs ==
  ASSUME UNCHANGED <<log, torn>>
  PROVE  /\ \A r \in Roles : Whole(r)' = Whole(r)
         /\ LogsBounded => LogsBounded'
BY DEF Whole, LogsBounded

LEMMA TypedNext == Typed /\ [Next]_vars => Typed'
<1>. SUFFICES ASSUME TypeOK, LogsBounded, [Next]_vars PROVE Typed'
  BY DEF Typed
<1>0. env' = env /\ MaxLines \in Nat /\ MaxEvents \in Nat
  BY SameEnvironment, BoundsAssumption
<1>1. ASSUME NEW r \in Roles, Write(r)
      PROVE  Typed'
  BY <1>0, <1>1, WriteGrows, GrowTyped DEF Write
<1>2. ASSUME NEW r \in Roles, Complete(r)
      PROVE  Typed'
  BY <1>0, <1>2, CompleteGrows, GrowTyped DEF Complete, TypeOK
<1>3. ASSUME NEW r \in Roles, TruncateElsewhere(r)
      PROVE  Typed'
  <2>1. <<>> \in Seq(Uids) /\ <<>> \in Seq(1..MaxLines) /\ Len(<<>>) = 0
    BY EmptySeq
  <2>2. log' \in [Roles -> Seq(Uids)] /\ torn' \in [Roles -> BOOLEAN]
        /\ pushed' \in [Roles -> Seq(1..MaxLines)]
    BY <1>3, <2>1 DEF TruncateElsewhere, TypeOK
  <2>3. LogsBounded'
    BY <1>0, <1>3, <2>1 DEF TruncateElsewhere, TypeOK, LogsBounded
  <2>4. events' \in 0..MaxEvents /\ "truncate" \in env
    BY <1>0, <1>3 DEF TruncateElsewhere, TypeOK
  <2>5. TypeOK'
    BY <1>0, <1>3, <2>2, <2>4 DEF TruncateElsewhere, TypeOK
  <2>6. QED
    BY <2>3, <2>5 DEF Typed
<1>4. ASSUME NEW r \in Roles, PushLogTail(r), tailing' \in BOOLEAN
      PROVE  Typed'
  <2>1. pushed' \in [Roles -> Seq(1..MaxLines)] /\ ws' \in BOOLEAN
    BY <1>4, PushProperties
  <2>2. tailOffset' = [tailOffset EXCEPT ![r] = Whole(r)]
    BY <1>4 DEF PushLogTail, NextOffset
  <2>3. UNCHANGED <<env, log, torn, scanning, packetOffset, cache, packets, events>>
    BY <1>4 DEF PushLogTail, packetVars
  <2>4. Whole(r) \in 0..MaxLines
    BY WholeLines
  <2>5. \A q \in Roles : Whole(q)' = Whole(q)
    BY <2>3, SameLogs
  <2>6. tailOffset' \in [Roles -> 0..MaxLines]
        /\ ("truncate" \in env \/ \A q \in Roles : tailOffset'[q] <= Whole(q))
    BY <2>2, <2>4 DEF TypeOK
  <2>7. TypeOK'
    BY <1>4, <2>1, <2>3, <2>5, <2>6 DEF TypeOK
  <2>8. QED
    BY <2>3, <2>7, SameLogs DEF Typed
<1>5. ASSUME NEW r \in Roles, Scan(r), UNCHANGED <<env, log, torn, tailVars, events>>,
             scanning' \in BOOLEAN, packets' \subseteq [uid : Uids, line : Lines \ {None}]
      PROVE  Typed'
  <2>1. /\ packetOffset' \in [Roles -> 0..MaxLines] /\ packetOffset'[r] = Whole(r)
        /\ \A q \in Roles \ {r} : packetOffset'[q] = packetOffset[q]
        /\ cache' \in [Uids -> [Roles -> Lines]]
    BY <1>5, ScanType
  <2>2. \A q \in Roles : Whole(q)' = Whole(q) /\ Whole(q) \in Int
    BY <1>5, SameLogs, WholeLines
  <2>3. "truncate" \in env \/ \A q \in Roles : packetOffset'[q] <= Whole(q)
    <3>1. ASSUME NEW q \in Roles, packetOffset[q] <= Whole(q)
          PROVE  packetOffset'[q] <= Whole(q)
      BY <2>1, <2>2, <3>1
    <3>2. QED
      BY <3>1 DEF TypeOK
  <2>4. TypeOK'
    BY <1>5, <2>1, <2>2, <2>3 DEF TypeOK, tailVars
  <2>5. QED
    BY <1>5, <2>4, SameLogs DEF Typed
<1>4a. CASE PushServerLog \/ PushClientLog
  BY <1>4, <1>4a DEF PushServerLog, PushClientLog, Roles
<1>6. CASE ApiPacketsScanServer
  BY <1>5, <1>6 DEF ApiPacketsScanServer, Roles, TypeOK
<1>7. CASE ApiPacketsScanClient
  <2>1. cache' \in [Uids -> [Roles -> Lines]]
    BY <1>7, ScanType DEF ApiPacketsScanClient, Roles
  <2>2. ASSUME NEW u \in Uids, cache'[u] # NoLines
        PROVE  Picked(u, cache'[u]) \in Lines \ {None}
    <3>1. Sender[u] \in Roles /\ cache'[u] \in [Roles -> Lines]
      BY <2>1, SenderAssumption
    <3>2. PICK r \in Roles : cache'[u][r] # None
      BY <2>2, <3>1 DEF NoLines
    <3>3. (CHOOSE r2 \in Roles : r2 # Sender[u]) \in Roles \ {Sender[u]}
      BY <3>1 DEF Roles
    <3>4. QED
      BY <3>1, <3>2, <3>3 DEF Picked, Preferred, Roles
  <2>3. packets' = Orphans({u \in Uids : cache'[u] # NoLines}) \cup
                   {[uid |-> u, line |-> Picked(u, cache'[u])] : u \in {v \in Uids : cache'[v] # NoLines}}
    BY <1>7 DEF ApiPacketsScanClient
  <2>4. packets' \subseteq [uid : Uids, line : Lines \ {None}]
    BY <2>2, <2>3 DEF Orphans, TypeOK
  <2>5. QED
    BY <1>5, <1>7, <2>4 DEF ApiPacketsScanClient, Roles
<1>8. CASE Connect \/ Disconnect
  <2>1. UNCHANGED <<env, log, torn, tailing, tailOffset, pushed, packetVars, events>>
        /\ ws' \in BOOLEAN
    BY <1>8 DEF Connect, Disconnect
  <2>2. QED
    BY <2>1, SameLogs DEF TypeOK, Typed, packetVars
<1>9. CASE Clear
  <2>1. NoLines \in [Roles -> Lines] /\ \A r \in Roles : Whole(r) >= 0
    BY WholeLines DEF NoLines, Lines
  <2>2. \A r \in Roles : Whole(r)' = Whole(r)
    BY <1>9, SameLogs DEF Clear
  <2>3. TypeOK'
    BY <1>0, <1>9, <2>1, <2>2 DEF Clear, TypeOK, CacheReset, Zero, tailVars
  <2>4. QED
    BY <1>9, <2>3, SameLogs DEF Clear, Typed
<1>10. CASE Reset
  <2>1. NoLines \in [Roles -> Lines]
        /\ <<>> \in Seq(Uids) /\ <<>> \in Seq(1..MaxLines) /\ Len(<<>>) = 0
    BY EmptySeq DEF NoLines, Lines
  <2>2. \A r \in Roles : Whole(r)' = 0
    BY <1>10, <2>1 DEF Reset, Whole
  <2>3. LogsBounded'
    BY <1>0, <1>10, <2>1 DEF Reset, LogsBounded
  <2>4. TypeOK'
    BY <1>0, <1>10, <2>1, <2>2 DEF Reset, TypeOK, CacheReset, Zero, OffsetsAfterReset
  <2>5. QED
    BY <2>3, <2>4 DEF Typed
<1>11. CASE Restart
  <2>1. NoLines \in [Roles -> Lines] /\ \A r \in Roles : Whole(r) >= 0
        /\ <<>> \in Seq(1..MaxLines)
    BY WholeLines, EmptySeq DEF NoLines, Lines
  <2>2. \A r \in Roles : Whole(r)' = Whole(r)
    BY <1>11, SameLogs DEF Restart
  <2>3. Zero \in [Roles -> 0..MaxLines] /\ \A r \in Roles : Zero[r] <= Whole(r)'
    BY <1>0, <2>1, <2>2 DEF Zero
  <2>4. /\ pushed' \in [Roles -> Seq(1..MaxLines)] /\ cache' \in [Uids -> [Roles -> Lines]]
        /\ events' \in 0..MaxEvents
    BY <1>0, <1>11, <2>1 DEF Restart, CacheReset, TypeOK
  <2>5. TypeOK'
    BY <1>0, <1>11, <2>3, <2>4 DEF Restart, TypeOK, CacheReset
  <2>6. QED
    BY <1>11, <2>5, SameLogs DEF Restart, Typed
<1>12. CASE UNCHANGED vars
  BY <1>12, SameLogs DEF vars, TypeOK, Typed
<1>13. QED
  BY <1>1, <1>2, <1>3, <1>4a, <1>6, <1>7, <1>8, <1>9, <1>10, <1>11, <1>12 DEF Next, Loop

\* Whatever the children write and whoever empties a log, the variables have their
\* types, and without another program's hand the offsets stay within the logs.
THEOREM TypeCorrect == Spec => []TypeOK
<1>1. Typed => TypeOK
  BY DEF Typed
<1>2. QED
  BY <1>1, TypedInit, TypedNext, PTL DEF Spec

(***************************************************************************)
(* The tail.                                                               *)
(***************************************************************************)
LEMMA TailInit == Init => TailInv
<1>. SUFFICES ASSUME Init PROVE TailInv
  OBVIOUS
<1>1. \A r \in Roles : pushed[r] = <<>> /\ tailOffset[r] = 0 /\ DOMAIN pushed[r] = {}
  BY DEF Init, Zero
<1>2. QED
  BY <1>1 DEF Init, TailInv, PushedBehindTail, PushedOnceInOrder, PassedLinesPushed, TailingSends

\* Nothing pushed, nothing passed.
LEMMA TailStartsAgain ==
  ASSUME \A r \in Roles : pushed'[r] = <<>> /\ tailOffset'[r] = 0, ~tailing'
  PROVE  TailInv'
<1>1. \A r \in Roles : DOMAIN pushed'[r] = {}
  OBVIOUS
<1>2. QED
  BY <1>1 DEF TailInv, PushedBehindTail, PushedOnceInOrder, PassedLinesPushed, TailingSends

\* Lines that are whole stay behind the tail's offset when the log only grows.
LEMMA TailKept ==
  ASSUME Typed, Typed', TailInv, env' = env, UNCHANGED <<tailOffset, pushed>>, TailingSends',
         \A r \in Roles : Whole(r) <= Whole(r)'
  PROVE  TailInv'
<1>1. ASSUME NEW r \in Roles, tailOffset[r] <= Whole(r)
      PROVE  tailOffset[r] <= Whole(r)'
  <2>1. log[r] \in Seq(Uids) /\ log'[r] \in Seq(Uids) /\ tailOffset[r] \in 0..MaxLines
    <3>1. /\ log \in [Roles -> Seq(Uids)] /\ log' \in [Roles -> Seq(Uids)]
          /\ tailOffset \in [Roles -> 0..MaxLines]
      BY DEF Typed, TypeOK
    <3>2. QED
      BY <3>1
  <2>2. Len(log[r]) \in Int /\ Len(log'[r]) \in Int
    BY <2>1, LenProperties
  <2>3. Whole(r) \in Int /\ Whole(r)' \in Int
    BY <2>2 DEF Whole
  <2>4. Whole(r) <= Whole(r)'
    OBVIOUS
  <2>5. QED
    BY <1>1, <2>1, <2>3, <2>4
<1>2. PushedBehindTail'
  BY <1>1 DEF TailInv, PushedBehindTail
<1>3. QED
  BY <1>2 DEF TailInv, PushedOnceInOrder, PassedLinesPushed

LEMMA PushKeepsTail ==
  ASSUME Typed, TailInv, NEW r \in Roles, PushLogTail(r), "send" \notin env => ws
  PROVE  PushedBehindTail' /\ PushedOnceInOrder' /\ PassedLinesPushed' /\ (ws /\ "send" \notin env => ws')
<1>. DEFINE from == From(r, tailOffset[r])
<1>1. /\ tailOffset' = [tailOffset EXCEPT ![r] = Whole(r)]
      /\ tailOffset \in [Roles -> 0..MaxLines]
      /\ UNCHANGED <<env, log, torn>>
  BY DEF PushLogTail, NextOffset, Typed, TypeOK
<1>2. PICK sent \in from..Whole(r) :
        /\ sent < Whole(r) => "send" \in env \/ ~ws
        /\ ws /\ "send" \notin env => ws'
        /\ pushed'[r] \in Seq(1..MaxLines)
        /\ \A q \in Roles \ {r} : pushed'[q] = pushed[q]
        /\ Len(pushed'[r]) = Len(pushed[r]) + (sent - from)
        /\ \A i \in 1..Len(pushed'[r]) :
             pushed'[r][i] = IF i <= Len(pushed[r]) THEN pushed[r][i]
                             ELSE from + (i - Len(pushed[r]))
  BY PushProperties DEF Typed
<1>3. /\ from \in 0..Whole(r) /\ Whole(r) \in 0..MaxLines /\ MaxLines \in Nat
      /\ tailOffset[r] \in 0..MaxLines
      /\ tailOffset[r] <= Whole(r) => from = tailOffset[r]
  BY <1>1, FromPlace, WholeLines, BoundsAssumption DEF Typed
<1>4. /\ Len(pushed[r]) \in Nat /\ DOMAIN pushed[r] = 1..Len(pushed[r])
      /\ \A i \in 1..Len(pushed[r]) : pushed[r][i] \in 1..MaxLines
      /\ DOMAIN pushed'[r] = 1..Len(pushed'[r])
      /\ Len(pushed[r]) > 0 => pushed[r] # <<>>
  <2>1. pushed[r] \in Seq(1..MaxLines)
    BY DEF Typed, TypeOK
  <2>2. Len(pushed[r]) \in Nat /\ DOMAIN pushed[r] = 1..Len(pushed[r])
    BY <2>1, LenProperties
  <2>3. \A i \in 1..Len(pushed[r]) : pushed[r][i] \in 1..MaxLines
    BY <2>1, ElementOfSeq
  <2>4. DOMAIN pushed'[r] = 1..Len(pushed'[r])
    BY <1>2, LenProperties
  <2>5. Len(pushed[r]) > 0 => pushed[r] # <<>>
    BY EmptySeq
  <2>6. QED
    BY <2>2, <2>3, <2>4, <2>5
<1>5. /\ tailOffset'[r] = Whole(r)
      /\ \A q \in Roles \ {r} : tailOffset'[q] = tailOffset[q]
      /\ \A q \in Roles : Whole(q)' = Whole(q)
  BY <1>1, <1>3, SameLogs
<1>. HIDE DEF from
<1>5a. /\ from \in Nat /\ sent \in Nat /\ Len(pushed'[r]) \in Nat
       /\ Len(pushed[r]) <= Len(pushed'[r])
  BY <1>2, <1>3, <1>4
<1>5b. Len(pushed[r]) \in Nat /\ Whole(r) \in Nat /\ sent <= Whole(r)
  BY <1>3, <1>4
\* What was pushed before lies before from, since the log has not shrunk.
<1>6. \A i \in 1..Len(pushed[r]) : pushed[r][i] <= from
  BY <1>3, <1>4 DEF TailInv, PushedBehindTail
<1>7. \A i, j \in 1..Len(pushed[r]) : i < j => pushed[r][i] < pushed[r][j]
  BY <1>4 DEF TailInv, PushedOnceInOrder
<1>8. ASSUME NEW i \in 1..Len(pushed'[r]), i > Len(pushed[r])
      PROVE  pushed'[r][i] = from + (i - Len(pushed[r])) /\ pushed'[r][i] <= Whole(r)
             /\ pushed'[r][i] > from /\ pushed'[r][i] \in Nat
  <2>1. pushed'[r][i] = from + (i - Len(pushed[r]))
    BY <1>2, <1>4, <1>8
  <2>2. i - Len(pushed[r]) \in 1..(sent - from)
    BY <1>2, <1>3, <1>4, <1>8
  <2>3. /\ from + (i - Len(pushed[r])) <= Whole(r) /\ from + (i - Len(pushed[r])) > from
        /\ from + (i - Len(pushed[r])) \in Nat
    <3>1. i \in Int
      BY <1>5a
    <3>2. /\ from + (i - Len(pushed[r])) \in Nat /\ from + (i - Len(pushed[r])) > from
          /\ from + (i - Len(pushed[r])) <= Whole(r)
      BY <1>5a, <1>5b, <2>2, <3>1, PlacesShift
    <3>3. QED
      BY <3>2
  <2>4. QED
    BY <2>1, <2>3
<1>9. \A i \in 1..Len(pushed[r]) : i \in 1..Len(pushed'[r]) /\ pushed'[r][i] = pushed[r][i]
  <2>1. \A i \in 1..Len(pushed[r]) : i \in 1..Len(pushed'[r])
    BY <1>4, <1>5a
  <2>2. QED
    BY <1>2, <2>1
<1>10. ASSUME NEW i \in 1..Len(pushed'[r])
       PROVE  pushed'[r][i] <= Whole(r)
  <2>1. CASE i > Len(pushed[r])
    BY <1>8, <2>1
  <2>2. CASE ~(i > Len(pushed[r]))
    <3>1. i \in 1..Len(pushed[r])
      BY <1>4, <2>2
    <3>2. pushed'[r][i] <= from /\ pushed'[r][i] \in Int
      BY <1>4, <1>6, <1>9, <3>1
    <3>3. QED
      BY <1>3, <3>2
  <2>3. QED
    BY <2>1, <2>2
<1>11. PushedBehindTail'
  <2>1. ASSUME NEW q \in Roles
        PROVE  /\ \A i \in DOMAIN pushed'[q] : pushed'[q][i] <= tailOffset'[q]
               /\ pushed'[q] # <<>> => tailOffset'[q] <= Whole(q)'
    <3>1. CASE q = r
      BY <1>3, <1>4, <1>5, <1>10, <3>1
    <3>2. CASE q # r
      BY <1>2, <1>5, <3>2 DEF TailInv, PushedBehindTail
    <3>3. QED
      BY <3>1, <3>2
  <2>2. QED
    BY <2>1 DEF PushedBehindTail
<1>12. ASSUME NEW i \in 1..Len(pushed'[r]), NEW j \in 1..Len(pushed'[r]), i < j
       PROVE  pushed'[r][i] < pushed'[r][j]
  <2>1. CASE j <= Len(pushed[r])
    <3>1. i \in 1..Len(pushed[r]) /\ j \in 1..Len(pushed[r])
      BY <1>4, <1>12, <2>1
    <3>2. QED
      BY <1>7, <1>9, <1>12, <3>1
  <2>2. CASE i > Len(pushed[r])
    <3>1. j > Len(pushed[r])
      BY <1>4, <1>12, <2>2
    <3>2. QED
      <4>1. /\ pushed'[r][i] = from + (i - Len(pushed[r]))
            /\ pushed'[r][j] = from + (j - Len(pushed[r]))
        BY <1>8, <2>2, <3>1
      <4>2. from + (i - Len(pushed[r])) < from + (j - Len(pushed[r]))
        <5>1. i \in Int /\ j \in Int
          BY <1>5a
        <5>2. QED
          BY <1>5a, <1>5b, <1>12, <5>1, PlacesShift
      <4>3. QED
        BY <4>1, <4>2
  <2>3. CASE j > Len(pushed[r]) /\ ~(i > Len(pushed[r]))
    <3>1. i \in 1..Len(pushed[r])
      BY <1>4, <2>3
    <3>2. pushed'[r][i] <= from /\ pushed'[r][i] \in Int
      BY <1>4, <1>6, <1>9, <3>1
    <3>3. pushed'[r][j] > from /\ pushed'[r][j] \in Int
      BY <1>8, <2>3
    <3>4. QED
      BY <1>3, <3>2, <3>3
  <2>4. QED
    BY <1>4, <2>1, <2>2, <2>3
<1>13. PushedOnceInOrder'
  <2>1. ASSUME NEW q \in Roles, NEW i \in DOMAIN pushed'[q], NEW j \in DOMAIN pushed'[q], i < j
        PROVE  pushed'[q][i] < pushed'[q][j]
    <3>1. CASE q = r
      BY <1>4, <1>12, <2>1, <3>1
    <3>2. CASE q # r
      BY <1>2, <2>1, <3>2 DEF TailInv, PushedOnceInOrder
    <3>3. QED
      BY <3>1, <3>2
  <2>2. QED
    BY <2>1 DEF PushedOnceInOrder
<1>14. PassedLinesPushed'
  <2>. SUFFICES ASSUME env \cap {"truncate", "send"} = {}, NEW q \in Roles,
                       NEW i \in 1..tailOffset'[q]
                PROVE  Contains(pushed'[q], i)
    BY <1>1 DEF PassedLinesPushed
  <2>1. CASE q # r
    BY <1>2, <1>5, <2>1 DEF TailInv, PassedLinesPushed
  <2>2. CASE q = r
    <3>1. sent = Whole(r) /\ from = tailOffset[r] /\ i \in 1..Whole(r)
      BY <1>2, <1>3, <1>5, <2>2 DEF Typed, TypeOK
    <3>2. CASE i <= from
      <4>1. Contains(pushed[r], i)
        BY <1>3, <3>1, <3>2 DEF TailInv, PassedLinesPushed
      <4>2. PICK k \in 1..Len(pushed[r]) : pushed[r][k] = i
        BY <4>1 DEF Contains
      <4>3. QED
        BY <1>9, <2>2, <4>2 DEF Contains
    <3>3. CASE ~(i <= from)
      <4>1. Len(pushed[r]) + (i - from) \in 1..Len(pushed'[r])
            /\ Len(pushed[r]) + (i - from) > Len(pushed[r])
        BY SMTT(60), <1>2, <1>3, <1>4, <3>1, <3>3
      <4>2. pushed'[r][Len(pushed[r]) + (i - from)] = i
        BY SMTT(60), <1>3, <1>4, <1>8, <3>1, <4>1
      <4>3. QED
        BY <2>2, <4>1, <4>2 DEF Contains
    <3>4. QED
      BY <3>2, <3>3
  <2>3. QED
    BY <2>1, <2>2
<1>15. QED
  BY <1>2, <1>11, <1>13, <1>14

LEMMA TailNext == Typed /\ TailInv /\ [Next]_vars => TailInv'
<1>. SUFFICES ASSUME Typed, TailInv, [Next]_vars PROVE TailInv'
  OBVIOUS
<1>0. env' = env /\ Typed' /\ TypeOK /\ LogsBounded
  BY SameEnvironment, TypedNext DEF Typed
<1>1. ASSUME NEW r \in Roles, Write(r) \/ Complete(r)
      PROVE  TailInv'
  <2>1. Grow
    BY <1>0, <1>1, WriteGrows, CompleteGrows
  <2>2. TailingSends'
    BY <1>0, <1>1 DEF Write, Complete, tailVars, TailInv, TailingSends
  <2>3. QED
    BY <1>0, <1>1, <2>1, <2>2, TailKept DEF Grow, Write, Complete, tailVars
<1>2. ASSUME NEW r \in Roles, TruncateElsewhere(r)
      PROVE  TailInv'
  <2>1. /\ "truncate" \in env /\ UNCHANGED tailOffset
        /\ pushed'[r] = <<>> /\ DOMAIN pushed'[r] = {}
        /\ \A q \in Roles \ {r} : pushed'[q] = pushed[q] /\ log'[q] = log[q] /\ torn'[q] = torn[q]
    BY <1>0, <1>2 DEF TruncateElsewhere, TypeOK
  <2>2. \A q \in Roles \ {r} : Whole(q)' = Whole(q)
    BY <2>1 DEF Whole
  <2>3. PushedBehindTail' /\ PushedOnceInOrder'
    BY <2>1, <2>2 DEF TailInv, PushedBehindTail, PushedOnceInOrder
  <2>4. TailingSends'
    BY <1>0, <1>2 DEF TruncateElsewhere, TailInv, TailingSends
  <2>5. QED
    BY <1>0, <2>1, <2>3, <2>4 DEF TailInv, PassedLinesPushed
<1>3. CASE PushServerLog
  <2>1. PushedBehindTail' /\ PushedOnceInOrder' /\ PassedLinesPushed' /\ (ws /\ "send" \notin env => ws')
    BY <1>3, PushKeepsTail DEF PushServerLog, Roles
  <2>2. QED
    BY <1>0, <1>3, <2>1 DEF PushServerLog, TailInv, TailingSends
<1>3a. CASE PushClientLog
  <2>1. "send" \notin env => ws
    BY <1>3a DEF PushClientLog, TailInv, TailingSends
  <2>2. PushedBehindTail' /\ PushedOnceInOrder' /\ PassedLinesPushed'
    BY <1>3a, <2>1, PushKeepsTail DEF PushClientLog, Roles
  <2>3. QED
    BY <1>3a, <2>2 DEF PushClientLog, TailInv, TailingSends
<1>4. ASSUME UNCHANGED <<log, torn, tailOffset, pushed>>, TailingSends'
      PROVE  TailInv'
  <2>1. \A r \in Roles : Whole(r)' = Whole(r) /\ Whole(r) \in Int
    BY <1>0, <1>4, SameLogs, WholeLines
  <2>2. QED
    BY <1>0, <1>4, <2>1, TailKept
<1>5. CASE ApiPacketsScanServer \/ ApiPacketsScanClient \/ Connect \/ Disconnect \/ Clear
           \/ UNCHANGED vars
  <2>1. UNCHANGED <<log, torn, tailOffset, pushed>>
    BY <1>5 DEF ApiPacketsScanServer, ApiPacketsScanClient, Connect, Disconnect, Clear,
                vars, tailVars
  <2>2. TailingSends'
    BY <1>0, <1>5 DEF ApiPacketsScanServer, ApiPacketsScanClient, Connect, Disconnect, Clear,
                      vars, tailVars, Idle, TailInv, TailingSends
  <2>3. QED
    BY <1>4, <2>1, <2>2
<1>6. CASE Reset \/ Restart
  BY <1>6, TailStartsAgain DEF Reset, Restart, OffsetsAfterReset, Zero, Idle
<1>7. QED
  BY <1>1, <1>2, <1>3, <1>3a, <1>5, <1>6 DEF Next, Loop

(***************************************************************************)
(* The records.                                                            *)
(***************************************************************************)

\* What a record and a line of the cache consist of.
LEMMA RecordParts ==
  ASSUME TypeOK, NEW x \in packets
  PROVE  /\ x.uid \in Uids /\ x.line[1] \in Roles /\ x.line[2] \in 1..MaxLines
<1>1. x \in [uid : Uids, line : Lines \ {None}]
  BY DEF TypeOK
<1>2. x.line \in Roles \X (1..MaxLines) \X BOOLEAN
  BY <1>1 DEF Lines
<1>3. QED
  BY <1>1, <1>2

LEMMA CacheParts ==
  ASSUME TypeOK, NEW r \in Roles, NEW u \in Uids, cache[u][r] # None
  PROVE  cache[u][r][2] \in 1..MaxLines
<1>1. cache[u][r] \in Roles \X (1..MaxLines) \X BOOLEAN
  BY DEF TypeOK, Lines
<1>2. QED
  BY <1>1

\* A scan changes only the lines of its own side, of packets with new lines, and never
\* forgets a packet.
LEMMA ScanCache ==
  ASSUME Typed, NEW r \in Roles, Scan(r), NEW u \in Uids
  PROVE  /\ NewLines(r, u) = {} => cache'[u] = cache[u]
         /\ NewLines(r, u) # {} =>
              /\ cache'[u][r] # None /\ cache'[u][r][1] = r
              /\ cache'[u][r][2] = LastLine(r, u)
              /\ cache'[u][r][3] = (LastLine(r, u) > Whole(r))
         /\ \A q \in Roles \ {r} : cache'[u][q] = cache[u][q]
         /\ \A q \in Roles : cache[u][q] # None => cache'[u][q] # None
         /\ cache[u] # NoLines => cache'[u] # NoLines
<1>1. cache[u] \in [Roles -> Lines]
  BY DEF Typed, TypeOK
<1>2. cache'[u] = IF NewLines(r, u) = {} THEN cache[u]
                  ELSE [cache[u] EXCEPT ![r] = Entry(r, LastLine(r, u), LastLine(r, u) > Whole(r))]
  BY DEF Scan
<1>3. \A q \in Roles \ {r} : cache'[u][q] = cache[u][q]
  BY <1>1, <1>2
<1>4. ASSUME NewLines(r, u) # {}
      PROVE  /\ cache'[u][r] # None /\ cache'[u][r][1] = r
             /\ cache'[u][r][2] = LastLine(r, u)
             /\ cache'[u][r][3] = (LastLine(r, u) > Whole(r))
  <2>1. LastLine(r, u) \in 1..MaxLines
    BY <1>4, LastLineProperties, WholeLines, BoundsAssumption DEF Typed
  <2>2. cache'[u][r] = Entry(r, LastLine(r, u), LastLine(r, u) > Whole(r))
    BY <1>1, <1>2, <1>4
  <2>. DEFINE part == LastLine(r, u) > Whole(r)
  <2>3. part \in BOOLEAN
    OBVIOUS
  <2>4. cache'[u][r] = Entry(r, LastLine(r, u), part)
    BY <2>2
  <2>. HIDE DEF part
  <2>5. /\ cache'[u][r] # None /\ cache'[u][r][1] = r
        /\ cache'[u][r][2] = LastLine(r, u) /\ cache'[u][r][3] = part
    BY <2>1, <2>3, <2>4, EntryIsLine
  <2>6. QED
    BY <2>5 DEF part
<1>5. \A q \in Roles : cache[u][q] # None => cache'[u][q] # None
  BY <1>2, <1>3, <1>4
<1>6. ASSUME cache[u] # NoLines
      PROVE  cache'[u] # NoLines
  <2>1. PICK q \in Roles : cache[u][q] # None
    BY <1>1, <1>6 DEF NoLines
  <2>2. cache'[u][q] # None
    BY <1>5, <2>1
  <2>3. QED
    BY <2>2 DEF NoLines
<1>7. QED
  BY <1>2, <1>3, <1>4, <1>5, <1>6

\* What a scan passes it has cached, and a torn line it leaves to the next.
LEMMA ScanKeepsCache ==
  ASSUME Typed, CacheCovers, CacheTruthful, NEW r \in Roles, Scan(r), UNCHANGED <<env, log, torn>>
  PROVE  CacheCovers' /\ CacheTruthful'
<1>1. /\ packetOffset'[r] = Whole(r)
      /\ \A q \in Roles \ {r} : packetOffset'[q] = packetOffset[q]
  BY ScanType DEF Typed
<1>2. /\ packetOffset[r] \in 0..MaxLines /\ Whole(r) \in 0..MaxLines /\ MaxLines \in Nat
      /\ Whole(r) <= Len(log[r]) /\ Len(log[r]) \in Nat
  BY WholeLines, BoundsAssumption DEF Typed, TypeOK
<1>3. "truncate" \notin env => From(r, packetOffset[r]) = packetOffset[r]
  BY <1>2, FromPlace DEF Typed, TypeOK
<1>4. CacheCovers'
  <2>. SUFFICES ASSUME "truncate" \notin env, NEW q \in Roles, NEW u \in Uids,
                       NEW i \in 1..packetOffset'[q], log[q][i] = u
                PROVE  cache'[u][q] # None
    BY DEF CacheCovers, Scanned
  <2>1. CASE q = r
    <3>1. i \in 1..Whole(r)
      BY <1>1, <2>1
    <3>2. CASE i <= packetOffset[r]
      <4>1. i \in Scanned(r, u)
        BY <1>2, <2>1, <3>1, <3>2 DEF Scanned
      <4>2. QED
        BY <2>1, <4>1, ScanCache DEF CacheCovers
    <3>3. CASE ~(i <= packetOffset[r])
      <4>1. i \in (packetOffset[r] + 1)..Len(log[r])
        BY <1>2, <3>1, <3>3
      <4>2. i \in NewLines(r, u)
        BY <1>3, <2>1, <4>1 DEF NewLines
      <4>3. QED
        BY <2>1, <4>2, ScanCache
    <3>4. QED
      BY <3>2, <3>3
  <2>2. CASE q # r
    <3>1. i \in Scanned(q, u)
      BY <1>1, <2>2 DEF Scanned
    <3>2. QED
      BY <3>1, ScanCache DEF CacheCovers
  <2>3. QED
    BY <2>1, <2>2
<1>5. ASSUME NEW q \in Roles, NEW u \in Uids, cache'[u][q] # None
      PROVE  /\ cache'[u][q][1] = q
             /\ ("truncate" \notin env /\ cache'[u][q][3]) =>
                  /\ packetOffset'[q] < cache'[u][q][2] /\ cache'[u][q][2] <= Len(log[q])
                  /\ log[q][cache'[u][q][2]] = u
  <2>1. CASE q # r
    <3>1. cache'[u][q] = cache[u][q] /\ packetOffset'[q] = packetOffset[q]
      BY <1>1, <2>1, ScanCache
    <3>2. QED
      BY <1>5, <3>1 DEF CacheTruthful
  <2>2. CASE q = r /\ NewLines(r, u) # {}
    <3>1. /\ cache'[u][r][1] = r /\ cache'[u][r][2] = LastLine(r, u)
          /\ cache'[u][r][3] = (LastLine(r, u) > Whole(r))
      BY <2>2, ScanCache
    <3>2. LastLine(r, u) \in 1..Len(log[r]) /\ log[r][LastLine(r, u)] = u
      BY <2>2, LastLineProperties DEF Typed
    <3>3. ASSUME cache'[u][r][3]
          PROVE  packetOffset'[r] < LastLine(r, u)
      <4>1. LastLine(r, u) > Whole(r)
        BY <3>1, <3>3, Zenon
      <4>2. QED
        BY <1>1, <1>2, <3>2, <4>1
    <3>4. LastLine(r, u) <= Len(log[r])
      BY <1>2, <3>2
    <3>5. QED
      BY <2>2, <3>1, <3>2, <3>3, <3>4, Zenon
  <2>3. CASE q = r /\ NewLines(r, u) = {}
    <3>1. cache'[u][r] = cache[u][r]
      BY <2>3, ScanCache
    <3>2. cache[u][r][1] = r
      BY <1>5, <2>3, <3>1 DEF CacheTruthful
    <3>3. ASSUME "truncate" \notin env, cache[u][r][3]
          PROVE  FALSE
      <4>1. /\ packetOffset[r] < cache[u][r][2] /\ cache[u][r][2] <= Len(log[r])
            /\ log[r][cache[u][r][2]] = u
        BY <1>5, <2>3, <3>1, <3>3 DEF CacheTruthful
      <4>2. cache[u][r][2] \in 1..MaxLines
        BY <1>5, <2>3, <3>1, CacheParts DEF Typed
      <4>3. cache[u][r][2] \in (packetOffset[r] + 1)..Len(log[r])
        BY <1>2, <4>1, <4>2
      <4>4. cache[u][r][2] \in NewLines(r, u)
        BY <1>3, <3>3, <4>1, <4>3 DEF NewLines
      <4>5. QED
        BY <2>3, <4>4
    <3>4. QED
      BY <2>3, <3>1, <3>2, <3>3
  <2>4. QED
    BY <2>1, <2>2, <2>3
<1>6. CacheTruthful'
  BY <1>5 DEF CacheTruthful
<1>7. QED
  BY <1>4, <1>6

LEMMA RecordInit == Init => RecordInv
<1>. SUFFICES ASSUME Init PROVE RecordInv
  OBVIOUS
<1>1. packets = {} /\ cache = [u \in Uids |-> NoLines] /\ packetOffset = Zero
  BY DEF Init
<1>2. \A r \in Roles, u \in Uids : cache[u][r] = None /\ Scanned(r, u) = {}
  BY <1>1 DEF NoLines, Scanned, Zero
<1>3. QED
  BY <1>1, <1>2 DEF RecordInv, OneRecordPerPacket, CacheCovers, CacheTruthful,
                    RecordsFollowCache, TornRecords

\* When the cache is reset nothing has been scanned; each record is as it was, or gone.
LEMMA CacheResetKeeps ==
  ASSUME Typed, RecordInv, CacheReset, env' = env,
         packets' = {} \/ UNCHANGED <<log, packets>>
  PROVE  RecordInv'
<1>1. cache' = [u \in Uids |-> NoLines] /\ packetOffset' = Zero
  BY DEF CacheReset
<1>2. \A r \in Roles, u \in Uids : cache'[u][r] = None /\ Scanned(r, u)' = {}
  BY <1>1 DEF NoLines, Scanned, Zero
<1>3. \A u \in Uids : cache'[u] = NoLines
  BY <1>1
<1>4. OneRecordPerPacket' /\ CacheCovers' /\ CacheTruthful' /\ RecordsFollowCache'
  BY <1>2, <1>3 DEF RecordInv, OneRecordPerPacket, CacheCovers, CacheTruthful, RecordsFollowCache
<1>5. CASE packets' = {}
  BY <1>4, <1>5 DEF RecordInv, TornRecords
<1>6. CASE UNCHANGED <<log, packets>>
  <2>1. ASSUME NEW x \in packets
        PROVE  packetOffset'[x.line[1]] < x.line[2]
    BY <1>1, RecordParts DEF Typed, Zero
  <2>2. TornRecords'
    BY <1>6, <2>1 DEF RecordInv, TornRecords
  <2>3. QED
    BY <1>4, <2>2 DEF RecordInv
<1>7. QED
  BY <1>5, <1>6

\* When the children write, or a log is emptied in an environment where the records
\* promise nothing about it, the records stay what they are.
LEMMA RecordsKept ==
  ASSUME Typed, RecordInv, env' = env, UNCHANGED packetVars, Grow \/ "truncate" \in env
  PROVE  RecordInv'
<1>1. UNCHANGED <<scanning, packetOffset, cache, packets>>
  BY DEF packetVars
<1>2. OneRecordPerPacket' /\ RecordsFollowCache'
  BY <1>1 DEF RecordInv, OneRecordPerPacket, RecordsFollowCache
<1>3. CASE "truncate" \in env
  BY <1>1, <1>2, <1>3 DEF RecordInv, CacheCovers, CacheTruthful, TornRecords
<1>4. CASE "truncate" \notin env /\ Grow
  <2>1. ASSUME NEW r \in Roles
        PROVE  /\ packetOffset[r] \in 0..MaxLines /\ packetOffset[r] <= Len(log[r])
               /\ Len(log[r]) \in Nat /\ Len(log'[r]) \in Nat /\ Len(log[r]) <= Len(log'[r])
               /\ \A i \in 1..Len(log[r]) : log'[r][i] = log[r][i]
    <3>1. packetOffset[r] \in 0..MaxLines /\ packetOffset[r] <= Whole(r)
      BY <1>4 DEF Typed, TypeOK
    <3>2. log'[r] \in Seq(Uids) /\ Len(log[r]) <= Len(log'[r])
          /\ \A i \in 1..Len(log[r]) : log'[r][i] = log[r][i]
      BY <1>4 DEF Grow
    <3>3. Len(log'[r]) \in Nat
      BY <3>2, LenProperties
    <3>4. Whole(r) \in Int /\ Whole(r) <= Len(log[r]) /\ Len(log[r]) \in Nat
      BY WholeLines, BoundsAssumption DEF Typed
    <3>5. packetOffset[r] <= Len(log[r])
      BY <3>1, <3>4
    <3>6. QED
      BY <3>1, <3>2, <3>3, <3>4, <3>5
  <2>2. ASSUME NEW r \in Roles, NEW u \in Uids
        PROVE  Scanned(r, u)' = Scanned(r, u)
    <3>1. \A i \in 1..packetOffset[r] : log'[r][i] = log[r][i]
      BY <2>1
    <3>2. QED
      BY <1>1, <3>1 DEF Scanned
  <2>3. CacheCovers'
    BY <1>1, <1>4, <2>2 DEF RecordInv, CacheCovers
  \* A torn line that was in the log still is.
  <2>4. ASSUME NEW r \in Roles, NEW i \in 1..MaxLines, i <= Len(log[r])
        PROVE  i <= Len(log'[r]) /\ log'[r][i] = log[r][i]
    <3>1. i \in 1..Len(log[r])
      BY <2>1, <2>4, BoundsAssumption
    <3>2. QED
      BY <2>1, <3>1
  <2>5. CacheTruthful'
    <3>1. ASSUME NEW r \in Roles, NEW u \in Uids, cache[u][r] # None, cache[u][r][3]
          PROVE  /\ packetOffset[r] < cache[u][r][2] /\ cache[u][r][2] <= Len(log'[r])
                 /\ log'[r][cache[u][r][2]] = u
      <4>1. cache[u][r][2] \in 1..MaxLines
        BY <3>1, CacheParts DEF Typed
      <4>2. /\ packetOffset[r] < cache[u][r][2] /\ cache[u][r][2] <= Len(log[r])
            /\ log[r][cache[u][r][2]] = u
        BY <1>4, <3>1 DEF RecordInv, CacheTruthful
      <4>3. QED
        BY <2>4, <4>1, <4>2
    <3>2. \A r \in Roles, u \in Uids : cache[u][r] # None => cache[u][r][1] = r
      BY DEF RecordInv, CacheTruthful
    <3>3. QED
      BY <1>1, <3>1, <3>2 DEF CacheTruthful
  <2>6. TornRecords'
    <3>1. ASSUME NEW x \in packets, x.line[3]
          PROVE  /\ x.line[2] <= Len(log'[x.line[1]])
                 /\ log'[x.line[1]][x.line[2]] = x.uid
                 /\ packetOffset[x.line[1]] < x.line[2]
                    \/ (scanning /\ x.line[1] = "server" /\ cache[x.uid] # NoLines)
      <4>1. x.line[1] \in Roles /\ x.line[2] \in 1..MaxLines
        BY RecordParts DEF Typed
      <4>2. /\ x.line[2] <= Len(log[x.line[1]])
            /\ log[x.line[1]][x.line[2]] = x.uid
            /\ packetOffset[x.line[1]] < x.line[2]
               \/ (scanning /\ x.line[1] = "server" /\ cache[x.uid] # NoLines)
        BY <1>4, <3>1 DEF RecordInv, TornRecords
      <4>3. QED
        BY <2>4, <4>1, <4>2
    <3>2. QED
      BY <1>1, <3>1 DEF TornRecords
  <2>7. QED
    BY <1>2, <2>3, <2>5, <2>6 DEF RecordInv
<1>5. QED
  BY <1>3, <1>4

\* The first scan of a request leaves the records as they are.
LEMMA ServerScanKeeps ==
  ASSUME Typed, RecordInv, ApiPacketsScanServer
  PROVE  RecordInv'
<1>1. /\ Scan("server") /\ "server" \in Roles /\ ~scanning /\ scanning'
      /\ UNCHANGED <<env, log, torn, packets>>
  BY DEF ApiPacketsScanServer, Roles, Idle
<1>2. CacheCovers' /\ CacheTruthful'
  BY <1>1, ScanKeepsCache DEF RecordInv
<1>3. OneRecordPerPacket' /\ RecordsFollowCache'
  BY <1>1 DEF RecordInv, OneRecordPerPacket, RecordsFollowCache
<1>4. \A q \in Roles \ {"server"} : packetOffset'[q] = packetOffset[q]
  BY <1>1, ScanType DEF Typed
<1>5. ASSUME "truncate" \notin env, NEW x \in packets, x.line[3]
      PROVE  /\ x.line[2] <= Len(log[x.line[1]]) /\ log[x.line[1]][x.line[2]] = x.uid
             /\ packetOffset'[x.line[1]] < x.line[2]
                \/ (x.line[1] = "server" /\ cache'[x.uid] # NoLines)
  <2>1. x.uid \in Uids /\ x.line[1] \in Roles /\ x.line[2] \in 1..MaxLines
    BY RecordParts DEF Typed
  <2>2. /\ x.line[2] <= Len(log[x.line[1]]) /\ log[x.line[1]][x.line[2]] = x.uid
        /\ packetOffset[x.line[1]] < x.line[2]
    BY <1>1, <1>5 DEF RecordInv, TornRecords
  <2>3. CASE x.line[1] # "server"
    BY <1>4, <2>1, <2>2, <2>3
  <2>4. CASE x.line[1] = "server"
    <3>1. packetOffset["server"] \in 0..MaxLines /\ Len(log["server"]) \in Nat
          /\ From("server", packetOffset["server"]) = packetOffset["server"]
      BY <1>1, <1>5, FromPlace, WholeLines DEF Typed, TypeOK
    <3>2. x.line[2] \in NewLines("server", x.uid)
      BY <2>1, <2>2, <2>4, <3>1, BoundsAssumption DEF NewLines
    <3>3. cache'[x.uid]["server"] # None
      BY <1>1, <2>1, <3>2, ScanCache
    <3>4. QED
      BY <1>1, <2>2, <2>4, <3>3 DEF NoLines
  <2>5. QED
    BY <2>3, <2>4
<1>6. TornRecords'
  BY <1>1, <1>5 DEF TornRecords
<1>7. QED
  BY <1>2, <1>3, <1>6 DEF RecordInv

\* The line picked for a packet is one of those the cache has of it.
LEMMA PickedLine ==
  ASSUME NEW u \in Uids, NEW lines \in [Roles -> Lines], lines # NoLines
  PROVE  \E r \in Roles : lines[r] # None /\ Picked(u, lines) = lines[r]
                         /\ (lines[Sender[u]] # None => r = Sender[u])
<1>1. Sender[u] \in Roles
  BY SenderAssumption
<1>2. PICK r \in Roles : lines[r] # None
  BY DEF NoLines
<1>3. (CHOOSE q \in Roles : q # Sender[u]) \in Roles \ {Sender[u]}
  BY <1>1 DEF Roles
<1>4. CASE lines[Sender[u]] # None
  BY <1>1, <1>4 DEF Picked, Preferred
<1>5. CASE lines[Sender[u]] = None
  <2>1. r = CHOOSE q \in Roles : q # Sender[u]
    BY <1>1, <1>2, <1>3, <1>5 DEF Roles
  <2>2. QED
    BY <1>2, <1>5, <2>1 DEF Picked, Preferred
<1>6. QED
  BY <1>4, <1>5

\* The second scan writes the record of each packet in the cache and keeps the others.
LEMMA ClientScanKeeps ==
  ASSUME Typed, Typed', RecordInv, ApiPacketsScanClient
  PROVE  RecordInv'
<1>. DEFINE known == {u \in Uids : cache'[u] # NoLines}
            record(u) == [uid |-> u, line |-> Picked(u, cache'[u])]
<1>1. /\ Scan("client") /\ "client" \in Roles /\ scanning /\ ~scanning'
      /\ UNCHANGED <<env, log, torn>>
      /\ packets' = Orphans(known) \cup {record(u) : u \in known}
  BY DEF ApiPacketsScanClient, Roles
<1>2. CacheCovers' /\ CacheTruthful'
  BY <1>1, ScanKeepsCache DEF RecordInv
<1>3. Orphans(known) = {x \in packets : x.uid \notin known}
  BY DEF Orphans
<1>4. RecordsFollowCache'
  BY <1>1 DEF RecordsFollowCache
<1>. HIDE DEF known
<1>5. \A u \in known : u \in Uids /\ cache'[u] # NoLines /\ cache'[u] \in [Roles -> Lines]
  BY DEF known, Typed, TypeOK
<1>6. OneRecordPerPacket'
  <2>1. ASSUME NEW x \in packets', NEW y \in packets', x.uid = y.uid
        PROVE  x = y
    <3>1. CASE x \in Orphans(known) /\ y \in Orphans(known)
      BY <1>3, <2>1, <3>1 DEF RecordInv, OneRecordPerPacket
    <3>2. ASSUME NEW u \in known
          PROVE  record(u).uid = u
      OBVIOUS
    <3>3. CASE x \in {record(u) : u \in known}
      BY <1>1, <1>3, <2>1, <3>2, <3>3
    <3>4. CASE y \in {record(u) : u \in known}
      BY <1>1, <1>3, <2>1, <3>2, <3>4
    <3>5. QED
      BY <1>1, <3>1, <3>3, <3>4
  <2>2. QED
    BY <2>1 DEF OneRecordPerPacket
<1>7. ASSUME "truncate" \notin env, NEW u \in known, record(u).line[3]
      PROVE  LET line == record(u).line IN
             /\ line[2] <= Len(log[line[1]]) /\ log[line[1]][line[2]] = u
             /\ packetOffset'[line[1]] < line[2]
  <2>1. PICK r \in Roles : cache'[u][r] # None /\ Picked(u, cache'[u]) = cache'[u][r]
    BY <1>5, PickedLine
  <2>2. record(u).line = cache'[u][r]
    BY <2>1
  <2>3. /\ cache'[u][r][1] = r
        /\ packetOffset'[r] < cache'[u][r][2] /\ cache'[u][r][2] <= Len(log[r])
        /\ log[r][cache'[u][r][2]] = u
    BY <1>1, <1>2, <1>5, <1>7, <2>1, <2>2 DEF CacheTruthful
  <2>4. QED
    BY <2>2, <2>3
\* A torn record that the scans have not replaced is behind both offsets.
<1>8. ASSUME "truncate" \notin env, NEW x \in packets, x.uid \notin known, x.line[3]
      PROVE  /\ x.line[2] <= Len(log[x.line[1]]) /\ log[x.line[1]][x.line[2]] = x.uid
             /\ packetOffset'[x.line[1]] < x.line[2]
  <2>1. x.uid \in Uids /\ x.line[1] \in Roles /\ x.line[2] \in 1..MaxLines
    BY RecordParts DEF Typed
  <2>2. cache'[x.uid] = NoLines
    BY <1>8, <2>1 DEF known
  <2>3. cache[x.uid] = NoLines
    BY <1>1, <2>1, <2>2, ScanCache
  <2>4. /\ x.line[2] <= Len(log[x.line[1]]) /\ log[x.line[1]][x.line[2]] = x.uid
        /\ packetOffset[x.line[1]] < x.line[2]
    BY <1>8, <2>3 DEF RecordInv, TornRecords
  <2>5. CASE x.line[1] # "client"
    <3>1. packetOffset'[x.line[1]] = packetOffset[x.line[1]]
      BY <1>1, <2>1, <2>5, ScanType DEF Typed
    <3>2. QED
      BY <2>4, <3>1
  <2>6. CASE x.line[1] = "client"
    <3>1. packetOffset["client"] \in 0..MaxLines /\ Len(log["client"]) \in Nat
          /\ From("client", packetOffset["client"]) = packetOffset["client"]
      BY <1>1, <1>8, FromPlace, WholeLines DEF Typed, TypeOK
    <3>2. x.line[2] \in NewLines("client", x.uid)
      BY <2>1, <2>4, <2>6, <3>1, BoundsAssumption DEF NewLines
    <3>3. cache'[x.uid]["client"] # None
      BY <1>1, <2>1, <3>2, ScanCache
    <3>4. QED
      BY <1>1, <2>2, <3>3 DEF NoLines
  <2>7. QED
    BY <2>5, <2>6
<1>9. TornRecords'
  <2>1. ASSUME "truncate" \notin env, NEW x \in packets', x.line[3]
        PROVE  /\ x.line[2] <= Len(log[x.line[1]]) /\ log[x.line[1]][x.line[2]] = x.uid
               /\ packetOffset'[x.line[1]] < x.line[2]
    <3>1. CASE x \in Orphans(known)
      BY <1>3, <1>8, <2>1, <3>1
    <3>2. CASE x \in {record(u) : u \in known}
      <4>1. PICK u \in known : x = record(u)
        BY <3>2
      <4>2. x.uid = u
        BY <4>1
      <4>3. QED
        BY <1>7, <2>1, <4>1, <4>2
    <3>3. QED
      BY <1>1, <3>1, <3>2
  <2>2. QED
    BY <1>1, <2>1 DEF TornRecords
<1>10. QED
  BY <1>2, <1>4, <1>6, <1>9 DEF RecordInv

LEMMA RecordNext == Typed /\ RecordInv /\ [Next]_vars => RecordInv'
<1>. SUFFICES ASSUME Typed, RecordInv, [Next]_vars PROVE RecordInv'
  OBVIOUS
<1>0. env' = env /\ Typed' /\ TypeOK /\ LogsBounded
  BY SameEnvironment, TypedNext DEF Typed
<1>1. ASSUME NEW r \in Roles, Write(r) \/ Complete(r)
      PROVE  RecordInv'
  BY <1>0, <1>1, WriteGrows, CompleteGrows, RecordsKept DEF Write, Complete
<1>2. ASSUME NEW r \in Roles, TruncateElsewhere(r)
      PROVE  RecordInv'
  BY <1>0, <1>2 DEF TruncateElsewhere, RecordInv, OneRecordPerPacket, CacheCovers,
                    CacheTruthful, RecordsFollowCache, TornRecords
<1>3. ASSUME UNCHANGED <<log, scanning, packetOffset, cache, packets>>
      PROVE  RecordInv'
  <2>1. \A r \in Roles, u \in Uids : Scanned(r, u)' = Scanned(r, u)
    BY <1>3 DEF Scanned
  <2>2. QED
    BY <1>0, <1>3, <2>1 DEF RecordInv, OneRecordPerPacket, CacheCovers, CacheTruthful,
                            RecordsFollowCache, TornRecords
<1>4. CASE PushServerLog \/ PushClientLog \/ Connect \/ Disconnect \/ UNCHANGED vars
  BY <1>3, <1>4 DEF PushServerLog, PushClientLog, PushLogTail, Connect, Disconnect, vars, packetVars
<1>5. CASE ApiPacketsScanServer
  BY <1>5, ServerScanKeeps
<1>6. CASE ApiPacketsScanClient
  BY <1>0, <1>6, ClientScanKeeps
<1>7. CASE Clear \/ Reset \/ Restart
  BY <1>0, <1>7, CacheResetKeeps DEF Clear, Reset, Restart
<1>8. QED
  BY <1>1, <1>2, <1>4, <1>5, <1>6, <1>7 DEF Next, Loop

(***************************************************************************)
(* The theorems.                                                           *)
(***************************************************************************)
\* The inductive invariant holds throughout: the tail pushes what lies behind its
\* offset, and the cache and the packet list describe lines that are in the logs.
THEOREM Invariant == Spec => []IInv
<1>1. Init => IInv
  BY TypedInit, TailInit, RecordInit DEF IInv
<1>2. IInv /\ [Next]_vars => IInv'
  BY TypedNext, TailNext, RecordNext DEF IInv
<1>3. QED
  BY <1>1, <1>2, PTL DEF Spec

\* push_log_tail sends each whole line once and in order, however long the logs are and
\* whatever is torn, emptied, restarted or not sent.
THEOREM TailOrder == Spec => []PushedOnceInOrder
<1>1. IInv => PushedOnceInOrder
  BY DEF IInv, TailInv
<1>2. QED
  BY <1>1, Invariant, PTL

\* and passes over no line unless a message to the browser fails or a log shrinks.
THEOREM TailComplete == Spec => []PassedLinesPushed
<1>1. IInv => PassedLinesPushed
  BY DEF IInv, TailInv
<1>2. QED
  BY <1>1, Invariant, PTL

\* packets.jsonl never has two records of a packet, for any number of packets.
THEOREM RecordsUnique == Spec => []OneRecordPerPacket
<1>1. IInv => OneRecordPerPacket
  BY DEF IInv, RecordInv
<1>2. QED
  BY <1>1, Invariant, PTL

\* What api_packets has scanned has a record, of the sender's line where one was
\* passed, and what it saw torn it will read again.
THEOREM ScansKept == Spec => []ScannedLinesKept
<1>1. IInv => ScannedLinesKept
  <2>. SUFFICES ASSUME IInv PROVE ScannedLinesKept
    OBVIOUS
  <2>1. Typed /\ TypeOK /\ RecordInv
    BY DEF IInv, Typed
  <2>2. ScannedLinesRecorded
    <3>1. ASSUME "truncate" \notin env, ~scanning, NEW u \in Uids, NEW side \in Roles,
                 Scanned(side, u) # {},
                 side # Sender[u] => Scanned(Sender[u], u) = {}
          PROVE  \E x \in packets : x.uid = u /\ x.line[1] \in {side, Sender[u]}
      <4>1. cache[u] \in [Roles -> Lines] /\ Sender[u] \in Roles
        BY <2>1, SenderAssumption DEF TypeOK
      <4>2. cache[u][side] # None
        BY <2>1, <3>1 DEF RecordInv, CacheCovers
      <4>3. cache[u] # NoLines
        BY <4>2 DEF NoLines
      <4>4. PICK r \in Roles : /\ cache[u][r] # None /\ Picked(u, cache[u]) = cache[u][r]
                               /\ cache[u][Sender[u]] # None => r = Sender[u]
        BY <4>1, <4>3, PickedLine
      <4>5. r \in {side, Sender[u]}
        BY <4>1, <4>2, <4>4 DEF Roles
      <4>6. cache[u][r][1] = r
        BY <2>1, <4>4 DEF RecordInv, CacheTruthful
      <4>7. [uid |-> u, line |-> cache[u][r]] \in packets
        BY <2>1, <3>1, <4>3, <4>4 DEF RecordInv, RecordsFollowCache
      <4>8. QED
        BY <4>5, <4>6, <4>7
    <3>2. \A u \in Uids : Sender[u] \in Roles
                          /\ (CHOOSE r \in Roles : r # Sender[u]) \in Roles
      BY SenderAssumption DEF Roles
    <3>3. QED
      BY <3>1, <3>2 DEF ScannedLinesRecorded
  <2>3. TornRecordsReread
    BY <2>1 DEF TornRecordsReread, RecordInv, TornRecords
  <2>4. QED
    BY <2>2, <2>3 DEF ScannedLinesKept
<1>2. QED
  BY <1>1, Invariant, PTL

\* api_packets never drops a record: a packet leaves packets.jsonl only when everything
\* is cleared or reset.
THEOREM RecordsSurvive == Spec => HistoryKept
<1>. DEFINE Keeps == \A x \in packets : (\E y \in packets' : y.uid = x.uid) \/ packets' = {}
<1>1. [Next]_vars => [Keeps]_vars
  <2>. SUFFICES ASSUME [Next]_vars PROVE Keeps
    OBVIOUS
  <2>1. CASE ApiPacketsScanClient
    <3>. DEFINE known == {u \in Uids : cache'[u] # NoLines}
    <3>1. packets' = Orphans(known) \cup {[uid |-> u, line |-> Picked(u, cache'[u])] : u \in known}
      BY <2>1 DEF ApiPacketsScanClient
    <3>. HIDE DEF known
    <3>2. ASSUME NEW x \in packets
          PROVE  \E y \in packets' : y.uid = x.uid
      <4>1. CASE x.uid \notin known
        BY <3>1, <4>1 DEF Orphans
      <4>2. CASE x.uid \in known
        <5>1. [uid |-> x.uid, line |-> Picked(x.uid, cache'[x.uid])] \in packets'
          BY <3>1, <4>2
        <5>2. QED
          BY <5>1
      <4>3. QED
        BY <4>1, <4>2
    <3>3. QED
      BY <3>2
  <2>2. CASE packets' = packets \/ packets' = {}
    BY <2>2
  <2>3. QED
    BY <2>1, <2>2 DEF Next, Loop, vars, packetVars, PushServerLog, PushClientLog, PushLogTail,
         ApiPacketsScanServer, Write,
         Complete, TruncateElsewhere, Connect, Disconnect, Clear, Reset, Restart
<1>2. QED
  BY <1>1, PTL DEF Spec, HistoryKept
=============================================================================
