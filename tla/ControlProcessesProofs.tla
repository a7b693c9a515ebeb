----------------------- MODULE ControlProcessesProofs -----------------------
(***************************************************************************)
(* Proofs about ControlProcesses, for every number of descriptors and      *)
(* every environment.                                                      *)
(*                                                                         *)
(* A request such as RunTests first stops children and then starts one.    *)
(* The parts of the inductive invariant are therefore stated for any       *)
(* slots, processes and descriptor table, with one lemma for closing,      *)
(* one for starting, and so on, which the actions combine.                 *)
(***************************************************************************)
EXTENDS ControlProcesses, FiniteSetTheorems, SequenceTheorems, WellFoundedInduction, TLAPS

\* A set of natural numbers that is not empty has a least element.
LEMMA Least ==
  ASSUME NEW S \in SUBSET Nat, S # {}
  PROVE  \E m \in S : \A j \in S : m <= j
<1>1. \E m \in S : \A j \in S : ~(<<j, m>> \in OpToRel(<, Nat))
  BY NatLessThanWellFounded, WFMin
<1>2. PICK m \in S : \A j \in S : ~(j < m)
  BY <1>1 DEF OpToRel
<1>3. QED
  BY <1>2

\* A set of numbers up to n has a greatest element: the distances from n have a least.
LEMMA Greatest ==
  ASSUME NEW n \in Nat, NEW S, S \subseteq 0..n, S # {}
  PROVE  \E m \in S : \A j \in S : j <= m
<1>. DEFINE T == {n - i : i \in S}
<1>1. T \subseteq Nat /\ T # {}
  <2>1. \A i \in S : n - i \in Nat
    OBVIOUS
  <2>2. QED
    BY <2>1
<1>2. PICK x \in T : \A y \in T : x <= y
  BY <1>1, Least
<1>3. PICK m \in S : x = n - m
  OBVIOUS
<1>4. ASSUME NEW j \in S
      PROVE  j <= m
  <2>1. n - j \in T
    OBVIOUS
  <2>2. n - m <= n - j
    BY <1>2, <1>3, <2>1
  <2>3. QED
    BY <2>2
<1>5. QED
  BY <1>4

States == {"running", "exited", "killed", "reaped"}
Results == Words \cup {"Pending", "Stopped"}
SlotType == [pid : Nat, out : Fds \cup {NoFd}, err : Fds \cup {NoFd},
             in : Fds \cup {NoFd}, result : Results]
ProcessType == [kind : Slots, state : States, flow : Nat, unread : Seq(Words),
                written : Seq(Words), logged : BOOLEAN, orphan : BOOLEAN]
Entries == {Free, Socket, Lost} \cup Nat

-----------------------------------------------------------------------------
(***************************************************************************)
(* Descriptors that are free.                                              *)
(***************************************************************************)

LEMMA FdsAreFinite ==
  ASSUME NEW table, NEW f \in Fds
  PROVE  /\ IsFiniteSet({g \in 0..f : table[g] = Free})
         /\ Cardinality({g \in 0..f : table[g] = Free}) \in Nat
<1>1. IsFiniteSet(0..f)
  BY FS_Interval, BoundsAssumption DEF Fds
<1>2. IsFiniteSet({g \in 0..f : table[g] = Free})
  BY <1>1, FS_Subset
<1>3. QED
  BY <1>2, FS_CardinalityType

\* The n-th free descriptor is free, and n is how many are free up to it.
LEMMA NthFreeProperties ==
  ASSUME NEW table, NEW n \in Nat \ {0}, n <= Cardinality(FreeFds(table))
  PROVE  /\ NthFree(table, n) \in Fds /\ table[NthFree(table, n)] = Free
         /\ Cardinality({g \in 0..NthFree(table, n) : table[g] = Free}) = n
<1>. DEFINE Upto(f) == {g \in 0..f : table[g] = Free}
            Enough == {f \in Fds : n <= Cardinality(Upto(f))}
<1>1. MaxFd \in Enough
  <2>1. Upto(MaxFd) = FreeFds(table)
    BY DEF FreeFds, Fds
  <2>2. n <= Cardinality(Upto(MaxFd))
    BY <2>1
  <2>3. MaxFd \in Fds
    BY BoundsAssumption DEF Fds
  <2>. HIDE DEF Upto
  <2>4. QED
    BY <2>2, <2>3
<1>2. PICK f \in Enough : \A g \in Enough : f <= g
  <2>1. Enough \in SUBSET Nat
    BY BoundsAssumption DEF Fds
  <2>2. QED
    BY <1>1, <2>1, Least
<1>3. f \in Fds /\ f \in Nat /\ f <= MaxFd /\ n <= Cardinality(Upto(f))
  BY <1>2, BoundsAssumption DEF Fds
<1>4. table[f] = Free /\ Cardinality(Upto(f)) = n
  <2>1. CASE f = 0
    <3>1. Upto(f) \subseteq {0}
      BY <2>1
    <3>2. Upto(f) # {}
      BY <1>3, FS_EmptySet
    <3>3. Upto(f) = {0}
      BY <3>1, <3>2
    <3>4. Cardinality(Upto(f)) = 1
      BY <3>3, FS_Singleton
    <3>5. table[f] = Free
      BY <2>1, <3>3
    <3>6. QED
      BY <1>3, <3>4, <3>5
  <2>2. CASE f # 0
    <3>1. f - 1 \in Fds /\ f - 1 \in 0..MaxFd /\ ~(f <= f - 1)
      BY <1>3, <2>2, BoundsAssumption DEF Fds
    <3>2. ~(n <= Cardinality(Upto(f - 1)))
      BY <1>2, <3>1
    <3>3. /\ IsFiniteSet(Upto(f - 1)) /\ Cardinality(Upto(f - 1)) \in Nat
          /\ Cardinality(Upto(f)) \in Nat
      BY <3>1, <1>3, FdsAreFinite
    <3>4. table[f] = Free
      <4>1. SUFFICES ASSUME table[f] # Free
                     PROVE  Upto(f) = Upto(f - 1)
        BY <1>3, <3>2
      <4>2. QED
        BY <1>3, <2>2, <4>1
    <3>5. Upto(f) = Upto(f - 1) \cup {f} /\ f \notin Upto(f - 1)
      BY <1>3, <2>2, <3>4
    <3>6. Cardinality(Upto(f)) = Cardinality(Upto(f - 1)) + 1
      BY <3>3, <3>5, FS_AddElement
    <3>7. QED
      BY <1>3, <3>2, <3>3, <3>4, <3>6
  <2>3. QED
    BY <2>1, <2>2
<1>5. QED
  BY <1>3, <1>4 DEF NthFree

LEMMA NthFreeIsFree ==
  ASSUME NEW table, NEW n \in Nat \ {0}, n <= Cardinality(FreeFds(table))
  PROVE  NthFree(table, n) \in Fds /\ table[NthFree(table, n)] = Free
BY NthFreeProperties

\* The results of several openings in a row differ.
LEMMA NthFreeDiffer ==
  ASSUME NEW table, NEW m \in Nat \ {0}, NEW n \in Nat \ {0}, m # n,
         m <= Cardinality(FreeFds(table)), n <= Cardinality(FreeFds(table))
  PROVE  NthFree(table, m) # NthFree(table, n)
BY ZenonT(60), NthFreeProperties

LEMMA FreeFdsCounted ==
  ASSUME NEW table
  PROVE  /\ Cardinality(FreeFds(table)) \in Nat
         /\ FreeFds(table) # {} => 1 <= Cardinality(FreeFds(table))
<1>1. IsFiniteSet(Fds)
  BY FS_Interval, BoundsAssumption DEF Fds
<1>2. IsFiniteSet(FreeFds(table))
  BY <1>1, FS_Subset DEF FreeFds
<1>3. QED
  BY <1>2, FS_CardinalityType, FS_EmptySet

-----------------------------------------------------------------------------
(***************************************************************************)
(* Who owns a descriptor.                                                  *)
(***************************************************************************)
HeldBy(slots, s) == {slots[s].out, slots[s].err, slots[s].in} \ {NoFd}

\* DescriptorsOwned, for the connections in sockets.
Owned(slots, table, sockets) ==
  /\ \A f \in Fds : table[f] > 0 => \E s \in Slots : slots[s].pid = table[f] /\ f \in HeldBy(slots, s)
  /\ \A s \in Slots : \A f \in HeldBy(slots, s) : slots[s].pid # NoPid /\ table[f] = slots[s].pid
  /\ \A f \in Fds : table[f] = Socket <=> f \in sockets

\* No descriptor is in two fields of a slot, and no process in two slots.
FieldsDiffer(slots) ==
  \A s \in Slots :
    /\ slots[s].out # NoFd => slots[s].out # slots[s].err /\ slots[s].out # slots[s].in
    /\ slots[s].err # NoFd => slots[s].err # slots[s].in
PidsDiffer(slots) ==
  \A s, t \in Slots : slots[s].pid # NoPid /\ slots[s].pid = slots[t].pid => s = t

DescriptorsInv(slots, table, sockets) ==
  Owned(slots, table, sockets) /\ FieldsDiffer(slots) /\ PidsDiffer(slots)

\* A slot's descriptors are closed, some of them or all, and then it may be emptied.
Drops(old, new) ==
  \/ /\ new.pid = old.pid
     /\ new.out \in {old.out, NoFd} /\ new.err \in {old.err, NoFd} /\ new.in \in {old.in, NoFd}
  \/ new.pid = NoPid /\ new.out = NoFd /\ new.err = NoFd /\ new.in = NoFd

Dropped(slots, new, f) == \E s \in Slots : f \in HeldBy(slots, s) /\ f \notin HeldBy(new, s)

\* Closing what the slots give up keeps the rest owned.
LEMMA DropKeepsOwned ==
  ASSUME NEW slots \in [Slots -> SlotType], NEW new \in [Slots -> SlotType],
         NEW table \in [Fds -> Entries], NEW after \in [Fds -> Entries], NEW sockets,
         DescriptorsInv(slots, table, sockets),
         \A s \in Slots : Drops(slots[s], new[s]),
         \A f \in Fds : after[f] = IF Dropped(slots, new, f) THEN Free ELSE table[f]
  PROVE  DescriptorsInv(new, after, sockets)
<1>1. \A s \in Slots : HeldBy(new, s) \subseteq HeldBy(slots, s) /\ HeldBy(new, s) \subseteq Fds
  BY DEF Drops, HeldBy, SlotType
<1>2. \A s \in Slots : HeldBy(new, s) # {} => new[s].pid = slots[s].pid
  BY DEF Drops, HeldBy
<1>3. \A s \in Slots : \A f \in HeldBy(new, s) : ~Dropped(slots, new, f)
  <2>1. TAKE s \in Slots
  <2>2. TAKE f \in HeldBy(new, s)
  <2>3. SUFFICES ASSUME NEW t \in Slots, f \in HeldBy(slots, t), f \notin HeldBy(new, t)
                 PROVE  FALSE
    BY DEF Dropped
  <2>4. slots[s].pid # NoPid /\ slots[s].pid = slots[t].pid
    BY <1>1, <2>3 DEF DescriptorsInv, Owned
  <2>5. QED
    BY <2>3, <2>4 DEF DescriptorsInv, PidsDiffer
<1>4. \A s \in Slots : \A f \in HeldBy(new, s) : new[s].pid # NoPid /\ after[f] = new[s].pid
  <2>1. TAKE s \in Slots
  <2>2. TAKE f \in HeldBy(new, s)
  <2>3. slots[s].pid # NoPid /\ table[f] = slots[s].pid
    BY <1>1 DEF DescriptorsInv, Owned
  <2>4. after[f] = table[f]
    BY <1>1, <1>3
  <2>5. QED
    BY <1>2, <2>3, <2>4
<1>5. ASSUME NEW f \in Fds, after[f] > 0
      PROVE  \E s \in Slots : new[s].pid = after[f] /\ f \in HeldBy(new, s)
  <2>1. ~Dropped(slots, new, f) /\ after[f] = table[f]
    BY <1>5 DEF Free
  <2>2. PICK s \in Slots : slots[s].pid = table[f] /\ f \in HeldBy(slots, s)
    BY <1>5, <2>1 DEF DescriptorsInv, Owned
  <2>3. f \in HeldBy(new, s)
    BY <2>1, <2>2 DEF Dropped
  <2>4. QED
    BY <1>2, <2>1, <2>2, <2>3
<1>6. ASSUME NEW f \in Fds
      PROVE  after[f] = Socket <=> f \in sockets
  <2>1. table[f] = Socket <=> f \in sockets
    BY DEF DescriptorsInv, Owned
  <2>2. CASE Dropped(slots, new, f)
    <3>1. PICK s \in Slots : f \in HeldBy(slots, s)
      BY <2>2 DEF Dropped
    <3>2. table[f] = slots[s].pid /\ slots[s].pid \in Nat
      BY <3>1 DEF DescriptorsInv, Owned, SlotType
    <3>3. QED
      BY <2>1, <2>2, <3>2 DEF Free, Socket
  <2>3. QED
    BY <2>1, <2>2
<1>7. FieldsDiffer(new)
  BY DEF DescriptorsInv, FieldsDiffer, Drops
<1>8. PidsDiffer(new)
  BY DEF DescriptorsInv, PidsDiffer, Drops
<1>9. QED
  BY <1>4, <1>5, <1>6, <1>7, <1>8 DEF DescriptorsInv, Owned

\* A connection is opened on a free descriptor, and closed.
LEMMA SocketOpens ==
  ASSUME NEW slots \in [Slots -> SlotType], NEW table \in [Fds -> Entries], NEW sockets,
         DescriptorsInv(slots, table, sockets), NEW f \in Fds, table[f] = Free
  PROVE  /\ DescriptorsInv(slots, Opening(table, {f}, Socket), sockets \cup {f})
         /\ Opening(table, {f}, Socket) \in [Fds -> Entries]
<1>1. \A s \in Slots : f \notin HeldBy(slots, s)
  BY DEF DescriptorsInv, Owned, Free, NoPid
<1>2. \A s \in Slots : HeldBy(slots, s) \subseteq Fds
  BY DEF HeldBy, SlotType
<1>3. \A g \in Fds : Opening(table, {f}, Socket)[g] = IF g = f THEN Socket ELSE table[g]
  BY DEF Opening
<1>4. QED
  BY <1>1, <1>2, <1>3 DEF DescriptorsInv, Owned, Opening, Socket, Entries

LEMMA SocketCloses ==
  ASSUME NEW slots \in [Slots -> SlotType], NEW table \in [Fds -> Entries], NEW sockets,
         DescriptorsInv(slots, table, sockets), NEW f \in sockets \cup {NoFd}
  PROVE  /\ DescriptorsInv(slots, Closing(table, {f}), sockets \ {f})
         /\ Closing(table, {f}) \in [Fds -> Entries]
<1>1. \A g \in Fds : Closing(table, {f})[g] = IF g = f THEN Free ELSE table[g]
  BY DEF Closing
<1>2. f \in Fds => table[f] = Socket
  BY DEF DescriptorsInv, Owned, Fds, NoFd
<1>3. \A s \in Slots : f \notin HeldBy(slots, s) /\ HeldBy(slots, s) \subseteq Fds
  <2>1. TAKE s \in Slots
  <2>2. HeldBy(slots, s) \subseteq Fds /\ slots[s].pid \in Nat
    BY DEF HeldBy, SlotType
  <2>3. \A g \in HeldBy(slots, s) : table[g] = slots[s].pid
    BY DEF DescriptorsInv, Owned
  <2>4. QED
    BY <1>2, <2>2, <2>3 DEF Socket
<1>4. QED
  BY <1>1, <1>3 DEF DescriptorsInv, Owned, Closing, Free, Socket, Entries

LEMMA WebSocketCloses ==
  ASSUME NEW slots \in [Slots -> SlotType], NEW table \in [Fds -> Entries], NEW socket,
         DescriptorsInv(slots, table, {socket})
  PROVE  /\ DescriptorsInv(slots, Closing(table, {socket}), {NoFd})
         /\ Closing(table, {socket}) \in [Fds -> Entries]
<1>. DEFINE sockets == {socket}
<1>1. socket \in sockets \cup {NoFd} /\ sockets \ {socket} = {}
  OBVIOUS
<1>2. DescriptorsInv(slots, table, sockets)
  OBVIOUS
<1>. HIDE DEF sockets
<1>3. /\ DescriptorsInv(slots, Closing(table, {socket}), sockets \ {socket})
      /\ Closing(table, {socket}) \in [Fds -> Entries]
  BY <1>1, <1>2, SocketCloses
<1>4. NoFd \notin Fds
  BY BoundsAssumption DEF Fds, NoFd
<1>5. QED
  BY <1>1, <1>3, <1>4 DEF DescriptorsInv, Owned

\* start_child's pipes go to the slot it fills, and the connection is closed after it.
LEMMA PipesOpen ==
  ASSUME NEW slots \in [Slots -> SlotType], NEW new \in [Slots -> SlotType],
         NEW table \in [Fds -> Entries], NEW after \in [Fds -> Entries], NEW sockets,
         DescriptorsInv(slots, table, sockets),
         NEW s \in Slots, slots[s].pid = NoPid,
         \A t \in Slots : t # s => new[t] = slots[t],
         new[s].pid > 0, \A t \in Slots : slots[t].pid # new[s].pid,
         \A f \in HeldBy(new, s) : table[f] = Free,
         FieldsDiffer(new),
         \A f \in Fds : after[f] = IF f \in HeldBy(new, s) THEN new[s].pid ELSE table[f]
  PROVE  DescriptorsInv(new, after, sockets)
<1>1. \A t \in Slots : HeldBy(new, t) \subseteq Fds
  BY DEF HeldBy, SlotType
<1>2. \A t \in Slots : t # s => HeldBy(new, t) = HeldBy(slots, t)
  BY DEF HeldBy
<1>3. \A t \in Slots : \A f \in HeldBy(slots, t) : f \notin HeldBy(new, s)
  BY DEF DescriptorsInv, Owned, Free, NoPid
<1>4. \A t \in Slots : \A f \in HeldBy(new, t) : new[t].pid # NoPid /\ after[f] = new[t].pid
  <2>1. TAKE t \in Slots
  <2>2. TAKE f \in HeldBy(new, t)
  <2>3. f \in Fds
    BY <1>1
  <2>4. CASE t = s
    BY <2>3, <2>4 DEF NoPid
  <2>5. CASE t # s
    BY <1>2, <1>3, <2>3, <2>5 DEF DescriptorsInv, Owned
  <2>6. QED
    BY <2>4, <2>5
<1>5. ASSUME NEW f \in Fds, after[f] > 0
      PROVE  \E t \in Slots : new[t].pid = after[f] /\ f \in HeldBy(new, t)
  <2>1. CASE f \in HeldBy(new, s)
    BY <2>1
  <2>2. CASE f \notin HeldBy(new, s)
    <3>1. PICK t \in Slots : slots[t].pid = table[f] /\ f \in HeldBy(slots, t)
      BY <1>5, <2>2 DEF DescriptorsInv, Owned
    <3>2. t # s
      BY <1>5, <2>2, <3>1 DEF NoPid
    <3>3. QED
      BY <1>2, <2>2, <3>1, <3>2
  <2>3. QED
    BY <2>1, <2>2
<1>6. \A f \in Fds : after[f] = Socket <=> f \in sockets
  BY DEF DescriptorsInv, Owned, Socket, Free
<1>7. PidsDiffer(new)
  BY DEF DescriptorsInv, PidsDiffer
<1>8. QED
  BY <1>4, <1>5, <1>6, <1>7 DEF DescriptorsInv, Owned

\* The pipe ends that a failed start_child loses belong to nobody.
LEMMA PipesLost ==
  ASSUME NEW slots \in [Slots -> SlotType], NEW table \in [Fds -> Entries], NEW sockets,
         DescriptorsInv(slots, table, sockets), NEW lost, \A f \in lost : table[f] = Free
  PROVE  /\ DescriptorsInv(slots, Opening(table, lost, Lost), sockets)
         /\ Opening(table, lost, Lost) \in [Fds -> Entries]
<1>1. \A s \in Slots : \A f \in HeldBy(slots, s) : f \notin lost
  BY DEF DescriptorsInv, Owned, Free, NoPid
<1>2. \A s \in Slots : HeldBy(slots, s) \subseteq Fds
  BY DEF HeldBy, SlotType
<1>3. \A g \in Fds : Opening(table, lost, Lost)[g] = IF g \in lost THEN Lost ELSE table[g]
  BY DEF Opening
<1>4. QED
  BY <1>1, <1>2, <1>3 DEF DescriptorsInv, Owned, Opening, Lost, Socket, Free, Entries

-----------------------------------------------------------------------------
(***************************************************************************)
(* The children and their slots.                                           *)
(***************************************************************************)
LEMMA ProcessFields ==
  ASSUME NEW processes \in Seq(ProcessType), NEW p \in 1..Len(processes)
  PROVE  /\ processes[p] \in ProcessType
         /\ processes[p].kind \in Slots /\ processes[p].flow \in Nat
         /\ processes[p].unread \in Seq(Words) /\ processes[p].written \in Seq(Words)
<1>1. processes[p] \in ProcessType
  BY ElementOfSeq
<1>2. QED
  BY <1>1 DEF ProcessType

\* Of the children of this control server: what is not waited for, what may write its
\* log, and what has a log.
Alive(child) == child.state \in {"running", "exited"} /\ ~child.orphan
Active(child) == child.state = "running" /\ ~child.orphan
Traced(child) == child.logged /\ ~child.orphan

\* A slot holds the process started last for it, and each child that has not been
\* waited for or killed is in its slot.
ChildrenInv(slots, processes) ==
  /\ \A s \in Slots : slots[s].pid # NoPid =>
       /\ slots[s].pid \in 1..Len(processes) /\ processes[slots[s].pid].kind = s
       /\ \A p \in 1..Len(processes) : processes[p].kind = s => p <= slots[s].pid
  /\ \A p \in 1..Len(processes) : Alive(processes[p]) => slots[processes[p].kind].pid = p

\* A flow number has been used up to flow; the server in its slot has the latest one.
FlowInv(slots, processes, flow) ==
  /\ \A p \in 1..Len(processes) :
       processes[p].kind = "server" /\ Traced(processes[p]) => processes[p].flow <= flow
  /\ slots["server"].pid # NoPid => processes[slots["server"].pid].flow = flow /\ flow # NoFlow
  /\ \A p, q \in 1..Len(processes) :
       (/\ Active(processes[p]) /\ Active(processes[q]) /\ p < q
        /\ processes[p].kind = "server" /\ processes[q].kind = "client")
         => processes[p].flow = processes[q].flow
  /\ \A p, q \in 1..Len(processes) :
       (/\ Traced(processes[p]) /\ Traced(processes[q]) /\ processes[p].flow = processes[q].flow
        /\ processes[p].kind = "server" /\ processes[q].kind = "server") => p = q

\* What a step that starts nothing does to the processes: they stay what they are, and
\* none comes to life again.
Continues(processes, after) ==
  /\ Len(after) = Len(processes)
  /\ \A p \in 1..Len(processes) :
       /\ after[p].kind = processes[p].kind /\ after[p].flow = processes[p].flow
       /\ Traced(after[p]) => Traced(processes[p])
       /\ Alive(after[p]) => Alive(processes[p])
       /\ Active(after[p]) => Active(processes[p])

\* A slot is emptied only when its process ends.
LEMMA ChildrenKept ==
  ASSUME NEW slots \in [Slots -> SlotType], NEW new \in [Slots -> SlotType],
         NEW processes \in Seq(ProcessType), NEW after \in Seq(ProcessType),
         ChildrenInv(slots, processes), Continues(processes, after),
         \A s \in Slots : new[s].pid \in {NoPid, slots[s].pid},
         \A p \in 1..Len(processes) : \A s \in Slots :
           Alive(after[p]) /\ slots[s].pid = p => new[s].pid = p
  PROVE  ChildrenInv(new, after)
<1>1. \A p \in 1..Len(processes) : processes[p].kind \in Slots
  BY ProcessFields
<1>2. ASSUME NEW s \in Slots, new[s].pid # NoPid
      PROVE  /\ new[s].pid \in 1..Len(after) /\ after[new[s].pid].kind = s
             /\ \A p \in 1..Len(after) : after[p].kind = s => p <= new[s].pid
  BY SMTT(60), <1>2 DEF ChildrenInv, Continues
<1>3. ASSUME NEW p \in 1..Len(after), Alive(after[p])
      PROVE  new[after[p].kind].pid = p
  BY <1>1, <1>3 DEF ChildrenInv, Continues
<1>4. QED
  BY <1>2, <1>3 DEF ChildrenInv

LEMMA FlowKept ==
  ASSUME NEW slots \in [Slots -> SlotType], NEW new \in [Slots -> SlotType],
         NEW processes \in Seq(ProcessType), NEW after \in Seq(ProcessType), NEW flow \in Nat,
         ChildrenInv(slots, processes), FlowInv(slots, processes, flow),
         Continues(processes, after),
         new["server"].pid \in {NoPid, slots["server"].pid}
  PROVE  FlowInv(new, after, flow)
<1>1. slots["server"].pid # NoPid => slots["server"].pid \in 1..Len(processes)
  BY DEF ChildrenInv, Slots
<1>2. new["server"].pid # NoPid => after[new["server"].pid].flow = flow /\ flow # NoFlow
  BY <1>1 DEF Continues, FlowInv
<1>3. /\ Len(after) = Len(processes)
      /\ \A p \in 1..Len(after) :
           /\ after[p].kind = processes[p].kind /\ after[p].flow = processes[p].flow
           /\ Traced(after[p]) => Traced(processes[p])
           /\ Alive(after[p]) => Alive(processes[p])
           /\ Active(after[p]) => Active(processes[p])
  BY DEF Continues
<1>4. \A p \in 1..Len(after) :
        after[p].kind = "server" /\ Traced(after[p]) => after[p].flow <= flow
  BY <1>3 DEF FlowInv
<1>5. \A p, q \in 1..Len(after) :
        (/\ Active(after[p]) /\ Active(after[q]) /\ p < q
         /\ after[p].kind = "server" /\ after[q].kind = "client")
          => after[p].flow = after[q].flow
  BY <1>3 DEF FlowInv
<1>6. \A p, q \in 1..Len(after) :
        (/\ Traced(after[p]) /\ Traced(after[q]) /\ after[p].flow = after[q].flow
         /\ after[p].kind = "server" /\ after[q].kind = "server") => p = q
  BY <1>3 DEF FlowInv
<1>7. QED
  BY <1>2, <1>4, <1>5, <1>6 DEF FlowInv

\* truncate_logs ends the flows, and run_seq starts again.
LEMMA FlowEnds ==
  ASSUME NEW slots \in [Slots -> SlotType], NEW new \in [Slots -> SlotType],
         NEW processes \in Seq(ProcessType), NEW after \in Seq(ProcessType), NEW flow \in Nat,
         FlowInv(slots, processes, flow), Continues(processes, after),
         new["server"].pid = NoPid,
         \A p \in 1..Len(after) : ~Traced(after[p])
  PROVE  FlowInv(new, after, 0)
BY SMTT(60) DEF FlowInv, Continues

\* A child is started for a slot that is empty.
LEMMA ChildStarted ==
  ASSUME NEW slots \in [Slots -> SlotType], NEW new \in [Slots -> SlotType],
         NEW processes \in Seq(ProcessType), NEW child \in ProcessType,
         ChildrenInv(slots, processes),
         NEW s \in Slots, slots[s].pid = NoPid, child.kind = s,
         new[s].pid = Len(processes) + 1,
         \A t \in Slots : t # s => new[t] = slots[t]
  PROVE  ChildrenInv(new, Append(processes, child))
<1>. DEFINE after == Append(processes, child)
            n == Len(processes)
<1>1. /\ n \in Nat /\ Len(after) = n + 1 /\ after[n + 1] = child
      /\ \A p \in 1..n : after[p] = processes[p] /\ p \in 1..Len(after)
      /\ \A p \in 1..Len(after) : p \in 1..n \/ p = n + 1
  <2>1. n \in Nat
    BY LenProperties
  <2>2. QED
    BY <2>1, AppendProperties
<1>2. \A p \in 1..n : processes[p].kind \in Slots
  BY ProcessFields
<1>3. \A p \in 1..n : processes[p].kind = s => ~Alive(processes[p])
  BY <1>1, <1>2 DEF ChildrenInv, NoPid
<1>. HIDE DEF after, n
<1>4. ASSUME NEW t \in Slots, new[t].pid # NoPid
      PROVE  /\ new[t].pid \in 1..Len(after) /\ after[new[t].pid].kind = t
             /\ \A p \in 1..Len(after) : after[p].kind = t => p <= new[t].pid
  <2>1. CASE t = s
    BY <1>1, <2>1 DEF n
  <2>2. CASE t # s
    BY <1>1, <1>4, <2>2 DEF ChildrenInv, n
  <2>3. QED
    BY <2>1, <2>2
<1>5. ASSUME NEW p \in 1..Len(after), Alive(after[p])
      PROVE  new[after[p].kind].pid = p
  <2>1. CASE p \in 1..n
    BY <1>1, <1>2, <1>3, <1>5, <2>1 DEF ChildrenInv, n
  <2>2. CASE p = n + 1
    BY <1>1, <2>2 DEF n
  <2>3. QED
    BY <1>1, <2>1, <2>2
<1>6. QED
  BY <1>4, <1>5 DEF ChildrenInv, after

\* The flow numbers after a start: a server has a new one, a client that of the server
\* in its slot, and the tests none.
LEMMA FlowStarted ==
  ASSUME NEW slots \in [Slots -> SlotType], NEW new \in [Slots -> SlotType],
         NEW processes \in Seq(ProcessType), NEW child \in ProcessType,
         NEW flow \in Nat, NEW next \in Nat,
         ChildrenInv(slots, processes), FlowInv(slots, processes, flow),
         NEW s \in Slots, slots[s].pid = NoPid, child.kind = s,
         new[s].pid = Len(processes) + 1,
         \A t \in Slots : t # s => new[t] = slots[t],
         flow <= next,
         s = "server" => next = flow + 1,
         slots["server"].pid # NoPid => next = flow,
         s # "test" => child.flow = next
  PROVE  FlowInv(new, Append(processes, child), next)
<1>. DEFINE after == Append(processes, child)
            n == Len(processes)
<1>1. /\ n \in Nat /\ Len(after) = n + 1 /\ after[n + 1] = child
      /\ \A p \in 1..n : after[p] = processes[p] /\ p \in 1..Len(after)
      /\ \A p \in 1..Len(after) : p \in 1..n \/ p = n + 1
  <2>1. n \in Nat
    BY LenProperties
  <2>2. QED
    BY <2>1, AppendProperties
<1>2. \A p \in 1..n : processes[p].flow \in Nat
  BY ProcessFields
<1>3. slots["server"].pid # NoPid => slots["server"].pid \in 1..n
  BY DEF ChildrenInv, Slots
<1>4. \A p \in 1..n : processes[p].kind = "server" /\ Active(processes[p]) =>
        slots["server"].pid = p /\ processes[p].flow = flow
  BY <1>1 DEF ChildrenInv, FlowInv, Alive, Active, NoPid
<1>. HIDE DEF after, n
<1>5. \A p \in 1..Len(after) : after[p].kind = "server" /\ Traced(after[p]) => after[p].flow <= next
  BY <1>1, <1>2 DEF FlowInv, n
<1>6. new["server"].pid # NoPid => after[new["server"].pid].flow = next /\ next # NoFlow
  <2>1. CASE s = "server"
    BY <1>1, <2>1 DEF n, NoFlow
  <2>2. CASE s # "server"
    BY <1>1, <1>3, <2>2 DEF FlowInv, Slots
  <2>3. QED
    BY <2>1, <2>2
<1>7. ASSUME NEW p \in 1..Len(after), NEW q \in 1..Len(after), p < q,
             Active(after[p]), Active(after[q]),
             after[p].kind = "server", after[q].kind = "client"
      PROVE  after[p].flow = after[q].flow
  <2>1. p \in 1..n
    BY <1>1, <1>7
  <2>2. CASE q \in 1..n
    BY <1>1, <1>7, <2>1, <2>2 DEF FlowInv, n
  <2>3. CASE q = n + 1
    <3>1. s = "client" /\ after[q].flow = next
      BY <1>1, <1>7, <2>3
    <3>2. slots["server"].pid = p /\ after[p].flow = flow
      BY <1>1, <1>4, <1>7, <2>1
    <3>3. QED
      BY <1>1, <2>1, <3>1, <3>2 DEF NoPid
  <2>4. QED
    BY <1>1, <2>2, <2>3
<1>8. ASSUME NEW p \in 1..Len(after), NEW q \in 1..Len(after), Traced(after[p]), Traced(after[q]),
             after[p].flow = after[q].flow, after[p].kind = "server", after[q].kind = "server"
      PROVE  p = q
  <2>1. \A i \in 1..n : processes[i].kind = "server" /\ Traced(processes[i]) /\ s = "server" =>
          processes[i].flow # child.flow
    BY <1>2 DEF FlowInv, n
  <2>2. CASE p \in 1..n /\ q \in 1..n
    BY <1>1, <1>8, <2>2 DEF FlowInv, n
  <2>3. CASE p = n + 1 /\ q \in 1..n
    BY <1>1, <1>8, <2>1, <2>3
  <2>4. CASE q = n + 1 /\ p \in 1..n
    BY <1>1, <1>8, <2>1, <2>4
  <2>5. QED
    BY <1>1, <2>2, <2>3, <2>4
<1>9. QED
  BY <1>5, <1>6, <1>7, <1>8 DEF FlowInv, after

-----------------------------------------------------------------------------
(***************************************************************************)
(* What the children have written, and what has been read of it.           *)
(***************************************************************************)

LEMMA PartsOfText ==
  ASSUME NEW S, NEW text \in Seq(S), NEW n \in 1..Len(text)
  PROVE  /\ SubSeq(text, 1, n) \in Seq(S) /\ SubSeq(text, n + 1, Len(text)) \in Seq(S)
         /\ SubSeq(text, 1, n) \o SubSeq(text, n + 1, Len(text)) = text
         /\ Len(SubSeq(text, 1, n)) = n
         /\ \A i \in 1..n : SubSeq(text, 1, n)[i] = text[i]
         /\ \A i \in 1..Len(SubSeq(text, n + 1, Len(text))) :
              /\ n + i \in 1..Len(text)
              /\ SubSeq(text, n + 1, Len(text))[i] = text[n + i]
<1>1. Len(text) \in Nat /\ \A i \in 1..Len(text) : text[i] \in S
  BY ElementOfSeq, LenProperties
<1>2. /\ SubSeq(text, 1, n) \in Seq(S) /\ Len(SubSeq(text, 1, n)) = n
      /\ \A i \in 1..n : SubSeq(text, 1, n)[i] = text[i]
  <2>1. \A i \in 1..n : text[i] \in S
    BY <1>1
  <2>2. QED
    BY <1>1, <2>1, SubSeqProperties
<1>3. /\ SubSeq(text, n + 1, Len(text)) \in Seq(S)
      /\ \A i \in 1..Len(SubSeq(text, n + 1, Len(text))) :
           n + i \in 1..Len(text) /\ SubSeq(text, n + 1, Len(text))[i] = text[n + i]
  <2>1. \A i \in n + 1..Len(text) : text[i] \in S
    BY <1>1
  <2>2. /\ SubSeq(text, n + 1, Len(text)) \in Seq(S)
        /\ Len(SubSeq(text, n + 1, Len(text))) =
             IF n + 1 <= Len(text) THEN Len(text) - (n + 1) + 1 ELSE 0
        /\ \A i \in 1..Len(text) - (n + 1) + 1 :
             SubSeq(text, n + 1, Len(text))[i] = text[(n + 1) + i - 1]
    BY <1>1, <2>1, SubSeqProperties
  <2>3. QED
    BY <1>1, <2>2
<1>4. SubSeq(text, 1, n) \o SubSeq(text, n + 1, Len(text)) = text
  <2>1. 1 \in 1..Len(text) + 1 /\ n \in 1 - 1..Len(text) /\ Len(text) \in n..Len(text)
    BY <1>1
  <2>2. SubSeq(text, 1, n) \o SubSeq(text, n + 1, Len(text)) = SubSeq(text, 1, Len(text))
    BY <2>1, ConcatAdjacentSubSeq
  <2>3. QED
    BY <2>2, SubSeqFull
<1>5. QED
  BY <1>2, <1>3, <1>4

LEMMA ConcatIsPrefix ==
  ASSUME NEW S, NEW r \in Seq(S), NEW u \in Seq(S)
  PROVE  IsPrefix(r, r \o u) \/ r = <<>>
<1>1. /\ r \o u \in Seq(S) /\ Len(r \o u) = Len(r) + Len(u)
      /\ Len(r) \in Nat /\ Len(u) \in Nat
  BY ConcatProperties, LenProperties
<1>2. CASE r # <<>>
  <2>1. Len(r) \in 1..Len(r)
    BY <1>2, EmptySeq
  <2>2. SubSeq(r \o u, 1, Len(r)) = SubSeq(r, 1, Len(r))
    BY <2>1, <1>1, SubSeqOfConcat1
  <2>3. QED
    BY <1>1, <2>2 DEF IsPrefix
<1>3. QED
  BY <1>2

LEMMA PrefixGrows ==
  ASSUME NEW S, NEW r \in Seq(S), NEW w \in Seq(S), NEW x \in S, IsPrefix(r, w)
  PROVE  IsPrefix(r, Append(w, x))
<1>1. /\ Len(r) \in Nat /\ Len(w) \in Nat /\ Len(r) <= Len(w)
      /\ SubSeq(r, 1, Len(r)) = SubSeq(w, 1, Len(r))
  BY LenProperties DEF IsPrefix
<1>2. /\ Append(w, x) \in Seq(S) /\ Len(Append(w, x)) = Len(w) + 1
      /\ \A i \in 1..Len(w) : Append(w, x)[i] = w[i]
  BY AppendProperties
<1>3. SubSeq(Append(w, x), 1, Len(r)) = SubSeq(w, 1, Len(r))
  <2>1. CASE Len(r) = 0
    BY <1>1, <2>1, SubSeqEmpty
  <2>2. CASE Len(r) # 0
    <3>1. <<x>> \in Seq(S) /\ Append(w, x) = w \o <<x>>
      BY AppendIsConcat
    <3>2. 1 \in 1..Len(w) /\ Len(r) \in 1..Len(w)
      BY <1>1, <2>2
    <3>3. SubSeq(w \o <<x>>, 1, Len(r)) = SubSeq(w, 1, Len(r))
      BY <3>1, <3>2, SubSeqOfConcat1
    <3>4. QED
      BY <3>1, <3>3
  <2>3. QED
    BY <2>1, <2>2
<1>4. QED
  BY <1>1, <1>2, <1>3 DEF IsPrefix

LEMMA WordsInOrder ==
  /\ \A r, t, u \in Seq(Words) : (r \o t) \o u = r \o (t \o u)
  /\ \A r, u \in Seq(Words), x \in Words : Append(r \o u, x) = r \o Append(u, x)
<1>1. \A r, t, u \in Seq(Words) : (r \o t) \o u = r \o (t \o u)
  BY ConcatAssociative
<1>2. ASSUME NEW r \in Seq(Words), NEW u \in Seq(Words), NEW x \in Words
      PROVE  Append(r \o u, x) = r \o Append(u, x)
  <2>1. <<x>> \in Seq(Words) /\ r \o u \in Seq(Words)
    BY ConcatProperties
  <2>2. Append(r \o u, x) = (r \o u) \o <<x>> /\ Append(u, x) = u \o <<x>>
    BY <2>1, AppendIsConcat
  <2>3. QED
    BY <1>1, <2>1, <2>2
<1>3. QED
  BY <1>1, <1>2

\* The process that was started last for a slot.
LastOf(processes, s, p) ==
  /\ p \in 1..Len(processes) /\ processes[p].kind = s
  /\ \A q \in 1..Len(processes) : processes[q].kind = s => q <= p

LEMMA LastIsLatest ==
  ASSUME process \in Seq(ProcessType), NEW s \in Slots
  PROVE  /\ \A p : LastOf(process, s, p) => Latest(s) = p /\ p # 0
         /\ Latest(s) # 0 => LastOf(process, s, Latest(s))
<1>. DEFINE N == Len(process)
            P == {0} \cup {p \in Pids : process[p].kind = s}
<1>1. N \in Nat
  BY LenProperties
<1>2. P \subseteq 0..N /\ P # {}
  BY <1>1 DEF Pids
<1>3. \E m \in P : \A j \in P : j <= m
  BY <1>1, <1>2, Greatest
<1>4. PICK m \in P : \A j \in P : m >= j
  BY <1>1, <1>2, <1>3
<1>5. Max(P) \in P /\ \A j \in P : Max(P) >= j
  BY <1>4 DEF Max
<1>6. Latest(s) \in P /\ \A j \in P : Latest(s) >= j
  BY <1>5 DEF Latest
<1>7. ASSUME NEW p, LastOf(process, s, p)
      PROVE  Latest(s) = p /\ p # 0
  <2>1. p \in P /\ p \in 1..N
    BY <1>7 DEF LastOf, Pids
  <2>2. \A j \in P : j <= p
    BY <1>1, <1>7, <2>1 DEF LastOf, Pids
  <2>3. QED
    BY <1>1, <1>2, <1>6, <2>1, <2>2
<1>8. ASSUME Latest(s) # 0
      PROVE  LastOf(process, s, Latest(s))
  BY <1>1, <1>2, <1>6, <1>8 DEF LastOf, Pids
<1>9. QED
  BY <1>7, <1>8

\* What is unread has been written; a result shown is of the last process; the test
\* results and what is unread are together what the test runner has written.
UnreadWritten(child) ==
  \A i \in 1..Len(child.unread) : \E j \in 1..Len(child.written) : child.written[j] = child.unread[i]

ResultsInv(slots, processes, words) ==
  /\ \A p \in 1..Len(processes) : UnreadWritten(processes[p])
  /\ \A s \in Slots : slots[s].result \in Words =>
       \E p \in 1..Len(processes) : LastOf(processes, s, p) /\ Contains(processes[p].written, slots[s].result)
  /\ slots["test"].pid # NoPid =>
       processes[slots["test"].pid].written = words \o processes[slots["test"].pid].unread
  /\ \A p \in 1..Len(processes) : LastOf(processes, "test", p) =>
       words = <<>> \/ IsPrefix(words, processes[p].written)
  /\ (\A p \in 1..Len(processes) : processes[p].kind # "test") => words = <<>>

\* Stopping and reaping leave what was written, and what is read of it.
LEMMA ResultsKept ==
  ASSUME NEW slots \in [Slots -> SlotType], NEW new \in [Slots -> SlotType],
         NEW processes \in Seq(ProcessType), NEW after \in Seq(ProcessType), NEW words,
         ChildrenInv(slots, processes), ResultsInv(slots, processes, words),
         Len(after) = Len(processes),
         \A p \in 1..Len(processes) :
           /\ after[p].kind = processes[p].kind
           /\ after[p].unread = processes[p].unread /\ after[p].written = processes[p].written,
         new["test"].pid \in {NoPid, slots["test"].pid},
         \A s \in Slots : new[s].result \in Words => new[s].result = slots[s].result
  PROVE  ResultsInv(new, after, words)
<1>1. \A p \in 1..Len(after) : UnreadWritten(after[p])
  <2>1. TAKE p \in 1..Len(after)
  <2>2. UnreadWritten(processes[p])
    BY DEF ResultsInv
  <2>3. after[p].unread = processes[p].unread /\ after[p].written = processes[p].written
    OBVIOUS
  <2>4. QED
    BY <2>2, <2>3 DEF UnreadWritten
<1>2. \A s, p : LastOf(after, s, p) <=> LastOf(processes, s, p)
  BY DEF LastOf
<1>3. ASSUME NEW s \in Slots, new[s].result \in Words
      PROVE  \E p \in 1..Len(after) : LastOf(after, s, p) /\ Contains(after[p].written, new[s].result)
  <2>1. PICK p : LastOf(processes, s, p) /\ Contains(processes[p].written, slots[s].result)
    BY <1>3 DEF ResultsInv
  <2>2. p \in 1..Len(processes)
    BY <2>1 DEF LastOf
  <2>3. QED
    BY <1>2, <1>3, <2>1, <2>2
<1>4. new["test"].pid # NoPid =>
        after[new["test"].pid].written = words \o after[new["test"].pid].unread
  BY ZenonT(60) DEF ResultsInv, ChildrenInv, Slots
<1>5. ASSUME NEW p, LastOf(after, "test", p)
      PROVE  words = <<>> \/ IsPrefix(words, after[p].written)
  <2>1. LastOf(processes, "test", p) /\ p \in 1..Len(processes)
    BY <1>2, <1>5 DEF LastOf
  <2>2. QED
    BY <2>1 DEF ResultsInv
<1>6. (\A p \in 1..Len(after) : after[p].kind # "test") => words = <<>>
  BY DEF ResultsInv
<1>7. QED
  BY <1>1, <1>3, <1>4, <1>5, <1>6 DEF ResultsInv

\* api_run_tests empties the results before the tests are started.
LEMMA ResultsEmptied ==
  ASSUME NEW slots, NEW processes, NEW words, ResultsInv(slots, processes, words),
         slots["test"].pid = NoPid
  PROVE  ResultsInv(slots, processes, <<>>)
BY DEF ResultsInv

LEMMA ResultsStarted ==
  ASSUME NEW slots \in [Slots -> SlotType], NEW new \in [Slots -> SlotType],
         NEW processes \in Seq(ProcessType), NEW child \in ProcessType, NEW words,
         ChildrenInv(slots, processes), ResultsInv(slots, processes, words),
         NEW s \in Slots, slots[s].pid = NoPid, child.kind = s,
         child.unread = <<>>, child.written = <<>>,
         new[s].pid = Len(processes) + 1, new[s].result \notin Words,
         \A t \in Slots : t # s => new[t] = slots[t],
         s = "test" => words = <<>>
  PROVE  ResultsInv(new, Append(processes, child), words)
<1>. DEFINE after == Append(processes, child)
            n == Len(processes)
<1>1. /\ n \in Nat /\ Len(after) = n + 1 /\ after[n + 1] = child
      /\ \A p \in 1..n : after[p] = processes[p] /\ p \in 1..Len(after)
      /\ \A p \in 1..Len(after) : p \in 1..n \/ p = n + 1
  <2>1. n \in Nat
    BY LenProperties
  <2>2. QED
    BY <2>1, AppendProperties
<1>. HIDE DEF after, n
<1>2. \A p \in 1..Len(after) : UnreadWritten(after[p])
  <2>1. UnreadWritten(child)
    BY EmptySeq DEF UnreadWritten
  <2>2. QED
    BY <1>1, <2>1 DEF ResultsInv, n
<1>3. \A t \in Slots : t # s => \A p : LastOf(after, t, p) <=> LastOf(processes, t, p)
  BY <1>1 DEF LastOf, n
<1>4. ASSUME NEW t \in Slots, new[t].result \in Words
      PROVE  \E p \in 1..Len(after) : LastOf(after, t, p) /\ Contains(after[p].written, new[t].result)
  <2>1. t # s /\ new[t] = slots[t]
    BY <1>4
  <2>2. PICK p : LastOf(processes, t, p) /\ Contains(processes[p].written, slots[t].result)
    BY <1>4, <2>1 DEF ResultsInv
  <2>3. p \in 1..n
    BY <2>2 DEF LastOf, n
  <2>4. QED
    BY <1>1, <1>3, <2>1, <2>2, <2>3
<1>5. ASSUME new["test"].pid # NoPid
      PROVE  after[new["test"].pid].written = words \o after[new["test"].pid].unread
  <2>1. CASE s = "test"
    <3>1. <<>> \o <<>> = <<>>
      BY EmptySeq, ConcatEmptySeq
    <3>2. QED
      BY <1>1, <2>1, <3>1 DEF n
  <2>2. CASE s # "test"
    <3>1. new["test"] = slots["test"] /\ slots["test"].pid \in 1..n
      BY <1>5, <2>2 DEF ChildrenInv, Slots, n
    <3>2. QED
      BY <1>1, <1>5, <3>1 DEF ResultsInv
  <2>3. QED
    BY <2>1, <2>2
<1>6. ASSUME NEW p, LastOf(after, "test", p)
      PROVE  words = <<>> \/ IsPrefix(words, after[p].written)
  <2>1. CASE s # "test"
    <3>1. LastOf(processes, "test", p)
      BY <1>3, <1>6, <2>1 DEF Slots
    <3>2. p \in 1..n /\ p \in 1..Len(processes)
      BY <3>1 DEF LastOf, n
    <3>3. words = <<>> \/ IsPrefix(words, processes[p].written)
      BY <3>1, <3>2 DEF ResultsInv
    <3>4. QED
      BY <1>1, <3>2, <3>3
  <2>2. QED
    BY <2>1
<1>7. (\A p \in 1..Len(after) : after[p].kind # "test") => words = <<>>
  BY <1>1 DEF ResultsInv, n
<1>8. QED
  BY <1>2, <1>4, <1>5, <1>6, <1>7 DEF ResultsInv, after

\* One process changes in what is unread or written.
LEMMA OneProcess ==
  ASSUME NEW processes \in Seq(ProcessType), NEW p \in 1..Len(processes),
         NEW child \in ProcessType, child.kind = processes[p].kind
  PROVE  /\ [processes EXCEPT ![p] = child] \in Seq(ProcessType)
         /\ Len([processes EXCEPT ![p] = child]) = Len(processes)
         /\ \A q \in 1..Len(processes) :
              [processes EXCEPT ![p] = child][q] = IF q = p THEN child ELSE processes[q]
         /\ \A s, q : LastOf([processes EXCEPT ![p] = child], s, q) <=> LastOf(processes, s, q)
<1>. DEFINE after == [processes EXCEPT ![p] = child]
<1>1. /\ after \in Seq(ProcessType) /\ Len(after) = Len(processes)
      /\ \A q \in 1..Len(processes) : after[q] = IF q = p THEN child ELSE processes[q]
  BY ExceptSeq
<1>. HIDE DEF after
<1>2. \A s, q : LastOf(after, s, q) <=> LastOf(processes, s, q)
  BY <1>1 DEF LastOf
<1>3. QED
  BY <1>1, <1>2 DEF after

\* handle_child_output for slot s: the process there is child after the read of n words.
ReadsResult(slots, new, processes, after, s, n, child) ==
  LET p == slots[s].pid
      text == processes[p].unread
  IN /\ s \in Slots /\ s # "test" /\ p # NoPid /\ n \in 1..Len(text)
     /\ child \in ProcessType /\ child.kind = s
     /\ child.written = processes[p].written
     /\ child.unread = SubSeq(text, n + 1, Len(text))
     /\ \A t \in Slots : new[t].pid = slots[t].pid /\ (t # s => new[t] = slots[t])
     /\ new[s].result = Verdict(SubSeq(text, 1, n), slots[s].result)
     /\ after = [processes EXCEPT ![p] = child]

\* A result that appears is in what the slot's process has written.
LEMMA ResultRead ==
  ASSUME NEW slots \in [Slots -> SlotType], NEW new \in [Slots -> SlotType],
         NEW processes \in Seq(ProcessType), NEW words, NEW after, NEW s, NEW n, NEW child,
         ChildrenInv(slots, processes), ResultsInv(slots, processes, words),
         ReadsResult(slots, new, processes, after, s, n, child)
  PROVE  ResultsInv(new, after, words)
<1>. DEFINE p == slots[s].pid
            text == processes[p].unread
<1>. s \in Slots \ {"test"} /\ p # NoPid /\ n \in 1..Len(text)
  BY DEF ReadsResult
<1>. child \in ProcessType /\ child.kind = s /\ child.written = processes[p].written
  BY DEF ReadsResult
<1>0. after = [processes EXCEPT ![p] = child]
  BY DEF ReadsResult
<1>1. LastOf(processes, s, p)
  BY DEF ChildrenInv, LastOf
<1>2. p \in 1..Len(processes) /\ processes[p].kind = s /\ text \in Seq(Words)
  BY <1>1, ProcessFields DEF LastOf
<1>3. /\ after \in Seq(ProcessType) /\ Len(after) = Len(processes)
      /\ \A q \in 1..Len(processes) : after[q] = IF q = p THEN child ELSE processes[q]
      /\ \A t, q : LastOf(after, t, q) <=> LastOf(processes, t, q)
  <2>. DEFINE changed == [processes EXCEPT ![p] = child]
  <2>1. /\ changed \in Seq(ProcessType) /\ Len(changed) = Len(processes)
        /\ \A q \in 1..Len(processes) : changed[q] = IF q = p THEN child ELSE processes[q]
        /\ \A t, q : LastOf(changed, t, q) <=> LastOf(processes, t, q)
    <3>1. child.kind = processes[p].kind /\ p \in 1..Len(processes)
      BY <1>2
    <3>. HIDE DEF text, p
    <3>2. QED
      BY <3>1, OneProcess
  <2>2. after = changed
    BY <1>0
  <2>3. QED
    BY <2>1, <2>2
<1>. child.unread = SubSeq(text, n + 1, Len(text))
  BY DEF ReadsResult
<1>. /\ \A t \in Slots : new[t].pid = slots[t].pid /\ (t # s => new[t] = slots[t])
     /\ new[s].result = Verdict(SubSeq(text, 1, n), slots[s].result)
  BY DEF ReadsResult
<1>4. UnreadWritten(processes[p])
  BY <1>2 DEF ResultsInv
<1>5. UnreadWritten(child)
  <2>1. SUFFICES ASSUME NEW i \in 1..Len(child.unread)
                 PROVE  \E j \in 1..Len(child.written) : child.written[j] = child.unread[i]
    BY DEF UnreadWritten
  <2>2. n + i \in 1..Len(text) /\ child.unread[i] = text[n + i]
    BY <1>2, PartsOfText
  <2>3. PICK j \in 1..Len(processes[p].written) : processes[p].written[j] = text[n + i]
    BY <1>4, <2>2 DEF UnreadWritten
  <2>4. QED
    BY <2>2, <2>3
<1>6. new[s].result \in Words =>
        new[s].result = slots[s].result \/ Contains(processes[p].written, new[s].result)
  <2>1. \A x : Contains(SubSeq(text, 1, n), x) => Contains(processes[p].written, x)
    <3>1. SUFFICES ASSUME NEW x, NEW i \in 1..Len(SubSeq(text, 1, n)), SubSeq(text, 1, n)[i] = x
                   PROVE  \E j \in 1..Len(processes[p].written) : processes[p].written[j] = x
      BY DEF Contains
    <3>2. i \in 1..n /\ text[i] = x
      BY <1>2, <3>1, PartsOfText
    <3>3. i \in 1..Len(text)
      BY <1>2, <3>2, LenProperties
    <3>4. QED
      BY <1>4, <3>2, <3>3 DEF UnreadWritten
  <2>2. \/ new[s].result = slots[s].result
        \/ Contains(SubSeq(text, 1, n), new[s].result)
    BY DEF Verdict
  <2>3. QED
    BY <2>1, <2>2
<1>7. \A q \in 1..Len(after) : UnreadWritten(after[q])
  BY <1>3, <1>5 DEF ResultsInv
<1>8. \A q \in 1..Len(processes) : after[q].written = processes[q].written
  BY <1>3
<1>9. ASSUME NEW t \in Slots, new[t].result \in Words
      PROVE  \E q \in 1..Len(after) : LastOf(after, t, q) /\ Contains(after[q].written, new[t].result)
  <2>1. CASE new[t].result = slots[t].result
    <3>1. PICK q : LastOf(processes, t, q) /\ Contains(processes[q].written, slots[t].result)
      BY <1>9, <2>1 DEF ResultsInv
    <3>2. q \in 1..Len(processes)
      BY <3>1 DEF LastOf
    <3>3. QED
      BY <1>3, <1>8, <2>1, <3>1, <3>2
  <2>2. CASE t = s /\ Contains(processes[p].written, new[s].result)
    BY <1>1, <1>2, <1>3, <1>8, <2>2
  <2>3. QED
    BY <1>6, <1>9, <2>1, <2>2
<1>10. ASSUME new["test"].pid # NoPid
       PROVE  after[new["test"].pid].written = words \o after[new["test"].pid].unread
  <2>1. new["test"].pid = slots["test"].pid /\ slots["test"].pid \in 1..Len(processes)
    BY <1>10 DEF ChildrenInv, Slots
  <2>2. processes[slots["test"].pid].kind = "test"
    BY <1>10, <2>1 DEF ChildrenInv, Slots
  <2>3. slots["test"].pid # p
    BY <1>2, <2>2
  <2>4. after[slots["test"].pid] = processes[slots["test"].pid]
    BY <1>3, <2>1, <2>3
  <2>5. processes[slots["test"].pid].written = words \o processes[slots["test"].pid].unread
    BY <1>10, <2>1 DEF ResultsInv
  <2>6. QED
    BY <2>1, <2>4, <2>5
<1>11. ASSUME NEW q, LastOf(after, "test", q)
       PROVE  words = <<>> \/ IsPrefix(words, after[q].written)
  <2>1. LastOf(processes, "test", q) /\ q \in 1..Len(processes)
    BY <1>3, <1>11 DEF LastOf
  <2>2. QED
    BY <1>8, <2>1 DEF ResultsInv
<1>12. (\A q \in 1..Len(after) : after[q].kind # "test") => words = <<>>
  BY <1>2, <1>3 DEF ResultsInv
<1>13. QED
  BY <1>7, <1>9, <1>10, <1>11, <1>12 DEF ResultsInv

\* append_test_results_chunk: the results grow by what is taken from the unread.
LEMMA ResultsAppended ==
  ASSUME NEW slots \in [Slots -> SlotType], NEW processes \in Seq(ProcessType),
         NEW words \in Seq(Words),
         ChildrenInv(slots, processes), ResultsInv(slots, processes, words),
         slots["test"].pid # NoPid,
         NEW n \in 1..Len(processes[slots["test"].pid].unread),
         NEW child \in ProcessType, child.kind = "test",
         child.written = processes[slots["test"].pid].written,
         child.unread = SubSeq(processes[slots["test"].pid].unread, n + 1,
                               Len(processes[slots["test"].pid].unread))
  PROVE  ResultsInv(slots, [processes EXCEPT ![slots["test"].pid] = child],
                    words \o SubSeq(processes[slots["test"].pid].unread, 1, n))
<1>. DEFINE p == slots["test"].pid
            text == processes[p].unread
            read == SubSeq(text, 1, n)
            after == [processes EXCEPT ![p] = child]
<1>1. LastOf(processes, "test", p)
  BY DEF ChildrenInv, LastOf, Slots
<1>2. p \in 1..Len(processes) /\ processes[p].kind = "test" /\ text \in Seq(Words)
  BY <1>1, ProcessFields DEF LastOf
<1>3. /\ after \in Seq(ProcessType) /\ Len(after) = Len(processes)
      /\ \A q \in 1..Len(processes) : after[q] = IF q = p THEN child ELSE processes[q]
      /\ \A t, q : LastOf(after, t, q) <=> LastOf(processes, t, q)
  BY <1>2, OneProcess
<1>4. UnreadWritten(processes[p]) /\ processes[p].written = words \o text
  BY <1>2 DEF ResultsInv
<1>. HIDE DEF after
<1>5. UnreadWritten(child)
  <2>1. SUFFICES ASSUME NEW i \in 1..Len(child.unread)
                 PROVE  \E j \in 1..Len(child.written) : child.written[j] = child.unread[i]
    BY DEF UnreadWritten
  <2>2. n + i \in 1..Len(text) /\ child.unread[i] = text[n + i]
    BY <1>2, PartsOfText
  <2>3. PICK j \in 1..Len(processes[p].written) : processes[p].written[j] = text[n + i]
    BY <1>4, <2>2 DEF UnreadWritten
  <2>4. QED
    BY <2>2, <2>3
<1>6. /\ read \in Seq(Words) /\ child.unread \in Seq(Words) /\ read \o child.unread = text
      /\ words \o read \in Seq(Words)
  BY SMTT(60), <1>2, PartsOfText, ConcatProperties
<1>7. child.written = (words \o read) \o child.unread
  <2>1. (words \o read) \o child.unread = words \o (read \o child.unread)
    BY <1>6, WordsInOrder
  <2>2. QED
    BY <1>4, <1>6, <2>1
<1>8. words \o read = <<>> \/ IsPrefix(words \o read, child.written)
  BY <1>6, <1>7, ConcatIsPrefix
<1>. HIDE DEF read
<1>9. \A q \in 1..Len(after) : UnreadWritten(after[q])
  BY <1>3, <1>5 DEF ResultsInv
<1>10. ASSUME NEW t \in Slots, slots[t].result \in Words
       PROVE  \E q \in 1..Len(after) : LastOf(after, t, q) /\ Contains(after[q].written, slots[t].result)
  <2>1. PICK q : LastOf(processes, t, q) /\ Contains(processes[q].written, slots[t].result)
    BY <1>10 DEF ResultsInv
  <2>2. q \in 1..Len(after) /\ after[q].written = processes[q].written
    BY <1>2, <1>3, <2>1 DEF LastOf
  <2>3. QED
    BY <1>3, <2>1, <2>2
<1>11. after[p].written = (words \o read) \o after[p].unread
  BY <1>2, <1>3, <1>7
<1>12. ASSUME NEW q, LastOf(after, "test", q)
       PROVE  words \o read = <<>> \/ IsPrefix(words \o read, after[q].written)
  <2>1. q = p
    <3>1. LastOf(processes, "test", q)
      BY <1>3, <1>12
    <3>2. q \in 1..Len(processes) /\ p \in 1..Len(processes) /\ q <= p /\ p <= q
      BY <1>1, <3>1 DEF LastOf
    <3>3. Len(processes) \in Nat
      BY LenProperties
    <3>4. QED
      BY <3>2, <3>3
  <2>2. QED
    BY <1>2, <1>3, <1>8, <2>1
<1>13. ~ \A q \in 1..Len(after) : after[q].kind # "test"
  BY <1>2, <1>3
<1>14. QED
  BY <1>9, <1>10, <1>11, <1>12, <1>13 DEF ResultsInv, after, read

\* A child writes a word, which nobody has read yet.
LEMMA WordWritten ==
  ASSUME NEW slots \in [Slots -> SlotType], NEW processes \in Seq(ProcessType),
         NEW words \in Seq(Words),
         ChildrenInv(slots, processes), ResultsInv(slots, processes, words),
         NEW p \in 1..Len(processes), NEW word \in Words,
         NEW child \in ProcessType, child.kind = processes[p].kind,
         child.written = Append(processes[p].written, word),
         child.unread = Append(processes[p].unread, word)
  PROVE  ResultsInv(slots, [processes EXCEPT ![p] = child], words)
<1>. DEFINE text == processes[p].unread
            all == processes[p].written
            after == [processes EXCEPT ![p] = child]
<1>1. text \in Seq(Words) /\ all \in Seq(Words)
  BY ProcessFields
<1>2. /\ after \in Seq(ProcessType) /\ Len(after) = Len(processes)
      /\ \A q \in 1..Len(processes) : after[q] = IF q = p THEN child ELSE processes[q]
      /\ \A t, q : LastOf(after, t, q) <=> LastOf(processes, t, q)
  BY OneProcess
<1>3. UnreadWritten(processes[p])
  BY DEF ResultsInv
<1>. HIDE DEF after
<1>4. /\ Len(text) \in Nat /\ Len(all) \in Nat
      /\ Len(child.unread) = Len(text) + 1 /\ Len(child.written) = Len(all) + 1
      /\ \A i \in 1..Len(text) : child.unread[i] = text[i]
      /\ \A i \in 1..Len(all) : child.written[i] = all[i]
      /\ child.unread[Len(text) + 1] = word /\ child.written[Len(all) + 1] = word
  BY <1>1, AppendProperties, LenProperties
<1>5. UnreadWritten(child)
  <2>1. SUFFICES ASSUME NEW i \in 1..Len(child.unread)
                 PROVE  \E j \in 1..Len(child.written) : child.written[j] = child.unread[i]
    BY DEF UnreadWritten
  <2>2. CASE i \in 1..Len(text)
    <3>1. PICK j \in 1..Len(all) : all[j] = text[i]
      BY <1>3, <2>2 DEF UnreadWritten
    <3>2. j \in 1..Len(child.written)
      BY <1>4
    <3>3. QED
      BY <1>4, <2>2, <3>1, <3>2
  <2>3. CASE i = Len(text) + 1
    <3>1. Len(all) + 1 \in 1..Len(child.written) /\ child.written[Len(all) + 1] = child.unread[i]
      BY <1>4, <2>3
    <3>2. QED
      BY <3>1
  <2>4. QED
    BY SMTT(60), <1>4, <2>2, <2>3
<1>6. \A x : Contains(all, x) => Contains(child.written, x)
  BY <1>4 DEF Contains
<1>7. \A q \in 1..Len(after) : UnreadWritten(after[q])
  BY <1>2, <1>5 DEF ResultsInv
<1>8. ASSUME NEW t \in Slots, slots[t].result \in Words
      PROVE  \E q \in 1..Len(after) : LastOf(after, t, q) /\ Contains(after[q].written, slots[t].result)
  <2>1. PICK q : LastOf(processes, t, q) /\ Contains(processes[q].written, slots[t].result)
    BY <1>8 DEF ResultsInv
  <2>2. q \in 1..Len(processes)
    BY <2>1 DEF LastOf
  <2>3. QED
    BY <1>2, <1>6, <2>1, <2>2
<1>9. ASSUME slots["test"].pid # NoPid
      PROVE  after[slots["test"].pid].written = words \o after[slots["test"].pid].unread
  <2>1. slots["test"].pid \in 1..Len(processes)
    BY <1>9 DEF ChildrenInv, Slots
  <2>2. processes[slots["test"].pid].written = words \o processes[slots["test"].pid].unread
    BY <1>9 DEF ResultsInv
  <2>3. Append(words \o text, word) = words \o Append(text, word)
    BY <1>1, WordsInOrder
  <2>4. CASE slots["test"].pid = p
    BY <1>2, <2>2, <2>3, <2>4
  <2>5. CASE slots["test"].pid # p
    BY <1>2, <2>1, <2>2, <2>5
  <2>6. QED
    BY <2>4, <2>5
<1>10. ASSUME NEW q, LastOf(after, "test", q)
       PROVE  words = <<>> \/ IsPrefix(words, after[q].written)
  <2>1. LastOf(processes, "test", q) /\ q \in 1..Len(processes)
    BY <1>2, <1>10 DEF LastOf
  <2>2. words = <<>> \/ IsPrefix(words, processes[q].written)
    BY <2>1 DEF ResultsInv
  <2>3. IsPrefix(words, all) => IsPrefix(words, child.written)
    BY <1>1, PrefixGrows
  <2>4. QED
    BY <1>2, <2>1, <2>2, <2>3
<1>11. (\A q \in 1..Len(after) : after[q].kind # "test") => words = <<>>
  BY <1>2 DEF ResultsInv
<1>12. QED
  BY <1>7, <1>8, <1>9, <1>10, <1>11 DEF ResultsInv, after

-----------------------------------------------------------------------------
(***************************************************************************)
(* The inductive invariant.                                                *)
(***************************************************************************)

\* All that is said of slots, processes, descriptors, flow and test results, for the
\* present ones and for those in the middle of a request.
StateInv(slots, processes, table, sockets, flow, words) ==
  /\ slots \in [Slots -> SlotType] /\ processes \in Seq(ProcessType)
  /\ table \in [Fds -> Entries] /\ flow \in Nat /\ words \in Seq(Words)
  /\ DescriptorsInv(slots, table, sockets)
  /\ ChildrenInv(slots, processes)
  /\ FlowInv(slots, processes, flow)
  /\ ResultsInv(slots, processes, words)

\* The bounds of the environment: each flow was a start or a failure.
Bounded(env, processes, flow, failed) ==
  /\ Len(processes) <= env.forks /\ failed <= env.failures
  /\ flow <= Len(processes) + failed
  /\ \A p \in 1..Len(processes) :
       /\ processes[p].flow <= env.forks + env.failures
       /\ Len(processes[p].written) <= env.writes

\* accept has returned a descriptor for the request under way.
Connectable == phase \in {"reading", "request"} => FreeFds(files) # {}

Typed ==
  /\ limits \in Environments /\ phase \in Phases /\ ready \subseteq Fds
  /\ ws \in Fds \cup {NoFd} /\ failures \in Nat

IInv ==
  /\ Typed /\ Connectable
  /\ StateInv(slot, process, files, {ws}, runSeq, results)
  /\ Bounded(limits, process, runSeq, failures)

LEMMA LimitsType ==
  ASSUME limits \in Environments
  PROVE  /\ limits.forks \in Nat /\ limits.writes \in Nat /\ limits.failures \in Nat
BY BoundsAssumption

\* What the invariant says.
LEMMA IInvImplies ==
  ASSUME IInv
  PROVE  TypeOK /\ DescriptorsOwned /\ ChildrenInSlots /\ ResultsOfLastRun /\ FlowAlignsLogs
<1>1. /\ slot \in [Slots -> SlotType] /\ process \in Seq(ProcessType)
      /\ files \in [Fds -> Entries] /\ runSeq \in Nat /\ results \in Seq(Words)
      /\ DescriptorsInv(slot, files, {ws}) /\ ChildrenInv(slot, process)
      /\ FlowInv(slot, process, runSeq) /\ ResultsInv(slot, process, results)
  BY DEF IInv, StateInv
<1>2. /\ limits.forks \in Nat /\ limits.writes \in Nat /\ limits.failures \in Nat
      /\ Len(process) \in Nat /\ failures \in Nat
  BY <1>1, LimitsType, LenProperties DEF IInv, Typed
<1>3. /\ Len(process) <= limits.forks /\ failures <= limits.failures
      /\ runSeq <= Len(process) + failures
      /\ \A p \in 1..Len(process) : /\ process[p].flow <= limits.forks + limits.failures
                                    /\ Len(process[p].written) <= limits.writes
  BY DEF IInv, Bounded
<1>4. \A s \in Slots : slot[s].pid \in 0..Len(process)
  BY <1>1, <1>2 DEF ChildrenInv, SlotType, NoPid
<1>5. DescriptorsOwned
  BY <1>1 DEF DescriptorsInv, Owned, DescriptorsOwned, HeldBy, Held, Occupied
<1>6. ChildrenInSlots
  BY <1>1 DEF ChildrenInv, ChildrenInSlots, Pids, Running, Exited, Alive
<1>7. FlowAlignsLogs
  <2>1. FlowShared
    BY <1>1 DEF FlowInv, FlowShared, Pids, Running, Active
  <2>2. FlowIdentifiesServer
    BY <1>1 DEF FlowInv, FlowIdentifiesServer, Pids, LoggedServer, Traced
  <2>3. QED
    BY <2>1, <2>2 DEF FlowAlignsLogs
<1>8. ResultFromLastRun
  <2>1. SUFFICES ASSUME NEW s \in Slots, slot[s].result \in Words
                 PROVE  Latest(s) # 0 /\ Contains(process[Latest(s)].written, slot[s].result)
    BY DEF ResultFromLastRun
  <2>2. PICK p : LastOf(process, s, p) /\ Contains(process[p].written, slot[s].result)
    BY <1>1, <2>1 DEF ResultsInv
  <2>3. QED
    BY <1>1, <2>2, LastIsLatest
<1>9. ResultsOfLastRunner /\ Len(results) <= limits.writes
  <2>1. CASE Latest("test") = 0
    <3>1. \A p \in 1..Len(process) : process[p].kind # "test"
      <4>1. SUFFICES ASSUME NEW q \in 1..Len(process), process[q].kind = "test"
                     PROVE  Latest("test") # 0
        BY <2>1
      <4>. DEFINE P == {p \in 1..Len(process) : process[p].kind = "test"}
      <4>2. \E m \in P : \A j \in P : j <= m
        <5>1. P \subseteq 0..Len(process) /\ P # {}
          BY <1>2, <4>1
        <5>2. QED
          BY <1>2, <5>1, Greatest
      <4>3. PICK m \in P : \A j \in P : j <= m
        BY <4>2
      <4>4. LastOf(process, "test", m)
        BY <4>3 DEF LastOf
      <4>5. QED
        BY <1>1, <4>4, LastIsLatest DEF Slots
    <3>2. results = <<>>
      BY <1>1, <3>1 DEF ResultsInv
    <3>3. QED
      BY <1>2, <2>1, <3>2, EmptySeq DEF ResultsOfLastRunner
  <2>2. CASE Latest("test") # 0
    <3>1. LastOf(process, "test", Latest("test"))
      BY <1>1, <2>2, LastIsLatest DEF Slots
    <3>2. results = <<>> \/ IsPrefix(results, process[Latest("test")].written)
      <4>1. Latest("test") \in 1..Len(process)
        BY <3>1 DEF LastOf
      <4>2. QED
        BY <1>1, <3>1, <4>1 DEF ResultsInv
    <3>3. Len(process[Latest("test")].written) <= limits.writes
      BY <1>3, <3>1 DEF LastOf
    <3>4. Len(process[Latest("test")].written) \in Nat /\ Len(results) \in Nat
      BY <1>1, <3>1, ProcessFields, LenProperties DEF LastOf
    <3>5. Len(results) <= limits.writes
      <4>1. CASE results = <<>>
        BY <1>2, <4>1, EmptySeq
      <4>2. CASE IsPrefix(results, process[Latest("test")].written)
        BY <1>2, <3>3, <3>4, <4>2 DEF IsPrefix
      <4>3. QED
        BY <3>2, <4>1, <4>2
    <3>6. QED
      BY <2>2, <3>2, <3>5 DEF ResultsOfLastRunner
  <2>3. QED
    BY <2>1, <2>2
<1>10. TypeOK
  <2>1. slot \in [Slots -> [pid : 0..limits.forks, out : Fds \cup {NoFd}, err : Fds \cup {NoFd},
                            in : Fds \cup {NoFd}, result : Words \cup {"Pending", "Stopped"}]]
    <3>1. \A s \in Slots : slot[s].pid \in 0..limits.forks
      BY <1>2, <1>3, <1>4
    <3>2. QED
      BY <1>1, <3>1 DEF SlotType, Results
  <2>2. files \in [Fds -> {Free, Socket, Lost} \cup 1..limits.forks]
    <3>1. ASSUME NEW f \in Fds, files[f] \notin {Free, Socket, Lost}
          PROVE  files[f] \in 1..limits.forks
      <4>1. files[f] \in Nat /\ files[f] > 0
        BY <1>1, <3>1 DEF Entries, Free
      <4>2. PICK s \in Slots : slot[s].pid = files[f]
        BY <1>1, <4>1 DEF DescriptorsInv, Owned
      <4>3. QED
        BY <1>2, <1>3, <1>4, <4>1, <4>2
    <3>2. QED
      BY <1>1, <3>1
  <2>3. process \in Seq([kind : Slots, state : {"running", "exited", "killed", "reaped"},
                         flow : 0..(limits.forks + limits.failures), unread : Seq(Words),
                         written : Seq(Words), logged : BOOLEAN, orphan : BOOLEAN])
    <3>. DEFINE Kind == [kind : Slots, state : {"running", "exited", "killed", "reaped"},
                          flow : 0..(limits.forks + limits.failures), unread : Seq(Words),
                          written : Seq(Words), logged : BOOLEAN, orphan : BOOLEAN]
    <3>1. ASSUME NEW p \in 1..Len(process)
          PROVE  process[p] \in Kind
      <4>1. process[p] \in ProcessType /\ process[p].flow <= limits.forks + limits.failures
        BY <1>1, <1>3, ProcessFields
      <4>2. QED
        BY <1>2, <4>1 DEF ProcessType, States
    <3>2. process \in [1..Len(process) -> Kind]
      <4>1. process \in [1..Len(process) -> ProcessType]
        BY <1>1, LenProperties
      <4>2. QED
        BY <3>1, <4>1
    <3>. HIDE DEF Kind
    <3>3. process \in Seq(Kind)
      BY <1>2, <3>2
    <3>4. QED
      BY <3>3 DEF Kind
  <2>4. QED
    BY <1>1, <1>2, <1>3, <1>9, <2>1, <2>2, <2>3 DEF TypeOK, IInv, Typed
<1>11. QED
  BY <1>5, <1>6, <1>7, <1>8, <1>9, <1>10 DEF ResultsOfLastRun

-----------------------------------------------------------------------------
(***************************************************************************)
(* Stopping and reaping.                                                   *)
(***************************************************************************)

LEMMA FunctionIsSeq ==
  ASSUME NEW n \in Nat, NEW T, NEW f \in [1..n -> T]
  PROVE  f \in Seq(T) /\ Len(f) = n
<1>1. f \in Seq(T)
  OBVIOUS
<1>2. DOMAIN f = 1..n /\ DOMAIN f = 1..Len(f) /\ Len(f) \in Nat
  BY <1>1, LenProperties
<1>3. QED
  BY <1>1, <1>2

\* What is written and read stays, and what a slot held is closed.
Retains(processes, after) ==
  /\ Continues(processes, after)
  /\ \A p \in 1..Len(processes) :
       after[p].unread = processes[p].unread /\ after[p].written = processes[p].written

LEMMA EmptyingKeeps ==
  ASSUME NEW slots, NEW processes, NEW table, NEW sockets, NEW flow, NEW words,
         StateInv(slots, processes, table, sockets, flow, words),
         NEW new \in [Slots -> SlotType], NEW after \in Seq(ProcessType),
         NEW closed \in [Fds -> Entries],
         \A s \in Slots : Drops(slots[s], new[s]),
         \A s \in Slots : new[s].result \in Words => new[s].result = slots[s].result,
         Retains(processes, after),
         \A p \in 1..Len(processes) : \A s \in Slots :
           Alive(after[p]) /\ slots[s].pid = p => new[s].pid = p,
         \A f \in Fds : closed[f] = IF Dropped(slots, new, f) THEN Free ELSE table[f]
  PROVE  StateInv(new, after, closed, sockets, flow, words)
<1>1. /\ slots \in [Slots -> SlotType] /\ processes \in Seq(ProcessType)
      /\ table \in [Fds -> Entries] /\ flow \in Nat /\ words \in Seq(Words)
      /\ DescriptorsInv(slots, table, sockets) /\ ChildrenInv(slots, processes)
      /\ FlowInv(slots, processes, flow) /\ ResultsInv(slots, processes, words)
  BY DEF StateInv
<1>2. \A s \in Slots : new[s].pid \in {NoPid, slots[s].pid}
  BY DEF Drops
<1>3. new["server"].pid \in {NoPid, slots["server"].pid} /\ new["test"].pid \in {NoPid, slots["test"].pid}
  BY <1>2 DEF Slots
<1>4. Continues(processes, after)
  BY DEF Retains
<1>5. DescriptorsInv(new, closed, sockets)
  BY <1>1, DropKeepsOwned
<1>6. ChildrenInv(new, after)
  BY <1>1, <1>2, <1>4, ChildrenKept
<1>7. FlowInv(new, after, flow)
  BY <1>1, <1>3, <1>4, FlowKept
<1>8. ResultsInv(new, after, words)
  <2>1. /\ Len(after) = Len(processes)
        /\ \A p \in 1..Len(processes) :
             /\ after[p].kind = processes[p].kind
             /\ after[p].unread = processes[p].unread /\ after[p].written = processes[p].written
    BY DEF Retains, Continues
  <2>2. QED
    BY <1>1, <1>3, <2>1, ResultsKept
<1>9. QED
  BY <1>1, <1>5, <1>6, <1>7, <1>8 DEF StateInv

\* The descriptors of the slots in S are closed when these are emptied.
LEMMA ClosedWhenEmptied ==
  ASSUME NEW S \in SUBSET Slots, NEW table \in [Fds -> Entries],
         NEW new \in [Slots -> SlotType],
         \A s \in S : new[s].out = NoFd /\ new[s].err = NoFd /\ new[s].in = NoFd,
         \A s \in Slots \ S : new[s] = slot[s]
  PROVE  /\ Closing(table, UNION {Held(s) : s \in S}) \in [Fds -> Entries]
         /\ \A f \in Fds : Closing(table, UNION {Held(s) : s \in S})[f] =
              IF Dropped(slot, new, f) THEN Free ELSE table[f]
<1>1. \A s \in S : HeldBy(new, s) = {}
  BY DEF HeldBy
<1>2. \A s \in Slots \ S : HeldBy(new, s) = HeldBy(slot, s)
  BY DEF HeldBy
<1>3. \A s \in Slots : Held(s) = HeldBy(slot, s)
  BY DEF Held, HeldBy
<1>4. \A f : f \in UNION {Held(s) : s \in S} <=> Dropped(slot, new, f)
  BY <1>1, <1>2, <1>3 DEF Dropped
<1>5. QED
  BY <1>4 DEF Closing, Entries

\* stop_child ends the processes of the slots in S.
LEMMA StoppedChildren ==
  ASSUME process \in Seq(ProcessType), NEW S, NEW late
  PROVE  /\ StoppedProcesses(S, late) \in Seq(ProcessType)
         /\ Len(StoppedProcesses(S, late)) = Len(process)
         /\ \A p \in 1..Len(process) :
              /\ ~(\A s \in S : slot[s].pid # p) => ~Alive(StoppedProcesses(S, late)[p])
              /\ (\A s \in S : slot[s].pid # p) => StoppedProcesses(S, late)[p] = process[p]
              /\ StoppedProcesses(S, late)[p].orphan = process[p].orphan
         /\ Retains(process, StoppedProcesses(S, late))
<1>. DEFINE n == Len(process)
            after == StoppedProcesses(S, late)
            In(p) == ~(\A s \in S : slot[s].pid # p)
            end(p) == IF p \in late THEN "killed" ELSE "reaped"
<1>1. n \in Nat /\ \A p \in 1..n : process[p] \in ProcessType
  BY ProcessFields, LenProperties
<1>2. after = [p \in 1..n |-> IF ~In(p) THEN process[p] ELSE [process[p] EXCEPT !.state = end(p)]]
  BY DEF StoppedProcesses, Pids
<1>. HIDE DEF In, after
<1>3. \A p \in 1..n : /\ after[p] \in ProcessType
                      /\ after[p].kind = process[p].kind /\ after[p].flow = process[p].flow
                      /\ after[p].unread = process[p].unread /\ after[p].written = process[p].written
                      /\ after[p].logged = process[p].logged
                      /\ after[p].orphan = process[p].orphan
                      /\ In(p) => after[p].state \in {"killed", "reaped"}
                      /\ ~In(p) => after[p] = process[p]
  BY <1>1, <1>2 DEF ProcessType, States
<1>4. after \in Seq(ProcessType) /\ Len(after) = n
  <2>1. after \in [1..n -> ProcessType]
    BY <1>2, <1>3
  <2>. HIDE DEF n
  <2>2. QED
    BY <1>1, <2>1, FunctionIsSeq
<1>5. \A p \in 1..n : /\ In(p) => ~Alive(after[p])
                      /\ Alive(after[p]) => Alive(process[p])
                      /\ Active(after[p]) => Active(process[p])
                      /\ Traced(after[p]) => Traced(process[p])
  BY <1>3 DEF Alive, Active, Traced
<1>6. Retains(process, after)
  BY <1>3, <1>4, <1>5 DEF Retains, Continues
<1>7. QED
  BY <1>3, <1>4, <1>5, <1>6 DEF In, after

LEMMA StoppedSlotsEmpty ==
  ASSUME slot \in [Slots -> SlotType], NEW S \in SUBSET Slots
  PROVE  /\ StoppedSlots(S) \in [Slots -> SlotType]
         /\ \A s \in S : /\ StoppedSlots(S)[s].pid = NoPid /\ StoppedSlots(S)[s].out = NoFd
                         /\ StoppedSlots(S)[s].err = NoFd /\ StoppedSlots(S)[s].in = NoFd
                         /\ StoppedSlots(S)[s].result \in {"Stopped", slot[s].result}
         /\ \A s \in Slots \ S : StoppedSlots(S)[s] = slot[s]
<1>1. \A s \in Slots : slot[s] \in SlotType /\ slot[s].result \in Results
  BY DEF SlotType
<1>2. \A s \in Slots : StoppedSlots(S)[s] =
        IF s \notin S THEN slot[s] ELSE Empty(IF Occupied(s) THEN "Stopped" ELSE slot[s].result)
  BY DEF StoppedSlots
<1>3. \A r \in Results : Empty(r) \in SlotType /\ Empty(r).result = r
  BY DEF Empty, SlotType, NoPid
<1>4. \A s \in Slots : StoppedSlots(S)[s] \in SlotType
  BY <1>1, <1>2, <1>3 DEF Results
<1>5. \A s \in S : /\ StoppedSlots(S)[s].pid = NoPid /\ StoppedSlots(S)[s].out = NoFd
                   /\ StoppedSlots(S)[s].err = NoFd /\ StoppedSlots(S)[s].in = NoFd
                   /\ StoppedSlots(S)[s].result \in {"Stopped", slot[s].result}
  <2>1. TAKE s \in S
  <2>2. s \in Slots
    OBVIOUS
  <2>3. PICK r \in {"Stopped", slot[s].result} : StoppedSlots(S)[s] = Empty(r)
    BY <1>2, <2>2
  <2>4. QED
    BY <2>3 DEF Empty
<1>6. StoppedSlots(S) \in [Slots -> SlotType]
  BY <1>4 DEF StoppedSlots
<1>7. QED
  BY <1>2, <1>5, <1>6

\* stop_child for the slots in S keeps everything, whatever the table and the results are.
LEMMA StopKeeps ==
  ASSUME NEW table, NEW sockets, NEW flow, NEW words,
         StateInv(slot, process, table, sockets, flow, words),
         NEW S \in SUBSET Slots, NEW late
  PROVE  StateInv(StoppedSlots(S), StoppedProcesses(S, late), StoppedFiles(S, table),
                  sockets, flow, words)
<1>. DEFINE new == StoppedSlots(S)
            after == StoppedProcesses(S, late)
            closed == StoppedFiles(S, table)
<1>1. slot \in [Slots -> SlotType] /\ process \in Seq(ProcessType) /\ table \in [Fds -> Entries]
  BY DEF StateInv
<1>2. /\ new \in [Slots -> SlotType]
      /\ \A s \in S : /\ new[s].pid = NoPid /\ new[s].out = NoFd
                      /\ new[s].err = NoFd /\ new[s].in = NoFd
                      /\ new[s].result \in {"Stopped", slot[s].result}
      /\ \A s \in Slots \ S : new[s] = slot[s]
  BY <1>1, StoppedSlotsEmpty
<1>3. /\ after \in Seq(ProcessType) /\ Retains(process, after)
      /\ \A p \in 1..Len(process) : ~(\A s \in S : slot[s].pid # p) => ~Alive(after[p])
  BY <1>1, StoppedChildren
<1>4. /\ closed \in [Fds -> Entries]
      /\ \A f \in Fds : closed[f] = IF Dropped(slot, new, f) THEN Free ELSE table[f]
  BY <1>1, <1>2, ClosedWhenEmptied DEF StoppedFiles
<1>. HIDE DEF new, after, closed
<1>5. \A s \in Slots : Drops(slot[s], new[s])
  BY <1>2 DEF Drops
<1>6. \A s \in Slots : new[s].result \in Words => new[s].result = slot[s].result
  BY <1>2 DEF Words
<1>7. \A p \in 1..Len(process) : \A s \in Slots :
        Alive(after[p]) /\ slot[s].pid = p => new[s].pid = p
  BY <1>2, <1>3
<1>8. StateInv(new, after, closed, sockets, flow, words)
  BY <1>2, <1>3, <1>4, <1>5, <1>6, <1>7, EmptyingKeeps
<1>9. QED
  BY <1>8 DEF new, after, closed

\* reap_child ends the processes that have exited, and empties their slots.
LEMMA ReapedState ==
  ASSUME StateInv(slot, process, files, {ws}, runSeq, results), NEW S \in SUBSET Slots
  PROVE  /\ ReapedSlots(S) \in [Slots -> SlotType]
         /\ \A s \in Slots : /\ Drops(slot[s], ReapedSlots(S)[s])
                             /\ ReapedSlots(S)[s].result = slot[s].result
         /\ \A s \in Reapable(S) :
              /\ ReapedSlots(S)[s].pid = NoPid /\ ReapedSlots(S)[s].out = NoFd
              /\ ReapedSlots(S)[s].err = NoFd /\ ReapedSlots(S)[s].in = NoFd
         /\ \A s \in Slots \ Reapable(S) : ReapedSlots(S)[s] = slot[s]
         /\ ReapedProcesses(S) \in Seq(ProcessType)
         /\ Retains(process, ReapedProcesses(S))
         /\ \A p \in 1..Len(process) : \A s \in Reapable(S) :
              slot[s].pid = p => ~Alive(ReapedProcesses(S)[p])
         /\ ReapedFiles(S) \in [Fds -> Entries]
         /\ \A f \in Fds : ReapedFiles(S)[f] =
              IF Dropped(slot, ReapedSlots(S), f) THEN Free ELSE files[f]
<1>. DEFINE n == Len(process)
            R == Reapable(S)
            new == ReapedSlots(S)
            after == ReapedProcesses(S)
            In(p) == \E s \in R : slot[s].pid = p
<1>1. slot \in [Slots -> SlotType] /\ process \in Seq(ProcessType) /\ files \in [Fds -> Entries]
  BY DEF StateInv
<1>2. R \in SUBSET Slots
  BY DEF Reapable
<1>3. /\ new \in [Slots -> SlotType]
      /\ \A s \in R : /\ new[s].pid = NoPid /\ new[s].out = NoFd
                      /\ new[s].err = NoFd /\ new[s].in = NoFd /\ new[s].result = slot[s].result
      /\ \A s \in Slots \ R : new[s] = slot[s]
  <2>1. \A s \in Slots : slot[s] \in SlotType /\ slot[s].result \in Results
    BY <1>1 DEF SlotType
  <2>2. \A s \in Slots : new[s] = IF s \in R THEN Empty(slot[s].result) ELSE slot[s]
    BY DEF ReapedSlots
  <2>3. \A r \in Results : Empty(r) \in SlotType
    BY DEF Empty, SlotType, NoPid
  <2>4. \A s \in Slots : new[s] \in SlotType
    BY <2>1, <2>2, <2>3
  <2>5. new \in [Slots -> SlotType]
    BY <2>4 DEF ReapedSlots
  <2>6. QED
    BY <1>2, <2>2, <2>5 DEF Empty
<1>4. after = [p \in 1..n |-> IF In(p) THEN [process[p] EXCEPT !.state = "reaped"] ELSE process[p]]
  BY DEF ReapedProcesses, Pids
<1>5. n \in Nat /\ \A p \in 1..n : process[p] \in ProcessType
  BY <1>1, ProcessFields, LenProperties
<1>6. /\ ReapedFiles(S) \in [Fds -> Entries]
      /\ \A f \in Fds : ReapedFiles(S)[f] = IF Dropped(slot, new, f) THEN Free ELSE files[f]
  BY <1>1, <1>2, <1>3, ClosedWhenEmptied DEF ReapedFiles, ClosedAtReap
<1>. HIDE DEF In, after, new, R
<1>7. \A p \in 1..n : /\ after[p] \in ProcessType
                      /\ after[p].kind = process[p].kind /\ after[p].flow = process[p].flow
                      /\ after[p].unread = process[p].unread /\ after[p].written = process[p].written
                      /\ after[p].logged = process[p].logged
                      /\ after[p].orphan = process[p].orphan
                      /\ In(p) => after[p].state = "reaped"
                      /\ ~In(p) => after[p] = process[p]
  BY <1>4, <1>5 DEF ProcessType, States
<1>8. after \in Seq(ProcessType) /\ Len(after) = n
  <2>1. after \in [1..n -> ProcessType]
    BY <1>4, <1>7
  <2>. HIDE DEF n
  <2>2. QED
    BY <1>5, <2>1, FunctionIsSeq
<1>9. \A p \in 1..n : /\ In(p) => ~Alive(after[p])
                      /\ Alive(after[p]) => Alive(process[p])
                      /\ Active(after[p]) => Active(process[p])
                      /\ Traced(after[p]) => Traced(process[p])
  BY <1>7 DEF Alive, Active, Traced
<1>10. Retains(process, after)
  BY <1>7, <1>8, <1>9 DEF Retains, Continues
<1>11. \A s \in Slots : Drops(slot[s], new[s]) /\ new[s].result = slot[s].result
  BY <1>3 DEF Drops
<1>12. \A p \in 1..n : \A s \in R : slot[s].pid = p => ~Alive(after[p])
  BY <1>9 DEF In
<1>13. QED
  BY <1>3, <1>6, <1>8, <1>10, <1>11, <1>12 DEF after, new, R

-----------------------------------------------------------------------------
(***************************************************************************)
(* Starting.                                                               *)
(***************************************************************************)

\* A flow number that is skipped identifies nobody.
LEMMA FlowAdvances ==
  ASSUME NEW slots, NEW processes \in Seq(ProcessType), NEW flow \in Nat, NEW next \in Nat,
         FlowInv(slots, processes, flow), flow <= next,
         slots["server"].pid # NoPid => next = flow
  PROVE  FlowInv(slots, processes, next)
<1>1. \A p \in 1..Len(processes) : processes[p].flow \in Nat
  BY ProcessFields
<1>2. \A p \in 1..Len(processes) :
        processes[p].kind = "server" /\ Traced(processes[p]) => processes[p].flow <= next
  BY <1>1 DEF FlowInv
<1>3. QED
  BY <1>2 DEF FlowInv

\* The process that start_child starts.
NewChild(s, flow) ==
  [kind |-> s, state |-> "running", flow |-> flow, unread |-> <<>>, written |-> <<>>,
   logged |-> TRUE, orphan |-> FALSE]

LEMMA NewChildType ==
  ASSUME NEW s \in Slots, NEW flow \in Nat
  PROVE  /\ NewChild(s, flow) \in ProcessType
         /\ NewChild(s, flow).kind = s /\ NewChild(s, flow).flow = flow
         /\ NewChild(s, flow).unread = <<>> /\ NewChild(s, flow).written = <<>>
<1>1. <<>> \in Seq(Words)
  BY EmptySeq
<1>2. QED
  BY <1>1 DEF NewChild, ProcessType, States

\* The pipes of a new child are free descriptors, all different.
LEMMA NewPipes ==
  ASSUME NEW table, NEW interactive \in BOOLEAN,
         Cardinality(FreeFds(table)) >= IF interactive THEN 6 ELSE 4,
         NEW out, NEW err, NEW input, out = NthFree(table, 1), err = NthFree(table, 3),
         input = IF interactive THEN NthFree(table, 6) ELSE NoFd
  PROVE  /\ out \in Fds /\ table[out] = Free /\ err \in Fds /\ table[err] = Free
         /\ input \in Fds \cup {NoFd} /\ (input # NoFd => table[input] = Free)
         /\ out # err /\ out # input /\ err # input
<1>1. Cardinality(FreeFds(table)) \in Nat
  BY FreeFdsCounted
<1>2. 1 <= Cardinality(FreeFds(table)) /\ 3 <= Cardinality(FreeFds(table))
  BY <1>1
<1>3. out \in Fds /\ table[out] = Free /\ err \in Fds /\ table[err] = Free
  <2>1. out \in Fds /\ table[out] = Free
    BY <1>2, NthFreeIsFree
  <2>2. err \in Fds /\ table[err] = Free
    BY <1>2, NthFreeIsFree
  <2>3. QED
    BY <2>1, <2>2
<1>4. out # err
  BY <1>2, NthFreeDiffer
<1>5. NoFd \notin Fds
  BY BoundsAssumption DEF Fds, NoFd
<1>6. CASE interactive
  <2>1. 6 <= Cardinality(FreeFds(table)) /\ input = NthFree(table, 6)
    BY <1>1, <1>6
  <2>2. input \in Fds /\ table[input] = Free
    BY <2>1, NthFreeIsFree
  <2>3. out # input
    BY <1>2, <2>1, NthFreeDiffer
  <2>4. err # input
    BY <1>2, <2>1, NthFreeDiffer
  <2>5. QED
    BY <1>3, <1>4, <2>2, <2>3, <2>4
<1>7. CASE ~interactive
  BY <1>3, <1>4, <1>5, <1>7
<1>8. QED
  BY <1>6, <1>7

\* What holds when a request comes to start_child for slot s: before is run_seq as the
\* request found it, next as it leaves it, and flow the run the child writes to.
StartAllowed(slots, processes, table, words, before, next, flow, s) ==
  /\ limits \in Environments /\ failures \in Nat
  /\ before \in Nat /\ next \in Nat /\ flow \in Nat /\ s \in Slots
  /\ StateInv(slots, processes, table, {ws, Connection}, before, words)
  /\ Bounded(limits, processes, before, failures)
  /\ Connection # ws
  /\ slots[s].pid = NoPid /\ (s = "test" => words = <<>>)
  /\ before <= next /\ next <= before + 1 /\ (s = "server" => next = before + 1)
  /\ (slots["server"].pid # NoPid => next = before)
  /\ flow <= next /\ (s # "test" => flow = next)

\* start_child when it succeeds: next is the experiment's flow after it, and flow the one
\* the child is given.
LEMMA StartedKeeps ==
  ASSUME NEW slots, NEW processes, NEW table, NEW words,
         NEW before, NEW next, NEW flow, NEW s, NEW interactive \in BOOLEAN,
         StartAllowed(slots, processes, table, words, before, next, flow, s),
         Started(s, slots, processes, table, interactive, flow)
  PROVE  /\ StateInv(slot', process', files', {ws}, next, words)
         /\ Bounded(limits, process', next, failures')
<1>. /\ limits \in Environments /\ failures \in Nat
     /\ before \in Nat /\ next \in Nat /\ flow \in Nat /\ s \in Slots
     /\ StateInv(slots, processes, table, {ws, Connection}, before, words)
     /\ Bounded(limits, processes, before, failures)
     /\ Connection # ws
     /\ slots[s].pid = NoPid /\ (s = "test" => words = <<>>)
     /\ before <= next /\ next <= before + 1 /\ (s = "server" => next = before + 1)
     /\ (slots["server"].pid # NoPid => next = before)
     /\ flow <= next /\ (s # "test" => flow = next)
  BY DEF StartAllowed
<1>1. /\ slots \in [Slots -> SlotType] /\ processes \in Seq(ProcessType)
      /\ table \in [Fds -> Entries] /\ words \in Seq(Words)
      /\ DescriptorsInv(slots, table, {ws, Connection}) /\ ChildrenInv(slots, processes)
      /\ FlowInv(slots, processes, before) /\ ResultsInv(slots, processes, words)
  BY DEF StateInv
<1>. DEFINE n == Len(processes)
            child == NewChild(s, flow)
            out == NthFree(table, 1)
            err == NthFree(table, 3)
            input == IF interactive THEN NthFree(table, 6) ELSE NoFd
            record == [pid |-> n + 1, out |-> out, err |-> err, in |-> input, result |-> "Pending"]
            new == [slots EXCEPT ![s] = record]
            opened == Opening(table, {out, err, input} \ {NoFd}, n + 1)
<1>2. /\ n < limits.forks /\ Cardinality(FreeFds(table)) >= IF interactive THEN 6 ELSE 4
      /\ slot' = new /\ process' = Append(processes, child)
      /\ files' = Closing(opened, {Connection}) /\ failures' = failures
  BY DEF Started, InitialResult, NewChild
<1>3. n \in Nat /\ limits.forks \in Nat /\ limits.writes \in Nat /\ limits.failures \in Nat
  BY <1>1, LenProperties, LimitsType
<1>4. /\ out \in Fds /\ table[out] = Free /\ err \in Fds /\ table[err] = Free
      /\ input \in Fds \cup {NoFd} /\ (input # NoFd => table[input] = Free)
      /\ out # err /\ out # input /\ err # input
  <2>. HIDE DEF out, err, input
  <2>1. out = NthFree(table, 1) /\ err = NthFree(table, 3)
        /\ input = IF interactive THEN NthFree(table, 6) ELSE NoFd
    BY DEF out, err, input
  <2>2. QED
    BY <1>2, <2>1, NewPipes
<1>5. child \in ProcessType /\ child.kind = s /\ child.flow = flow
      /\ child.unread = <<>> /\ child.written = <<>>
  BY NewChildType
<1>. HIDE DEF n, child, out, err, input
<1>6. record \in SlotType
  BY <1>3, <1>4 DEF SlotType, Results
<1>. HIDE DEF record
<1>7. /\ new \in [Slots -> SlotType] /\ new[s] = record
      /\ \A t \in Slots : t # s => new[t] = slots[t]
  BY <1>1, <1>6
<1>8. /\ record.pid = n + 1 /\ record.out = out /\ record.err = err /\ record.in = input
      /\ record.result = "Pending"
  BY DEF record
<1>. HIDE DEF new
<1>9. HeldBy(new, s) = {out, err, input} \ {NoFd}
  BY <1>7, <1>8 DEF HeldBy
<1>10. /\ opened \in [Fds -> Entries]
       /\ \A f \in Fds : opened[f] = IF f \in HeldBy(new, s) THEN n + 1 ELSE table[f]
  BY <1>1, <1>3, <1>9 DEF Opening, Entries
<1>11. DescriptorsInv(new, opened, {ws, Connection})
  <2>1. \A t \in Slots : slots[t].pid # n + 1
    BY <1>1, <1>3 DEF ChildrenInv, NoPid, n
  <2>2. \A f \in HeldBy(new, s) : table[f] = Free
    BY <1>4, <1>9
  <2>3. FieldsDiffer(new)
    BY <1>1, <1>4, <1>7, <1>8 DEF DescriptorsInv, FieldsDiffer
  <2>4. new[s].pid = n + 1 /\ n + 1 > 0
    BY <1>3, <1>7, <1>8
  <2>. DEFINE sockets == {ws, Connection}
  <2>5. DescriptorsInv(slots, table, sockets)
    BY <1>1
  <2>. HIDE DEF opened, sockets
  <2>6. /\ new[s].pid > 0 /\ \A t \in Slots : slots[t].pid # new[s].pid
        /\ \A f \in Fds : opened[f] = IF f \in HeldBy(new, s) THEN new[s].pid ELSE table[f]
    BY <1>10, <2>1, <2>4
  <2>7. /\ slots \in [Slots -> SlotType] /\ new \in [Slots -> SlotType]
        /\ table \in [Fds -> Entries] /\ opened \in [Fds -> Entries]
    BY <1>1, <1>7, <1>10
  <2>8. s \in Slots /\ slots[s].pid = NoPid /\ \A t \in Slots : t # s => new[t] = slots[t]
    BY <1>7
  <2>9. DescriptorsInv(new, opened, sockets)
    BY <2>2, <2>3, <2>5, <2>6, <2>7, <2>8, PipesOpen
  <2>10. QED
    BY <2>9 DEF sockets
<1>. HIDE DEF opened
<1>12. DescriptorsInv(new, files', {ws}) /\ files' \in [Fds -> Entries]
  <2>1. {ws, Connection} \ {Connection} = {ws}
    OBVIOUS
  <2>2. Connection \in {ws, Connection} \cup {NoFd}
    OBVIOUS
  <2>3. QED
    <3>. DEFINE sockets == {ws, Connection}
    <3>1. sockets \ {Connection} = {ws} /\ Connection \in sockets \cup {NoFd}
      BY <2>1, <2>2
    <3>2. DescriptorsInv(new, opened, sockets)
      BY <1>11
    <3>. HIDE DEF sockets
    <3>3. /\ DescriptorsInv(new, Closing(opened, {Connection}), sockets \ {Connection})
          /\ Closing(opened, {Connection}) \in [Fds -> Entries]
      BY <1>7, <1>10, <3>1, <3>2, SocketCloses
    <3>4. QED
      BY <1>2, <3>1, <3>3
<1>13. new[s].pid = Len(processes) + 1 /\ new[s].result \notin Words
  BY <1>7, <1>8 DEF n, Words
<1>14. ChildrenInv(new, process')
  BY <1>1, <1>2, <1>5, <1>7, <1>13, ChildStarted
<1>15. FlowInv(new, process', next)
  BY ZenonT(60), <1>1, <1>2, <1>5, <1>7, <1>13, FlowStarted
<1>16. ResultsInv(new, process', words)
  BY <1>1, <1>2, <1>5, <1>7, <1>13, ResultsStarted
<1>17. /\ process' \in Seq(ProcessType) /\ Len(process') = n + 1 /\ process'[n + 1] = child
       /\ \A p \in 1..n : process'[p] = processes[p]
  BY <1>1, <1>2, <1>5, AppendProperties DEF n
<1>18. Bounded(limits, process', next, failures')
  <2>1. /\ n <= limits.forks /\ failures <= limits.failures /\ before <= n + failures
        /\ \A p \in 1..n : /\ processes[p].flow <= limits.forks + limits.failures
                           /\ Len(processes[p].written) <= limits.writes
    BY DEF Bounded, n
  <2>2. next <= (n + 1) + failures /\ n + 1 <= limits.forks
    BY <1>2, <1>3, <2>1
  <2>3. flow <= limits.forks + limits.failures
    BY <1>3, <2>1, <2>2
  <2>4. Len(child.written) = 0
    BY <1>5, EmptySeq
  <2>5. ASSUME NEW p \in 1..n + 1
        PROVE  /\ process'[p].flow <= limits.forks + limits.failures
               /\ Len(process'[p].written) <= limits.writes
    <3>1. CASE p \in 1..n
      BY <1>17, <2>1, <3>1
    <3>2. CASE p = n + 1
      BY <1>3, <1>5, <1>17, <2>3, <2>4, <3>2
    <3>3. QED
      BY <1>3, <3>1, <3>2
  <2>6. QED
    BY <1>2, <1>17, <2>1, <2>2, <2>5 DEF Bounded
<1>19. QED
  BY <1>1, <1>2, <1>7, <1>12, <1>14, <1>15, <1>16, <1>17, <1>18 DEF StateInv

\* start_child when pipe or fork fails.
LEMMA NotStartedKeeps ==
  ASSUME NEW slots, NEW processes, NEW table, NEW words,
         NEW before, NEW next, NEW flow, NEW s,
         StartAllowed(slots, processes, table, words, before, next, flow, s),
         NotStarted(slots, processes, table)
  PROVE  /\ StateInv(slot', process', files', {ws}, next, words)
         /\ Bounded(limits, process', next, failures')
<1>. /\ limits \in Environments /\ failures \in Nat
     /\ before \in Nat /\ next \in Nat /\ flow \in Nat /\ s \in Slots
     /\ StateInv(slots, processes, table, {ws, Connection}, before, words)
     /\ Bounded(limits, processes, before, failures)
     /\ Connection # ws
     /\ slots[s].pid = NoPid /\ (s = "test" => words = <<>>)
     /\ before <= next /\ next <= before + 1 /\ (s = "server" => next = before + 1)
     /\ (slots["server"].pid # NoPid => next = before)
     /\ flow <= next /\ (s # "test" => flow = next)
  BY DEF StartAllowed
<1>1. /\ slots \in [Slots -> SlotType] /\ processes \in Seq(ProcessType)
      /\ table \in [Fds -> Entries] /\ words \in Seq(Words)
      /\ DescriptorsInv(slots, table, {ws, Connection}) /\ ChildrenInv(slots, processes)
      /\ FlowInv(slots, processes, before) /\ ResultsInv(slots, processes, words)
  BY DEF StateInv
<1>2. PICK lost \in {{}, {NthFree(table, 1), NthFree(table, 2)}} :
        /\ lost # {} => Cardinality(FreeFds(table)) >= 2
        /\ files' = Closing(Opening(table, lost, Lost), {Connection})
  BY DEF NotStarted
<1>3. slot' = slots /\ process' = processes /\ failures' = failures + 1 /\ failures < limits.failures
  BY DEF NotStarted
<1>4. \A f \in lost : table[f] = Free
  <2>1. SUFFICES ASSUME lost = {NthFree(table, 1), NthFree(table, 2)}
                 PROVE  table[NthFree(table, 1)] = Free /\ table[NthFree(table, 2)] = Free
    BY <1>2
  <2>2. Cardinality(FreeFds(table)) >= 2 /\ Cardinality(FreeFds(table)) \in Nat
    BY <1>2, <2>1, FreeFdsCounted
  <2>3. 1 <= Cardinality(FreeFds(table)) /\ 2 <= Cardinality(FreeFds(table))
    BY <2>2
  <2>4. table[NthFree(table, 1)] = Free
    BY <2>3, NthFreeIsFree
  <2>5. table[NthFree(table, 2)] = Free
    BY <2>3, NthFreeIsFree
  <2>6. QED
    BY <2>4, <2>5
<1>5. DescriptorsInv(slots, files', {ws}) /\ files' \in [Fds -> Entries]
  <2>. DEFINE sockets == {ws, Connection}
              opened == Opening(table, lost, Lost)
  <2>1. sockets \ {Connection} = {ws} /\ Connection \in sockets \cup {NoFd}
    OBVIOUS
  <2>2. DescriptorsInv(slots, table, sockets)
    BY <1>1
  <2>. HIDE DEF sockets
  <2>3. DescriptorsInv(slots, opened, sockets) /\ opened \in [Fds -> Entries]
    BY <1>1, <1>4, <2>2, PipesLost
  <2>. HIDE DEF opened
  <2>4. /\ DescriptorsInv(slots, Closing(opened, {Connection}), sockets \ {Connection})
        /\ Closing(opened, {Connection}) \in [Fds -> Entries]
    BY <1>1, <2>1, <2>3, SocketCloses
  <2>5. files' = Closing(opened, {Connection})
    BY <1>2 DEF opened
  <2>6. QED
    BY <2>1, <2>4, <2>5
<1>6. FlowInv(slots, processes, next)
  BY <1>1, FlowAdvances
<1>7. Bounded(limits, processes, next, failures')
  <2>1. Len(processes) \in Nat
    BY <1>1, LenProperties
  <2>2. /\ failures <= limits.failures /\ before <= Len(processes) + failures
    BY DEF Bounded
  <2>3. next <= Len(processes) + failures'
    BY <1>3, <2>1, <2>2
  <2>4. failures' <= limits.failures
    BY <1>3, LimitsType
  <2>5. QED
    BY <2>3, <2>4 DEF Bounded
<1>8. QED
  BY <1>1, <1>3, <1>5, <1>6, <1>7 DEF StateInv

\* start_child either way.
LEMMA StartKeeps ==
  ASSUME NEW slots, NEW processes, NEW table, NEW words,
         NEW before, NEW next, NEW flow, NEW s, NEW interactive \in BOOLEAN,
         StartAllowed(slots, processes, table, words, before, next, flow, s),
         StartChild(s, slots, processes, table, interactive, flow)
  PROVE  /\ StateInv(slot', process', files', {ws}, next, words)
         /\ Bounded(limits, process', next, failures')
<1>1. CASE Started(s, slots, processes, table, interactive, flow)
  BY <1>1, StartedKeeps
<1>2. CASE NotStarted(slots, processes, table)
  BY <1>2, NotStartedKeeps
<1>3. QED
  BY <1>1, <1>2 DEF StartChild

\* accept has given the request a descriptor of its own.
LEMMA ConnectionOpen ==
  ASSUME IInv, phase = "request"
  PROVE  /\ Connection \in Fds /\ files[Connection] = Free /\ Connection # ws
         /\ StateInv(slot, process, WithConnection, {ws, Connection}, runSeq, results)
<1>1. StateInv(slot, process, files, {ws}, runSeq, results) /\ FreeFds(files) # {}
  BY DEF IInv, Connectable
<1>2. Connection \in Fds /\ files[Connection] = Free
  <2>1. 1 <= Cardinality(FreeFds(files))
    BY <1>1, FreeFdsCounted
  <2>2. QED
    BY <2>1, NthFreeIsFree DEF Connection
<1>3. slot \in [Slots -> SlotType] /\ files \in [Fds -> Entries] /\ DescriptorsInv(slot, files, {ws})
  BY <1>1 DEF StateInv
<1>4. Connection # ws
  BY <1>2, <1>3 DEF DescriptorsInv, Owned, Free, Socket
<1>5. /\ DescriptorsInv(slot, WithConnection, {ws} \cup {Connection})
      /\ WithConnection \in [Fds -> Entries]
  BY <1>2, <1>3, SocketOpens DEF WithConnection
<1>6. {ws} \cup {Connection} = {ws, Connection}
  OBVIOUS
<1>7. QED
  BY <1>1, <1>2, <1>4, <1>5, <1>6 DEF StateInv

-----------------------------------------------------------------------------
(***************************************************************************)
(* The steps.                                                              *)
(***************************************************************************)
StateInvNext ==
  /\ StateInv(slot', process', files', {ws'}, runSeq', results')
  /\ Bounded(limits', process', runSeq', failures')

LEMMA IInvInit == Init => IInv
<1>. SUFFICES ASSUME Init
              PROVE  IInv
  OBVIOUS
<1>1. /\ limits \in Environments /\ phase = "select" /\ ready = {}
      /\ slot = [s \in Slots |-> Fresh] /\ runSeq = 0 /\ ws = NoFd
      /\ files = [f \in Fds |-> Free] /\ process = <<>> /\ results = <<>> /\ failures = 0
  BY DEF Init
<1>2. process \in Seq(ProcessType) /\ Len(process) = 0 /\ results \in Seq(Words)
  BY <1>1, EmptySeq
<1>3. \A s \in Slots : /\ slot[s] \in SlotType /\ slot[s].pid = NoPid /\ slot[s].out = NoFd
                       /\ slot[s].err = NoFd /\ slot[s].in = NoFd /\ slot[s].result = "Pending"
  BY <1>1 DEF Fresh, Empty, SlotType, NoPid, Results
<1>4. slot \in [Slots -> SlotType] /\ files \in [Fds -> Entries]
  BY <1>1, <1>3 DEF Entries
<1>5. \A f \in Fds : files[f] = Free
  BY <1>1
<1>6. NoFd \notin Fds
  BY BoundsAssumption DEF Fds, NoFd
<1>7. DescriptorsInv(slot, files, {ws})
  BY <1>1, <1>3, <1>5, <1>6
     DEF DescriptorsInv, Owned, FieldsDiffer, PidsDiffer, HeldBy, Free, Socket
<1>8. ChildrenInv(slot, process)
  BY <1>2, <1>3 DEF ChildrenInv
<1>9. FlowInv(slot, process, runSeq)
  BY <1>2, <1>3 DEF FlowInv, Slots
<1>10. ResultsInv(slot, process, results)
  BY <1>1, <1>2, <1>3 DEF ResultsInv, Slots, Words
<1>11. Bounded(limits, process, runSeq, failures)
  BY <1>1, <1>2, LimitsType DEF Bounded
<1>12. Typed /\ Connectable
  BY <1>1 DEF Typed, Connectable, Phases
<1>13. QED
  BY <1>1, <1>2, <1>4, <1>7, <1>8, <1>9, <1>10, <1>11, <1>12 DEF IInv, StateInv

\* A step that leaves the slots, the processes and the descriptors as they are.
LEMMA NothingChanges ==
  ASSUME IInv, UNCHANGED <<limits, slot, runSeq, ws, files, process, results, failures>>
  PROVE  StateInvNext
BY DEF IInv, StateInvNext

\* The bounds are kept when no process is started and none writes.
LEMMA BoundedKept ==
  ASSUME IInv, Len(process') = Len(process),
         \A p \in 1..Len(process) :
           process'[p].flow = process[p].flow /\ process'[p].written = process[p].written,
         runSeq' \in {0, runSeq}, UNCHANGED <<limits, failures>>
  PROVE  Bounded(limits', process', runSeq', failures')
<1>1. /\ Len(process) <= limits.forks /\ failures <= limits.failures
      /\ runSeq <= Len(process) + failures
      /\ \A p \in 1..Len(process) : /\ process[p].flow <= limits.forks + limits.failures
                                    /\ Len(process[p].written) <= limits.writes
  BY DEF IInv, Bounded
<1>2. Len(process) \in Nat /\ failures \in Nat
  BY LenProperties DEF IInv, StateInv, Typed
<1>3. runSeq' <= Len(process) + failures
  BY <1>1, <1>2
<1>4. QED
  BY <1>1, <1>3 DEF Bounded

LEMMA StopStep ==
  ASSUME IInv, NEW s \in {"server", "client"}, Stop(s), UNCHANGED limits
  PROVE  StateInvNext
<1>1. PICK late \in Late({s}) : process' = StoppedProcesses({s}, late)
  BY DEF Stop
<1>2. /\ slot' = StoppedSlots({s}) /\ files' = StoppedFiles({s}, files)
      /\ ws' = ws /\ runSeq' = runSeq /\ results' = results /\ failures' = failures
  BY DEF Stop, Answered
<1>3. {s} \in SUBSET Slots /\ StateInv(slot, process, files, {ws}, runSeq, results)
  BY DEF Slots, IInv
<1>4. StateInv(slot', process', files', {ws'}, runSeq', results')
  BY <1>1, <1>2, <1>3, StopKeeps
<1>5. /\ Len(process') = Len(process)
      /\ \A p \in 1..Len(process) :
           process'[p].flow = process[p].flow /\ process'[p].written = process[p].written
  <2>1. process \in Seq(ProcessType)
    BY <1>3 DEF StateInv
  <2>2. Retains(process, process')
    BY <1>1, <2>1, StoppedChildren
  <2>3. QED
    BY <2>2 DEF Retains, Continues
<1>6. QED
  BY <1>2, <1>4, <1>5, BoundedKept DEF StateInvNext

\* Reap, and the closing of the WebSocket.
LEMMA ReapStep ==
  ASSUME IInv, Reap, UNCHANGED limits
  PROVE  StateInvNext
<1>1. /\ slot' = ReapedSlots(Slots) /\ process' = ReapedProcesses(Slots)
      /\ runSeq' = runSeq /\ results' = results /\ failures' = failures
      /\ \/ files' = ReapedFiles(Slots) /\ ws' = ws
         \/ ws' = NoFd /\ files' = Closing(ReapedFiles(Slots), {ws})
  BY DEF Reap
<1>2. Slots \in SUBSET Slots /\ StateInv(slot, process, files, {ws}, runSeq, results)
  BY DEF IInv
<1>. DEFINE closed == ReapedFiles(Slots)
<1>3. /\ slot' \in [Slots -> SlotType] /\ process' \in Seq(ProcessType) /\ closed \in [Fds -> Entries]
      /\ \A s \in Slots : Drops(slot[s], slot'[s])
      /\ \A s \in Slots : slot'[s].result \in Words => slot'[s].result = slot[s].result
      /\ Retains(process, process')
      /\ \A p \in 1..Len(process) : \A s \in Slots :
           Alive(process'[p]) /\ slot[s].pid = p => slot'[s].pid = p
      /\ \A f \in Fds : closed[f] = IF Dropped(slot, slot', f) THEN Free ELSE files[f]
  BY <1>1, <1>2, ReapedState
<1>. HIDE DEF closed
<1>4. StateInv(slot', process', closed, {ws}, runSeq, results)
  BY <1>2, <1>3, EmptyingKeeps
<1>5. DescriptorsInv(slot', files', {ws'}) /\ files' \in [Fds -> Entries]
  <2>1. DescriptorsInv(slot', closed, {ws})
    BY <1>4 DEF StateInv
  <2>2. CASE files' = closed /\ ws' = ws
    BY <1>3, <2>1, <2>2
  <2>3. CASE ws' = NoFd /\ files' = Closing(closed, {ws})
    BY <1>3, <2>1, <2>3, WebSocketCloses
  <2>4. QED
    BY <1>1, <2>2, <2>3 DEF closed
<1>6. /\ Len(process') = Len(process)
      /\ \A p \in 1..Len(process) :
           process'[p].flow = process[p].flow /\ process'[p].written = process[p].written
  BY <1>3 DEF Retains, Continues
<1>7. QED
  BY <1>1, <1>4, <1>5, <1>6, BoundedKept DEF StateInv, StateInvNext

LEMMA ReadWebSocketStep ==
  ASSUME IInv, ReadWebSocket, UNCHANGED limits
  PROVE  StateInvNext
<1>1. /\ slot' = slot /\ process' = process /\ runSeq' = runSeq /\ results' = results
      /\ failures' = failures
      /\ \/ ws' = ws /\ files' = files
         \/ ws' = NoFd /\ files' = Closing(files, {ws})
  BY DEF ReadWebSocket
<1>2. StateInv(slot, process, files, {ws}, runSeq, results)
  BY DEF IInv
<1>3. DescriptorsInv(slot', files', {ws'}) /\ files' \in [Fds -> Entries]
  BY ZenonT(60), <1>1, <1>2, WebSocketCloses DEF StateInv
<1>4. QED
  BY <1>1, <1>2, <1>3 DEF StateInv, StateInvNext, IInv

\* websocket_handshake: the connection of the request becomes the WebSocket.
LEMMA WebSocketConnectStep ==
  ASSUME IInv, WebSocketConnect, UNCHANGED limits
  PROVE  StateInvNext
<1>1. /\ slot' = slot /\ process' = process /\ runSeq' = runSeq /\ results' = results
      /\ failures' = failures /\ ws' = Connection /\ files' = Closing(WithConnection, {ws})
      /\ phase = "request"
  BY DEF WebSocketConnect
<1>2. /\ Connection # ws
      /\ StateInv(slot, process, WithConnection, {ws, Connection}, runSeq, results)
  BY <1>1, ConnectionOpen
<1>. DEFINE sockets == {ws, Connection}
<1>3. ws \in sockets \cup {NoFd} /\ sockets \ {ws} = {Connection}
  BY <1>2
<1>4. /\ DescriptorsInv(slot, WithConnection, sockets) /\ slot \in [Slots -> SlotType]
      /\ WithConnection \in [Fds -> Entries]
  BY <1>2 DEF StateInv
<1>. HIDE DEF sockets
<1>5. /\ DescriptorsInv(slot, Closing(WithConnection, {ws}), sockets \ {ws})
      /\ Closing(WithConnection, {ws}) \in [Fds -> Entries]
  BY <1>3, <1>4, SocketCloses
<1>6. DescriptorsInv(slot', files', {ws'}) /\ files' \in [Fds -> Entries]
  BY <1>1, <1>3, <1>5
<1>7. QED
  BY <1>1, <1>2, <1>6 DEF StateInv, StateInvNext, IInv

LEMMA ServerStartStep ==
  ASSUME IInv, ServerStart, UNCHANGED limits
  PROVE  StateInvNext
<1>1. /\ runSeq' = runSeq + 1 /\ results' = results /\ ws' = ws /\ slot["server"].pid = NoPid
      /\ StartChild("server", slot, process, WithConnection, FALSE, runSeq + 1)
      /\ phase = "request"
  BY DEF ServerStart, Answered, Occupied
<1>2. /\ Connection # ws
      /\ StateInv(slot, process, WithConnection, {ws, Connection}, runSeq, results)
  BY <1>1, ConnectionOpen
<1>3. /\ limits \in Environments /\ failures \in Nat /\ runSeq \in Nat
      /\ Bounded(limits, process, runSeq, failures)
  BY DEF IInv, Typed, StateInv
<1>. DEFINE next == runSeq + 1
<1>4. /\ next \in Nat /\ runSeq <= next /\ next <= runSeq + 1 /\ "server" \in Slots
      /\ FALSE \in BOOLEAN /\ next <= next /\ next = runSeq + 1
  BY <1>3 DEF Slots
<1>5. StartChild("server", slot, process, WithConnection, FALSE, next)
  BY <1>1
<1>. HIDE DEF next
<1>6. StartAllowed(slot, process, WithConnection, results, runSeq, next, next, "server")
  BY <1>1, <1>2, <1>3, <1>4 DEF StartAllowed
<1>7. /\ StateInv(slot', process', files', {ws}, next, results)
      /\ Bounded(limits, process', next, failures')
  BY <1>4, <1>5, <1>6, StartKeeps
<1>8. QED
  BY <1>1, <1>4, <1>7 DEF StateInvNext

LEMMA ClientStartStep ==
  ASSUME IInv, NEW interactive \in BOOLEAN, ClientStart(interactive), UNCHANGED limits
  PROVE  StateInvNext
<1>. DEFINE next == IF NewExperiment THEN runSeq + 1 ELSE runSeq
<1>1. /\ runSeq' = next /\ results' = results /\ ws' = ws /\ slot["client"].pid = NoPid
      /\ StartChild("client", slot, process, WithConnection, interactive, next)
      /\ phase = "request"
  BY DEF ClientStart, Answered, Occupied
<1>2. /\ Connection # ws
      /\ StateInv(slot, process, WithConnection, {ws, Connection}, runSeq, results)
  BY <1>1, ConnectionOpen
<1>3. /\ limits \in Environments /\ failures \in Nat /\ runSeq \in Nat
      /\ Bounded(limits, process, runSeq, failures) /\ FlowInv(slot, process, runSeq)
  BY DEF IInv, Typed, StateInv
<1>4. /\ next \in Nat /\ runSeq <= next /\ next <= runSeq + 1 /\ "client" \in Slots /\ next <= next
  <2>1. next \in {runSeq, runSeq + 1}
    OBVIOUS
  <2>. HIDE DEF next
  <2>2. QED
    BY <1>3, <2>1 DEF Slots
<1>5. slot["server"].pid # NoPid => next = runSeq
  BY <1>3 DEF FlowInv, NoFlow, NewExperiment, Occupied
<1>. HIDE DEF next
<1>6. StartAllowed(slot, process, WithConnection, results, runSeq, next, next, "client")
  BY <1>1, <1>2, <1>3, <1>4, <1>5 DEF StartAllowed
<1>7. /\ StateInv(slot', process', files', {ws}, next, results)
      /\ Bounded(limits, process', next, failures')
  BY <1>1, <1>6, StartKeeps
<1>8. QED
  BY <1>1, <1>7 DEF StateInvNext

\* api_run_tests: the server and the client are stopped, the results emptied, and the
\* tests started.
LEMMA RunTestsStep ==
  ASSUME IInv, RunTests, UNCHANGED limits
  PROVE  StateInvNext
<1>. DEFINE S == {"server", "client"}
<1>1. PICK late \in Late(S) :
        StartChild("test", StoppedSlots(S), StoppedProcesses(S, late),
                   StoppedFiles(S, WithConnection), FALSE, NoFlow)
  BY DEF RunTests
<1>2. /\ runSeq' = runSeq /\ results' = <<>> /\ ws' = ws /\ slot["test"].pid = NoPid
      /\ phase = "request"
  BY DEF RunTests, Answered, Occupied, ResultsAtStart
<1>3. /\ Connection # ws
      /\ StateInv(slot, process, WithConnection, {ws, Connection}, runSeq, results)
  BY <1>2, ConnectionOpen
<1>4. /\ limits \in Environments /\ failures \in Nat /\ runSeq \in Nat
      /\ Bounded(limits, process, runSeq, failures)
      /\ slot \in [Slots -> SlotType] /\ process \in Seq(ProcessType)
  BY DEF IInv, Typed, StateInv
<1>5. S \in SUBSET Slots /\ "test" \in Slots \ S /\ "server" \in S /\ "test" \in Slots
  BY DEF Slots
<1>. HIDE DEF S
<1>. DEFINE slots == StoppedSlots(S)
            processes == StoppedProcesses(S, late)
            table == StoppedFiles(S, WithConnection)
<1>6. StateInv(slots, processes, table, {ws, Connection}, runSeq, results)
  BY <1>3, <1>5, StopKeeps
<1>7. slots["test"].pid = NoPid /\ slots["server"].pid = NoPid
  BY <1>2, <1>4, <1>5, StoppedSlotsEmpty
<1>8. Bounded(limits, processes, runSeq, failures)
  <2>1. Retains(process, processes)
    BY <1>4, StoppedChildren
  <2>. HIDE DEF processes
  <2>2. QED
    BY <1>4, <2>1 DEF Bounded, Retains, Continues
<1>9. StateInv(slots, processes, table, {ws, Connection}, runSeq, <<>>)
  <2>. HIDE DEF slots, processes, table
  <2>1. ResultsInv(slots, processes, <<>>)
    BY <1>6, <1>7, ResultsEmptied DEF StateInv
  <2>2. <<>> \in Seq(Words)
    BY EmptySeq
  <2>3. QED
    BY <1>6, <2>1, <2>2 DEF StateInv
<1>10. StartChild("test", slots, processes, table, FALSE, NoFlow)
  BY <1>1
<1>. HIDE DEF slots, processes, table
<1>11. /\ NoFlow \in Nat /\ NoFlow <= runSeq /\ runSeq <= runSeq /\ runSeq <= runSeq + 1
       /\ FALSE \in BOOLEAN
  BY <1>4 DEF NoFlow
<1>. DEFINE words == <<>>
<1>12. StateInv(slots, processes, table, {ws, Connection}, runSeq, words) /\ words = <<>>
  BY <1>9
<1>. HIDE DEF words
<1>. DEFINE s == "test"
<1>13. StartAllowed(slots, processes, table, words, runSeq, runSeq, NoFlow, s)
  BY <1>3, <1>4, <1>5, <1>7, <1>8, <1>11, <1>12 DEF StartAllowed
<1>14. StartChild(s, slots, processes, table, FALSE, NoFlow)
  BY <1>10
<1>. HIDE DEF s
<1>15. /\ StateInv(slot', process', files', {ws}, runSeq, words)
       /\ Bounded(limits, process', runSeq, failures')
  BY <1>11, <1>13, <1>14, StartKeeps
<1>16. QED
  BY <1>2, <1>12, <1>15 DEF StateInvNext

\* /api/reset: nothing is left of the experiment but the processes' numbers.
LEMMA ResetStep ==
  ASSUME IInv, Reset, UNCHANGED limits
  PROVE  StateInvNext
<1>1. PICK late \in Late(Slots) : process' = LogsAfterReset(StoppedProcesses(Slots, late))
  BY DEF Reset, ResetStops
<1>2. /\ slot' = [s \in Slots |-> Fresh] /\ files' = StoppedFiles(Slots, files)
      /\ ws' = ws /\ runSeq' = 0 /\ results' = results /\ failures' = failures
  BY DEF Reset, ResetStops, Answered
<1>3. /\ slot \in [Slots -> SlotType] /\ process \in Seq(ProcessType)
      /\ files \in [Fds -> Entries] /\ runSeq \in Nat /\ results \in Seq(Words)
      /\ DescriptorsInv(slot, files, {ws}) /\ ChildrenInv(slot, process)
      /\ FlowInv(slot, process, runSeq) /\ ResultsInv(slot, process, results)
  BY DEF IInv, StateInv
<1>. DEFINE n == Len(process)
            stopped == StoppedProcesses(Slots, late)
<1>4. /\ stopped \in Seq(ProcessType) /\ Len(stopped) = n /\ Retains(process, stopped)
      /\ \A p \in 1..n : ~(\A s \in Slots : slot[s].pid # p) => ~Alive(stopped[p])
  BY <1>3, StoppedChildren
<1>5. n \in Nat /\ \A p \in 1..n : stopped[p] \in ProcessType
  BY <1>3, <1>4, ProcessFields, LenProperties
<1>6. process' = [p \in 1..n |->
        [stopped[p] EXCEPT !.logged = stopped[p].orphan /\ stopped[p].state = "running"]]
  <2>1. DOMAIN stopped = 1..n
    BY <1>4, LenProperties
  <2>2. QED
    BY <1>1, <2>1 DEF LogsAfterReset
<1>. HIDE DEF stopped
<1>7. \A p \in 1..n : /\ process'[p] \in ProcessType
                      /\ process'[p].orphan = stopped[p].orphan
                      /\ process'[p].logged => stopped[p].orphan
                      /\ process'[p].kind = stopped[p].kind /\ process'[p].flow = stopped[p].flow
                      /\ process'[p].unread = stopped[p].unread
                      /\ process'[p].written = stopped[p].written
                      /\ process'[p].state = stopped[p].state
  BY <1>5, <1>6 DEF ProcessType
<1>8. process' \in Seq(ProcessType) /\ Len(process') = n
  <2>1. process' \in [1..n -> ProcessType]
    BY <1>6, <1>7
  <2>. HIDE DEF n
  <2>2. QED
    BY <1>5, <2>1, FunctionIsSeq
<1>8a. \A p \in 1..n : ~Traced(process'[p])
  BY <1>7 DEF Traced
<1>9. /\ Continues(process, process')
      /\ \A p \in 1..n : /\ process'[p].kind = process[p].kind
                         /\ process'[p].unread = process[p].unread
                         /\ process'[p].written = process[p].written
                         /\ process'[p].flow = process[p].flow
      /\ \A p \in 1..n : ~(\A s \in Slots : slot[s].pid # p) => ~Alive(process'[p])
  BY <1>4, <1>7, <1>8, <1>8a DEF Retains, Continues, Alive, Active
<1>10. /\ slot' \in [Slots -> SlotType]
       /\ \A s \in Slots : /\ slot'[s].pid = NoPid /\ slot'[s].out = NoFd /\ slot'[s].err = NoFd
                           /\ slot'[s].in = NoFd /\ slot'[s].result = "Pending"
  BY <1>2 DEF Fresh, Empty, SlotType, NoPid, Results
<1>11. /\ files' \in [Fds -> Entries]
       /\ \A f \in Fds : files'[f] = IF Dropped(slot, slot', f) THEN Free ELSE files[f]
  <2>1. \A s \in Slots \ Slots : slot'[s] = slot[s]
    OBVIOUS
  <2>2. Slots \in SUBSET Slots
    OBVIOUS
  <2>3. QED
    BY ZenonT(60), <1>2, <1>3, <1>10, <2>1, <2>2, ClosedWhenEmptied DEF StoppedFiles
<1>12. DescriptorsInv(slot', files', {ws})
  <2>1. \A s \in Slots : Drops(slot[s], slot'[s])
    BY <1>10 DEF Drops
  <2>2. QED
    BY <1>3, <1>10, <1>11, <2>1, DropKeepsOwned
<1>13. ChildrenInv(slot', process')
  <2>1. \A p \in 1..n : \A s \in Slots : Alive(process'[p]) /\ slot[s].pid = p => slot'[s].pid = p
    BY <1>9
  <2>2. \A s \in Slots : slot'[s].pid \in {NoPid, slot[s].pid}
    BY <1>10
  <2>3. QED
    BY <1>3, <1>8, <1>9, <1>10, <2>1, <2>2, ChildrenKept
<1>14. FlowInv(slot', process', 0)
  <2>1. slot'["server"].pid = NoPid
    BY <1>10 DEF Slots
  <2>2. QED
    BY <1>3, <1>8, <1>8a, <1>9, <1>10, <2>1, FlowEnds
<1>15. ResultsInv(slot', process', results)
  <2>1. slot'["test"].pid \in {NoPid, slot["test"].pid}
    BY <1>10 DEF Slots
  <2>2. \A s \in Slots : slot'[s].result \in Words => slot'[s].result = slot[s].result
    BY <1>10 DEF Words
  <2>3. QED
    BY <1>3, <1>8, <1>9, <1>10, <2>1, <2>2, ResultsKept
<1>16. Bounded(limits', process', runSeq', failures')
  BY <1>2, <1>8, <1>9, BoundedKept
<1>17. QED
  BY <1>2, <1>3, <1>8, <1>10, <1>11, <1>12, <1>13, <1>14, <1>15, <1>16
     DEF StateInv, StateInvNext

\* The turn a step takes: its descriptor was in readfds, and so it is open.
LEMMA TurnProperties ==
  ASSUME ready \subseteq Fds, NEW s \in Slots, NEW stream \in {"out", "err"}, TakesTurn(s, stream)
  PROVE  /\ phase = "output" /\ phase' = "output" /\ ready' \subseteq Fds
         /\ stream = "out" => slot[s].out \in Fds
         /\ stream = "err" => slot[s].err \in Fds
<1>1. phase = "output" /\ phase' = phase /\ Due # {} /\ Turn = <<s, stream>> /\ ready' \subseteq ready
  BY DEF TakesTurn
<1>2. Min(Due) \in Due
  <2>1. Due \in SUBSET Nat
    BY DEF Due, Turns
  <2>2. PICK m \in Due : \A j \in Due : m <= j
    BY <1>1, <2>1, Least
  <2>3. QED
    BY <2>2 DEF Min
<1>3. Descriptor(Turns[Min(Due)]) \in ready
  BY <1>2 DEF Due
<1>4. Descriptor(<<s, stream>>) \in ready
  BY <1>1, <1>3 DEF Turn
<1>5. QED
  BY <1>1, <1>4 DEF Descriptor

LEMMA RetainsSame == ASSUME NEW processes PROVE Retains(processes, processes)
BY DEF Retains, Continues

\* The test runner's stderr is closed at the first thing it is ready for.
LEMMA ReadTestErrorsStep ==
  ASSUME IInv, ReadTestErrors, UNCHANGED limits
  PROVE  StateInvNext
<1>1. /\ slot' = [slot EXCEPT !["test"].err = NoFd] /\ files' = Closing(files, {slot["test"].err})
      /\ process' = process /\ results' = results /\ runSeq' = runSeq /\ ws' = ws
      /\ failures' = failures /\ TakesTurn("test", "err")
  BY DEF ReadTestErrors, TakesTurn
<1>2. StateInv(slot, process, files, {ws}, runSeq, results) /\ ready \subseteq Fds /\ "test" \in Slots
  BY DEF IInv, Typed, Slots
<1>3. slot["test"].err \in Fds
  BY <1>1, <1>2, TurnProperties
<1>4. /\ slot \in [Slots -> SlotType] /\ process \in Seq(ProcessType) /\ files \in [Fds -> Entries]
      /\ FieldsDiffer(slot)
  BY <1>2 DEF StateInv, DescriptorsInv
<1>5. NoFd \notin Fds
  BY BoundsAssumption DEF Fds, NoFd
<1>6. /\ slot' \in [Slots -> SlotType]
      /\ \A s \in Slots : s # "test" => slot'[s] = slot[s]
      /\ slot'["test"].pid = slot["test"].pid /\ slot'["test"].out = slot["test"].out
      /\ slot'["test"].in = slot["test"].in /\ slot'["test"].err = NoFd
      /\ slot'["test"].result = slot["test"].result
  BY <1>1, <1>2, <1>4 DEF SlotType
<1>7. \A f \in Fds : Dropped(slot, slot', f) <=> f = slot["test"].err
  <2>1. \A s \in Slots : s # "test" => HeldBy(slot', s) = HeldBy(slot, s)
    BY <1>6 DEF HeldBy
  <2>2. HeldBy(slot', "test") = HeldBy(slot, "test") \ {slot["test"].err}
    BY <1>2, <1>3, <1>4, <1>5, <1>6 DEF HeldBy, FieldsDiffer
  <2>3. slot["test"].err \in HeldBy(slot, "test")
    BY <1>3, <1>5 DEF HeldBy
  <2>4. QED
    BY <1>2, <2>1, <2>2, <2>3 DEF Dropped
<1>8. /\ files' \in [Fds -> Entries]
      /\ \A f \in Fds : files'[f] = IF Dropped(slot, slot', f) THEN Free ELSE files[f]
  BY <1>1, <1>4, <1>7 DEF Closing, Entries
<1>9. \A s \in Slots : Drops(slot[s], slot'[s])
  BY <1>6 DEF Drops
<1>10. \A s \in Slots : slot'[s].pid = slot[s].pid /\ slot'[s].result = slot[s].result
  BY <1>6
<1>11. StateInv(slot', process, files', {ws}, runSeq, results)
  BY <1>2, <1>4, <1>6, <1>8, <1>9, <1>10, RetainsSame, EmptyingKeeps
<1>12. QED
  BY <1>1, <1>11 DEF StateInvNext, IInv

\* The end of the test runner's stdout: reap_child, and the descriptor is closed.
TestOutputEnd ==
  /\ slot' = [ReapedSlots({"test"}) EXCEPT !["test"].out = NoFd]
  /\ process' = ReapedProcesses({"test"})
  /\ files' = Closing(ReapedFiles({"test"}), {slot["test"].out})
  /\ results' = results

LEMMA TestOutputEnds ==
  ASSUME IInv, TakesTurn("test", "out"), TestOutputEnd, UNCHANGED limits
  PROVE  StateInvNext
<1>1. runSeq' = runSeq /\ ws' = ws /\ failures' = failures /\ results' = results
  BY DEF TakesTurn, TestOutputEnd
<1>2. /\ StateInv(slot, process, files, {ws}, runSeq, results) /\ ready \subseteq Fds
      /\ "test" \in Slots /\ {"test"} \in SUBSET Slots
  BY DEF IInv, Typed, Slots
<1>3. slot["test"].out \in Fds /\ NoFd \notin Fds
  <2>1. NoFd \notin Fds
    BY BoundsAssumption DEF Fds, NoFd
  <2>2. QED
    BY <1>2, <2>1, TurnProperties
<1>4. /\ slot \in [Slots -> SlotType] /\ process \in Seq(ProcessType) /\ files \in [Fds -> Entries]
      /\ FieldsDiffer(slot)
  BY <1>2 DEF StateInv, DescriptorsInv
<1>. DEFINE mid == ReapedSlots({"test"})
            closed == ReapedFiles({"test"})
            R == Reapable({"test"})
<1>5. /\ mid \in [Slots -> SlotType]
      /\ \A s \in Slots : Drops(slot[s], mid[s]) /\ mid[s].result = slot[s].result
      /\ \A s \in R : /\ mid[s].pid = NoPid /\ mid[s].out = NoFd
                      /\ mid[s].err = NoFd /\ mid[s].in = NoFd
      /\ \A s \in Slots \ R : mid[s] = slot[s]
      /\ process' \in Seq(ProcessType) /\ Retains(process, process')
      /\ \A p \in 1..Len(process) : \A s \in R : slot[s].pid = p => ~Alive(process'[p])
      /\ closed \in [Fds -> Entries]
      /\ \A f \in Fds : closed[f] = IF Dropped(slot, mid, f) THEN Free ELSE files[f]
  BY <1>2, ReapedState DEF TestOutputEnd
<1>6. slot' = [mid EXCEPT !["test"].out = NoFd] /\ files' = Closing(closed, {slot["test"].out})
  BY DEF TestOutputEnd
<1>. HIDE DEF mid, closed, R
<1>7. /\ slot' \in [Slots -> SlotType]
      /\ \A s \in Slots : s # "test" => slot'[s] = mid[s]
      /\ slot'["test"].pid = mid["test"].pid /\ slot'["test"].out = NoFd
      /\ slot'["test"].in = mid["test"].in /\ slot'["test"].err = mid["test"].err
      /\ slot'["test"].result = mid["test"].result
  <2>1. mid \in [Slots -> SlotType] /\ mid["test"] \in SlotType
    BY <1>2, <1>5
  <2>2. slot' = [mid EXCEPT !["test"] = [mid["test"] EXCEPT !.out = NoFd]]
    BY <1>6
  <2>3. [mid["test"] EXCEPT !.out = NoFd] \in SlotType
    BY <2>1 DEF SlotType
  <2>4. QED
    BY <1>2, <2>1, <2>2, <2>3 DEF SlotType
<1>8. \A f \in Fds : Dropped(slot, slot', f) <=> (Dropped(slot, mid, f) \/ f = slot["test"].out)
  <2>1. \A s \in Slots : s # "test" => HeldBy(slot', s) = HeldBy(mid, s)
    BY <1>7 DEF HeldBy
  <2>2. HeldBy(slot', "test") = HeldBy(mid, "test") \ {slot["test"].out}
    <3>1. CASE mid["test"] = slot["test"]
      BY <1>2, <1>3, <1>4, <1>7, <3>1 DEF HeldBy, FieldsDiffer
    <3>2. CASE mid["test"].out = NoFd /\ mid["test"].err = NoFd /\ mid["test"].in = NoFd
      BY <1>7, <3>2 DEF HeldBy
    <3>3. QED
      BY <1>2, <1>5, <3>1, <3>2
  <2>3. slot["test"].out \in HeldBy(slot, "test")
    BY <1>3 DEF HeldBy
  <2>4. QED
    BY <1>2, <2>1, <2>2, <2>3 DEF Dropped
<1>9. /\ files' \in [Fds -> Entries]
      /\ \A f \in Fds : files'[f] = IF Dropped(slot, slot', f) THEN Free ELSE files[f]
  <2>1. closed \in [Fds -> Entries]
    BY <1>5
  <2>2. \A f \in Fds : closed[f] = IF Dropped(slot, mid, f) THEN Free ELSE files[f]
    BY <1>5
  <2>3. files' \in [Fds -> Entries]
    BY <1>6, <2>1 DEF Closing, Entries
  <2>4. \A f \in Fds : files'[f] = IF f = slot["test"].out THEN Free ELSE closed[f]
    BY <1>6 DEF Closing
  <2>5. QED
    BY <1>8, <2>2, <2>3, <2>4
<1>10. \A s \in Slots : /\ Drops(slot[s], slot'[s])
                        /\ slot'[s].pid = mid[s].pid /\ slot'[s].result = slot[s].result
  BY <1>5, <1>7 DEF Drops
<1>11. \A p \in 1..Len(process) : \A s \in Slots :
         Alive(process'[p]) /\ slot[s].pid = p => slot'[s].pid = p
  BY <1>5, <1>10
<1>12. StateInv(slot', process', files', {ws}, runSeq, results)
  <2>1. process' \in Seq(ProcessType) /\ Retains(process, process')
    BY <1>5
  <2>2. \A s \in Slots : slot'[s].result \in Words => slot'[s].result = slot[s].result
    BY <1>10
  <2>3. slot' \in [Slots -> SlotType] /\ \A s \in Slots : Drops(slot[s], slot'[s])
    BY <1>7, <1>10
  <2>4. StateInv(slot, process, files, {ws}, runSeq, results)
    BY <1>2
  <2>5. QED
    BY <1>9, <1>11, <2>1, <2>2, <2>3, <2>4, EmptyingKeeps
<1>13. /\ Len(process') = Len(process)
       /\ \A p \in 1..Len(process) :
            process'[p].flow = process[p].flow /\ process'[p].written = process[p].written
  BY <1>5 DEF Retains, Continues
<1>14. QED
  BY <1>1, <1>12, <1>13, BoundedKept DEF StateInvNext

\* handle_child_output for the server and the client.
LEMMA ReadOutputStep ==
  ASSUME IInv, NEW s \in {"server", "client"}, ReadOutput(s), UNCHANGED limits
  PROVE  StateInvNext
<1>. DEFINE p == slot[s].pid
            text == process[p].unread
<1>1. /\ runSeq' = runSeq /\ ws' = ws /\ failures' = failures /\ files' = files
      /\ results' = results /\ TakesTurn(s, "out")
  BY DEF ReadOutput, TakesTurn
<1>2. /\ StateInv(slot, process, files, {ws}, runSeq, results) /\ ready \subseteq Fds
      /\ s \in Slots \ {"test"} /\ s \in Slots
  BY DEF IInv, Typed, Slots
<1>3. CASE UNCHANGED <<slot, process>>
  BY <1>1, <1>3, NothingChanges
<1>4. ASSUME NEW n \in 1..Len(text),
             process' = [process EXCEPT ![p].unread = SubSeq(text, n + 1, Len(text))],
             slot' = [slot EXCEPT ![s].result = Verdict(SubSeq(text, 1, n), @)]
      PROVE  StateInvNext
  <2>. DEFINE child == [process[p] EXCEPT !.unread = SubSeq(text, n + 1, Len(text))]
              record == [slot[s] EXCEPT !.result = Verdict(SubSeq(text, 1, n), slot[s].result)]
  <2>1. /\ slot \in [Slots -> SlotType] /\ process \in Seq(ProcessType)
        /\ files \in [Fds -> Entries] /\ runSeq \in Nat /\ results \in Seq(Words)
        /\ DescriptorsInv(slot, files, {ws}) /\ ChildrenInv(slot, process)
        /\ FlowInv(slot, process, runSeq) /\ ResultsInv(slot, process, results)
    BY <1>2 DEF StateInv
  <2>2. slot[s].out \in Fds /\ slot[s].out # NoFd
    <3>1. NoFd \notin Fds
      BY BoundsAssumption DEF Fds, NoFd
    <3>2. QED
      BY <1>1, <1>2, <3>1, TurnProperties
  <2>3. p # NoPid
    BY <1>2, <2>1, <2>2 DEF DescriptorsInv, Owned, HeldBy
  <2>4. p \in 1..Len(process) /\ process[p].kind = s
    BY <1>2, <2>1, <2>3 DEF ChildrenInv
  <2>5. process[p] \in ProcessType /\ text \in Seq(Words)
    BY <2>1, <2>4, ProcessFields
  <2>6. SubSeq(text, n + 1, Len(text)) \in Seq(Words)
    BY <1>4, <2>5, PartsOfText
  <2>7. /\ child \in ProcessType /\ child.kind = s /\ child.flow = process[p].flow
        /\ child.state = process[p].state /\ child.logged = process[p].logged
        /\ child.orphan = process[p].orphan
        /\ child.written = process[p].written
        /\ child.unread = SubSeq(text, n + 1, Len(text))
    BY <2>4, <2>5, <2>6 DEF ProcessType
  <2>8. /\ slot[s] \in SlotType /\ Verdict(SubSeq(text, 1, n), slot[s].result) \in Results
    <3>1. slot[s] \in SlotType /\ slot[s].result \in Results
      BY <1>2, <2>1 DEF SlotType
    <3>2. QED
      BY <3>1 DEF Verdict, Results, Words
  <2>9. /\ record \in SlotType /\ record.pid = slot[s].pid /\ record.out = slot[s].out
        /\ record.err = slot[s].err /\ record.in = slot[s].in
        /\ record.result = Verdict(SubSeq(text, 1, n), slot[s].result)
    BY <2>8 DEF SlotType
  <2>10. slot' = [slot EXCEPT ![s] = record] /\ process' = [process EXCEPT ![p] = child]
    BY <1>4
  <2>. HIDE DEF child, record
  <2>11. /\ slot' \in [Slots -> SlotType] /\ slot'[s] = record
         /\ \A t \in Slots : t # s => slot'[t] = slot[t]
    BY <1>2, <2>1, <2>9, <2>10
  <2>12. /\ \A t \in Slots : /\ slot'[t].pid = slot[t].pid /\ HeldBy(slot', t) = HeldBy(slot, t)
                             /\ Drops(slot[t], slot'[t])
         /\ slot'[s].result = Verdict(SubSeq(text, 1, n), slot[s].result)
    BY <2>9, <2>11 DEF HeldBy, Drops
  <2>13. /\ process' \in Seq(ProcessType) /\ Len(process') = Len(process)
         /\ \A q \in 1..Len(process) : process'[q] = IF q = p THEN child ELSE process[q]
    BY <2>1, <2>4, <2>7, <2>10, OneProcess
  <2>14. DescriptorsInv(slot', files, {ws})
    <3>1. \A f \in Fds : ~Dropped(slot, slot', f)
      BY <2>12 DEF Dropped
    <3>2. QED
      BY <2>1, <2>11, <2>12, <3>1, DropKeepsOwned
  <2>15. Continues(process, process')
    BY <2>4, <2>7, <2>13 DEF Continues, Alive, Active, Traced
  <2>16. ChildrenInv(slot', process')
    <3>1. /\ \A t \in Slots : slot'[t].pid \in {NoPid, slot[t].pid}
          /\ \A q \in 1..Len(process) : \A t \in Slots :
               Alive(process'[q]) /\ slot[t].pid = q => slot'[t].pid = q
      BY <2>12
    <3>2. slot' \in [Slots -> SlotType]
      BY <2>11
    <3>3. QED
      BY <2>1, <2>13, <2>15, <3>1, <3>2, ChildrenKept
  <2>17. FlowInv(slot', process', runSeq)
    <3>1. slot'["server"].pid = slot["server"].pid
      BY <2>12 DEF Slots
    <3>2. QED
      BY <2>1, <2>11, <2>13, <2>15, <3>1, FlowKept
  <2>18. ResultsInv(slot', process', results)
    <3>1. slot'[s].result = Verdict(SubSeq(text, 1, n), slot[s].result)
      BY <2>12
    <3>2. /\ slot' \in [Slots -> SlotType]
          /\ \A t \in Slots : slot'[t].pid = slot[t].pid /\ (t # s => slot'[t] = slot[t])
      BY <2>11, <2>12
    <3>3. s \in Slots /\ s # "test" /\ n \in 1..Len(text)
      BY <1>2, <1>4
    <3>4. ReadsResult(slot, slot', process, process', s, n, child)
      BY <2>3, <2>7, <2>10, <3>1, <3>2, <3>3 DEF ReadsResult
    <3>5. QED
      BY <2>1, <3>2, <3>4, ResultRead
  <2>19. \A q \in 1..Len(process) :
           process'[q].flow = process[q].flow /\ process'[q].written = process[q].written
    BY <2>7, <2>13
  <2>20. QED
    BY <1>1, <2>1, <2>11, <2>13, <2>14, <2>16, <2>17, <2>18, <2>19, BoundedKept
       DEF StateInv, StateInvNext
<1>5. QED
  BY <1>3, <1>4 DEF ReadOutput

\* append_test_results_chunk, or the end of the test runner's stdout.
LEMMA ReadTestOutputStep ==
  ASSUME IInv, ReadTestOutput, UNCHANGED limits
  PROVE  StateInvNext
<1>. DEFINE p == slot["test"].pid
            text == process[p].unread
<1>1. runSeq' = runSeq /\ ws' = ws /\ failures' = failures /\ TakesTurn("test", "out")
  BY DEF ReadTestOutput, TakesTurn
<1>2. /\ StateInv(slot, process, files, {ws}, runSeq, results) /\ ready \subseteq Fds
      /\ "test" \in Slots
  BY DEF IInv, Typed, Slots
<1>3. ASSUME NEW n \in 1..Len(text), results' = results \o SubSeq(text, 1, n),
             process' = [process EXCEPT ![p].unread = SubSeq(text, n + 1, Len(text))],
             UNCHANGED <<slot, files>>
      PROVE  StateInvNext
  <2>. DEFINE child == [process[p] EXCEPT !.unread = SubSeq(text, n + 1, Len(text))]
  <2>1. /\ slot \in [Slots -> SlotType] /\ process \in Seq(ProcessType)
        /\ files \in [Fds -> Entries] /\ runSeq \in Nat /\ results \in Seq(Words)
        /\ DescriptorsInv(slot, files, {ws}) /\ ChildrenInv(slot, process)
        /\ FlowInv(slot, process, runSeq) /\ ResultsInv(slot, process, results)
    BY <1>2 DEF StateInv
  <2>2. slot["test"].out \in Fds /\ slot["test"].out # NoFd
    <3>1. NoFd \notin Fds
      BY BoundsAssumption DEF Fds, NoFd
    <3>2. QED
      BY <1>1, <1>2, <3>1, TurnProperties
  <2>3. p # NoPid
    BY <1>2, <2>1, <2>2 DEF DescriptorsInv, Owned, HeldBy
  <2>4. p \in 1..Len(process) /\ process[p].kind = "test"
    BY <1>2, <2>1, <2>3 DEF ChildrenInv
  <2>5. process[p] \in ProcessType /\ text \in Seq(Words)
    BY <2>1, <2>4, ProcessFields
  <2>6. SubSeq(text, n + 1, Len(text)) \in Seq(Words) /\ SubSeq(text, 1, n) \in Seq(Words)
    BY <1>3, <2>5, PartsOfText
  <2>7. /\ child \in ProcessType /\ child.kind = "test" /\ child.flow = process[p].flow
        /\ child.state = process[p].state /\ child.logged = process[p].logged
        /\ child.orphan = process[p].orphan
        /\ child.written = process[p].written
        /\ child.unread = SubSeq(text, n + 1, Len(text))
    BY <2>4, <2>5, <2>6 DEF ProcessType
  <2>8. process' = [process EXCEPT ![p] = child]
    BY <1>3
  <2>. HIDE DEF child
  <2>9. /\ process' \in Seq(ProcessType) /\ Len(process') = Len(process)
        /\ \A q \in 1..Len(process) : process'[q] = IF q = p THEN child ELSE process[q]
    BY <2>1, <2>4, <2>7, <2>8, OneProcess
  <2>10. Continues(process, process')
    BY <2>4, <2>7, <2>9 DEF Continues, Alive, Active, Traced
  <2>11. ChildrenInv(slot, process')
    BY <2>1, <2>9, <2>10, ChildrenKept
  <2>12. FlowInv(slot, process', runSeq)
    BY <2>1, <2>9, <2>10, FlowKept
  <2>13. ResultsInv(slot, process', results')
    <3>1. ResultsInv(slot, [process EXCEPT ![p] = child], results \o SubSeq(text, 1, n))
      BY <2>1, <2>3, <2>7, ResultsAppended
    <3>2. QED
      BY <1>3, <2>8, <3>1
  <2>14. results' \in Seq(Words)
    BY <1>3, <2>1, <2>6, ConcatProperties
  <2>15. \A q \in 1..Len(process) :
           process'[q].flow = process[q].flow /\ process'[q].written = process[q].written
    BY <2>7, <2>9
  <2>16. QED
    BY <1>1, <1>3, <2>1, <2>9, <2>11, <2>12, <2>13, <2>14, <2>15, BoundedKept
       DEF StateInv, StateInvNext
<1>4. CASE TestOutputEnd
  BY <1>1, <1>4, TestOutputEnds
<1>5. QED
  BY <1>3, <1>4 DEF ReadTestOutput, TestOutputEnd


\* A child exits, or writes to a pipe that nobody reads.
ChildEnds(p) ==
  process' = [process EXCEPT ![p].state = "exited"]

LEMMA ChildEndsStep ==
  ASSUME IInv, NEW p \in Pids, Running(p), ChildEnds(p),
         UNCHANGED <<limits, slot, runSeq, ws, files, results, failures>>
  PROVE  StateInvNext
<1>. DEFINE child == [process[p] EXCEPT !.state = "exited"]
<1>1. /\ slot \in [Slots -> SlotType] /\ process \in Seq(ProcessType)
      /\ files \in [Fds -> Entries] /\ runSeq \in Nat /\ results \in Seq(Words)
      /\ DescriptorsInv(slot, files, {ws}) /\ ChildrenInv(slot, process)
      /\ FlowInv(slot, process, runSeq) /\ ResultsInv(slot, process, results)
  BY DEF IInv, StateInv
<1>2. p \in 1..Len(process) /\ process[p].state = "running"
  BY DEF Pids, Running
<1>3. process[p] \in ProcessType
  BY <1>1, <1>2, ProcessFields
<1>4. /\ child \in ProcessType /\ child.kind = process[p].kind /\ child.flow = process[p].flow
      /\ child.state = "exited" /\ child.logged = process[p].logged
      /\ child.orphan = process[p].orphan
      /\ child.written = process[p].written /\ child.unread = process[p].unread
  BY <1>3 DEF ProcessType, States
<1>5. process' = [process EXCEPT ![p] = child]
  BY DEF ChildEnds
<1>. HIDE DEF child
<1>6. /\ process' \in Seq(ProcessType) /\ Len(process') = Len(process)
      /\ \A q \in 1..Len(process) : process'[q] = IF q = p THEN child ELSE process[q]
  BY <1>1, <1>2, <1>4, <1>5, OneProcess
<1>7. Continues(process, process')
  BY <1>2, <1>4, <1>6 DEF Continues, Alive, Active, Traced
<1>8. ChildrenInv(slot, process')
  BY <1>1, <1>6, <1>7, ChildrenKept
<1>9. FlowInv(slot, process', runSeq)
  BY <1>1, <1>6, <1>7, FlowKept
<1>10. \A q \in 1..Len(process) :
         /\ process'[q].kind = process[q].kind /\ process'[q].flow = process[q].flow
         /\ process'[q].unread = process[q].unread /\ process'[q].written = process[q].written
  BY <1>4, <1>6
<1>11. ResultsInv(slot, process', results)
  BY <1>1, <1>6, <1>10, ResultsKept
<1>12. Bounded(limits', process', runSeq', failures')
  BY <1>6, <1>10, BoundedKept
<1>13. QED
  BY <1>1, <1>6, <1>8, <1>9, <1>11, <1>12 DEF StateInv, StateInvNext

\* A child writes to a pipe that the control server reads.
ChildSpeaks(p, word) ==
  process' = [process EXCEPT ![p].unread = Append(@, word), ![p].written = Append(@, word)]

LEMMA ChildSpeaksStep ==
  ASSUME IInv, NEW p \in Pids, NEW word \in Words, Len(process[p].written) < limits.writes,
         ChildSpeaks(p, word),
         UNCHANGED <<limits, slot, runSeq, ws, files, results, failures>>
  PROVE  StateInvNext
<1>. DEFINE child == [process[p] EXCEPT !.unread = Append(@, word), !.written = Append(@, word)]
<1>1. /\ slot \in [Slots -> SlotType] /\ process \in Seq(ProcessType)
      /\ files \in [Fds -> Entries] /\ runSeq \in Nat /\ results \in Seq(Words)
      /\ DescriptorsInv(slot, files, {ws}) /\ ChildrenInv(slot, process)
      /\ FlowInv(slot, process, runSeq) /\ ResultsInv(slot, process, results)
  BY DEF IInv, StateInv
<1>2. p \in 1..Len(process)
  BY DEF Pids
<1>3. /\ process[p] \in ProcessType
      /\ process[p].unread \in Seq(Words) /\ process[p].written \in Seq(Words)
  BY <1>1, <1>2, ProcessFields
<1>4. /\ Append(process[p].unread, word) \in Seq(Words)
      /\ Append(process[p].written, word) \in Seq(Words)
      /\ Len(Append(process[p].written, word)) = Len(process[p].written) + 1
      /\ Len(process[p].written) \in Nat
  BY <1>3
<1>5. /\ child \in ProcessType /\ child.kind = process[p].kind /\ child.flow = process[p].flow
      /\ child.state = process[p].state /\ child.logged = process[p].logged
      /\ child.orphan = process[p].orphan
      /\ child.written = Append(process[p].written, word)
      /\ child.unread = Append(process[p].unread, word)
  BY <1>3, <1>4 DEF ProcessType
<1>6. process' = [process EXCEPT ![p] = child]
  BY DEF ChildSpeaks
<1>. HIDE DEF child
<1>7. /\ process' \in Seq(ProcessType) /\ Len(process') = Len(process)
      /\ \A q \in 1..Len(process) : process'[q] = IF q = p THEN child ELSE process[q]
  BY <1>1, <1>2, <1>5, <1>6, OneProcess
<1>8. Continues(process, process')
  BY <1>2, <1>5, <1>7 DEF Continues, Alive, Active, Traced
<1>9. ChildrenInv(slot, process')
  BY <1>1, <1>7, <1>8, ChildrenKept
<1>10. FlowInv(slot, process', runSeq)
  BY <1>1, <1>7, <1>8, FlowKept
<1>11. ResultsInv(slot, process', results)
  <2>1. ResultsInv(slot, [process EXCEPT ![p] = child], results)
    BY <1>1, <1>2, <1>5, WordWritten
  <2>2. QED
    BY <1>6, <2>1
<1>12. Bounded(limits', process', runSeq', failures')
  <2>1. Bounded(limits, process, runSeq, failures) /\ limits.writes \in Nat
    BY LimitsType DEF IInv, Typed
  <2>2. \A q \in 1..Len(process) : /\ process'[q].flow = process[q].flow
                                   /\ Len(process'[q].written) <= limits.writes
    <3>1. Len(child.written) <= limits.writes
      BY <1>4, <1>5, <2>1
    <3>2. QED
      BY <1>5, <1>7, <2>1, <3>1 DEF Bounded
  <2>3. QED
    BY <1>7, <2>1, <2>2 DEF Bounded
<1>13. QED
  BY <1>1, <1>7, <1>9, <1>10, <1>11, <1>12 DEF StateInv, StateInvNext


-----------------------------------------------------------------------------
(***************************************************************************)
(* The inductive invariant.                                                *)
(***************************************************************************)

\* Outside of a request no descriptor has to be left for the connection.
LEMMA NotConnecting ==
  ASSUME StateInvNext, IInv, UNCHANGED limits,
         phase' \in Phases, phase' \notin {"reading", "request"}, ready' \subseteq Fds,
         ws' \in Fds \cup {NoFd}, failures' \in Nat
  PROVE  IInv'
<1>1. Typed' /\ Connectable'
  BY DEF IInv, Typed, Connectable
<1>2. /\ StateInv(slot, process, files, {ws}, runSeq, results)'
      /\ Bounded(limits, process, runSeq, failures)'
  BY DEF StateInvNext
<1>3. QED
  BY <1>1, <1>2 DEF IInv

\* A request ends, with whatever it did.
LEMMA RequestKeepsIInv ==
  ASSUME IInv, Request, UNCHANGED limits
  PROVE  IInv'
<1>1. ready \subseteq Fds /\ ws \in Fds \cup {NoFd} /\ failures \in Nat
  BY DEF IInv, Typed
<1>2. CASE AnyOtherRequest
  <2>1. StateInvNext
    BY <1>2, NothingChanges DEF AnyOtherRequest, Answered
  <2>2. QED
    BY <1>1, <1>2, <2>1, NotConnecting DEF AnyOtherRequest, Answered, Phases
<1>3. CASE ServerStart
  <2>1. StateInvNext
    BY <1>3, ServerStartStep
  <2>2. failures' \in Nat
    BY <1>1, <1>3 DEF ServerStart, StartChild, Started, NotStarted
  <2>3. QED
    BY <1>1, <1>3, <2>1, <2>2, NotConnecting DEF ServerStart, Answered, Phases
<1>4. ASSUME NEW interactive \in BOOLEAN, ClientStart(interactive)
      PROVE  IInv'
  <2>1. StateInvNext
    BY <1>4, ClientStartStep
  <2>2. failures' \in Nat
    BY <1>1, <1>4 DEF ClientStart, StartChild, Started, NotStarted
  <2>3. QED
    BY <1>1, <1>4, <2>1, <2>2, NotConnecting DEF ClientStart, Answered, Phases
<1>5. ASSUME NEW s \in {"server", "client"}, Stop(s)
      PROVE  IInv'
  <2>1. StateInvNext
    BY <1>5, StopStep
  <2>2. QED
    BY <1>1, <1>5, <2>1, NotConnecting DEF Stop, Answered, Phases
<1>6. CASE RunTests
  <2>1. StateInvNext
    BY <1>6, RunTestsStep
  <2>2. failures' \in Nat
    BY <1>1, <1>6 DEF RunTests, StartChild, Started, NotStarted
  <2>3. QED
    BY <1>1, <1>6, <2>1, <2>2, NotConnecting DEF RunTests, Answered, Phases
<1>7. CASE Reset
  <2>1. StateInvNext
    BY <1>7, ResetStep
  <2>2. QED
    BY <1>1, <1>7, <2>1, NotConnecting DEF Reset, Answered, Phases
<1>8. CASE SendPassword
  <2>1. StateInvNext
    BY <1>8, NothingChanges DEF SendPassword
  <2>2. QED
    BY <1>1, <1>8, <2>1, NotConnecting DEF SendPassword, Phases
<1>9. CASE WebSocketConnect
  <2>1. StateInvNext
    BY <1>9, WebSocketConnectStep
  <2>2. ws' \in Fds
    BY <1>9, ConnectionOpen DEF WebSocketConnect
  <2>3. QED
    BY <1>1, <1>9, <2>1, <2>2, NotConnecting DEF WebSocketConnect, Phases
<1>10. QED
  BY <1>2, <1>3, <1>4, <1>5, <1>6, <1>7, <1>8, <1>9 DEF Request

\* select returns open descriptors; a browser that connects needs one more.
LEMMA SelectKeepsIInv ==
  ASSUME IInv, Select, UNCHANGED limits
  PROVE  IInv'
<1>1. UNCHANGED <<slot, runSeq, ws, files, process, results, failures>>
  BY DEF Select
<1>2. StateInvNext
  BY <1>1, NothingChanges
<1>3. /\ StateInv(slot, process, files, {ws}, runSeq, results)'
      /\ Bounded(limits, process, runSeq, failures)'
  BY <1>2 DEF StateInvNext
<1>4. ready' \subseteq Fds
  <2>1. ASSUME NEW s \in Slots
        PROVE  Readable(s) \subseteq Fds
    BY DEF Readable, IInv, StateInv, SlotType
  <2>2. ws \in Fds \cup {NoFd}
    BY DEF IInv, Typed
  <2>3. PICK fromBrowser \in SUBSET ({ws} \ {NoFd}) :
          ready' = (UNION {Readable(s) : s \in Slots}) \cup fromBrowser
    BY DEF Select
  <2>4. \A f \in ready' : f \in fromBrowser \/ \E s \in Slots : f \in Readable(s)
    BY <2>3
  <2>5. QED
    BY <2>1, <2>2, <2>4
<1>5. Typed'
  BY <1>1, <1>4 DEF IInv, Typed, Select, Phases
<1>6. Connectable'
  BY <1>1 DEF Connectable, Select, FreeFds
<1>7. QED
  BY <1>3, <1>5, <1>6 DEF IInv

LEMMA LoopKeepsIInv ==
  ASSUME IInv, Loop
  PROVE  IInv'
<1>1. /\ ready \subseteq Fds /\ ws \in Fds \cup {NoFd} /\ failures \in Nat
      /\ "test" \in Slots /\ UNCHANGED limits
  BY DEF IInv, Typed, Slots, Loop
<1>2. CASE Select
  BY <1>1, <1>2, SelectKeepsIInv
<1>3. CASE Request
  BY <1>1, <1>3, RequestKeepsIInv
<1>4. ASSUME NEW s \in {"server", "client"}, ReadOutput(s)
      PROVE  IInv'
  <2>1. StateInvNext
    BY <1>1, <1>4, ReadOutputStep
  <2>2. TakesTurn(s, "out") /\ s \in Slots
    BY <1>4 DEF ReadOutput, Slots
  <2>3. phase' = "output" /\ ready' \subseteq Fds
    BY <1>1, <2>2, TurnProperties
  <2>4. UNCHANGED <<ws, failures>>
    BY <2>2 DEF TakesTurn
  <2>5. QED
    BY <1>1, <2>1, <2>3, <2>4, NotConnecting DEF Phases
<1>5. ASSUME NEW s \in {"server", "client"}, ReadErrors(s)
      PROVE  IInv'
  <2>1. TakesTurn(s, "err") /\ s \in Slots /\ UNCHANGED <<slot, files, process, results>>
    BY <1>5 DEF ReadErrors, Slots
  <2>2. UNCHANGED <<runSeq, ws, failures>>
    BY <2>1 DEF TakesTurn
  <2>3. StateInvNext
    BY <1>1, <2>1, <2>2, NothingChanges
  <2>4. phase' = "output" /\ ready' \subseteq Fds
    BY <1>1, <2>1, TurnProperties
  <2>5. QED
    BY <1>1, <2>2, <2>3, <2>4, NotConnecting DEF Phases
<1>6. CASE ReadTestOutput
  <2>1. StateInvNext
    BY <1>1, <1>6, ReadTestOutputStep
  <2>2. TakesTurn("test", "out")
    BY <1>6 DEF ReadTestOutput
  <2>3. phase' = "output" /\ ready' \subseteq Fds
    BY <1>1, <2>2, TurnProperties
  <2>4. UNCHANGED <<ws, failures>>
    BY <2>2 DEF TakesTurn
  <2>5. QED
    BY <1>1, <2>1, <2>3, <2>4, NotConnecting DEF Phases
<1>7. CASE ReadTestErrors
  <2>1. StateInvNext
    BY <1>1, <1>7, ReadTestErrorsStep
  <2>2. TakesTurn("test", "err")
    BY <1>7 DEF ReadTestErrors
  <2>3. phase' = "output" /\ ready' \subseteq Fds
    BY <1>1, <2>2, TurnProperties
  <2>4. UNCHANGED <<ws, failures>>
    BY <2>2 DEF TakesTurn
  <2>5. QED
    BY <1>1, <2>1, <2>3, <2>4, NotConnecting DEF Phases
<1>8. CASE ReadWebSocket
  <2>1. StateInvNext
    BY <1>1, <1>8, ReadWebSocketStep
  <2>2. /\ phase' = "output" /\ ready' \subseteq Fds /\ ws' \in Fds \cup {NoFd}
        /\ UNCHANGED failures
    BY <1>1, <1>8 DEF ReadWebSocket
  <2>3. QED
    BY <1>1, <2>1, <2>2, NotConnecting DEF Phases
<1>9. CASE Reap
  <2>1. StateInvNext
    BY <1>1, <1>9, ReapStep
  <2>2. /\ phase' = "select" /\ ready' \subseteq Fds /\ ws' \in Fds \cup {NoFd}
        /\ UNCHANGED failures
    BY <1>1, <1>9 DEF Reap
  <2>3. QED
    BY <1>1, <2>1, <2>2, NotConnecting DEF Phases
<1>10. QED
  BY <1>2, <1>3, <1>4, <1>5, <1>6, <1>7, <1>8, <1>9 DEF Loop

\* The children run while the control server is anywhere, also in a request.
LEMMA ChildKeepsIInv ==
  ASSUME IInv, Child, UNCHANGED limits
  PROVE  IInv'
<1>1. PICK p \in Pids : ChildExits(p) \/ \E word \in Words : ChildWrites(p, word)
  BY DEF Child
<1>2. UNCHANGED <<phase, ready, slot, runSeq, ws, files, results, failures>>
  BY <1>1 DEF ChildExits, ChildWrites
<1>3. StateInvNext
  <2>1. CASE ChildExits(p)
    BY <1>2, <2>1, ChildEndsStep DEF ChildExits, ChildEnds
  <2>2. ASSUME NEW word \in Words, ChildWrites(p, word)
        PROVE  StateInvNext
    <3>1. Running(p) /\ Len(process[p].written) < limits.writes
      BY <2>2 DEF ChildWrites
    <3>2. CASE HasReader(p)
      <4>1. ChildSpeaks(p, word)
        BY <2>2, <3>2 DEF ChildWrites, ChildSpeaks
      <4>2. QED
        BY <1>2, <3>1, <4>1, ChildSpeaksStep
    <3>3. CASE ~HasReader(p)
      <4>1. ChildEnds(p)
        BY <2>2, <3>3 DEF ChildWrites, ChildEnds
      <4>2. QED
        BY <1>2, <3>1, <4>1, ChildEndsStep
    <3>4. QED
      BY <3>2, <3>3
  <2>3. QED
    BY <1>1, <2>1, <2>2
<1>4. Typed' /\ Connectable'
  BY <1>2 DEF IInv, Typed, Connectable, FreeFds
<1>5. QED
  BY <1>3, <1>4 DEF IInv, StateInvNext

\* After a start of the control server nothing is in a slot, and every child is an orphan.
LEMMA RestartKeepsIInv ==
  ASSUME IInv, Restart, UNCHANGED limits
  PROVE  IInv'
<1>. DEFINE n == Len(process)
<1>1. /\ phase' = "select" /\ ready' = {} /\ slot' = [s \in Slots |-> Fresh]
      /\ runSeq' = 0 /\ ws' = NoFd /\ files' = [f \in Fds |-> Free]
      /\ process' = Orphaned /\ results' = results /\ failures' = failures
  BY DEF Restart
<1>2. /\ slot \in [Slots -> SlotType] /\ process \in Seq(ProcessType)
      /\ results \in Seq(Words) /\ ChildrenInv(slot, process)
      /\ ResultsInv(slot, process, results)
  BY DEF IInv, StateInv
<1>3. n \in Nat /\ \A p \in 1..n : process[p] \in ProcessType
  BY <1>2, ProcessFields, LenProperties
<1>4. process' = [p \in 1..n |-> [process[p] EXCEPT !.orphan = TRUE]]
  BY <1>1 DEF Orphaned, Pids
<1>5. \A p \in 1..n : /\ process'[p] \in ProcessType /\ process'[p].orphan
                      /\ process'[p].kind = process[p].kind /\ process'[p].flow = process[p].flow
                      /\ process'[p].unread = process[p].unread
                      /\ process'[p].written = process[p].written
  BY <1>3, <1>4 DEF ProcessType
<1>6. process' \in Seq(ProcessType) /\ Len(process') = n
  <2>1. process' \in [1..n -> ProcessType]
    BY <1>4, <1>5
  <2>. HIDE DEF n
  <2>2. QED
    BY <1>3, <2>1, FunctionIsSeq
<1>7. \A p \in 1..n : ~Alive(process'[p]) /\ ~Active(process'[p]) /\ ~Traced(process'[p])
  BY <1>5 DEF Alive, Active, Traced
<1>8. /\ slot' \in [Slots -> SlotType]
      /\ \A s \in Slots : /\ slot'[s].pid = NoPid /\ slot'[s].out = NoFd /\ slot'[s].err = NoFd
                          /\ slot'[s].in = NoFd /\ slot'[s].result = "Pending"
  BY <1>1 DEF Fresh, Empty, SlotType, NoPid, Results
<1>9. files' \in [Fds -> Entries] /\ \A f \in Fds : files'[f] = Free
  BY <1>1 DEF Entries
<1>10. NoFd \notin Fds
  BY BoundsAssumption DEF Fds, NoFd
<1>11. DescriptorsInv(slot', files', {ws'})
  BY <1>1, <1>8, <1>9, <1>10
     DEF DescriptorsInv, Owned, FieldsDiffer, PidsDiffer, HeldBy, Free, Socket
<1>12. ChildrenInv(slot', process')
  BY <1>6, <1>7, <1>8 DEF ChildrenInv
<1>13. FlowInv(slot', process', 0)
  BY <1>6, <1>7, <1>8 DEF FlowInv, Slots
<1>14. ResultsInv(slot', process', results)
  <2>1. slot'["test"].pid \in {NoPid, slot["test"].pid}
    BY <1>8 DEF Slots
  <2>2. \A s \in Slots : slot'[s].result \in Words => slot'[s].result = slot[s].result
    BY <1>8 DEF Words
  <2>3. QED
    BY <1>2, <1>5, <1>6, <1>8, <2>1, <2>2, ResultsKept
<1>15. Bounded(limits', process', runSeq', failures')
  BY <1>1, <1>5, <1>6, BoundedKept
<1>16. Typed' /\ Connectable'
  BY <1>1, <1>10 DEF IInv, Typed, Connectable, Phases
<1>17. QED
  BY <1>1, <1>2, <1>6, <1>8, <1>9, <1>11, <1>12, <1>13, <1>14, <1>15, <1>16 DEF IInv, StateInv

LEMMA IInvNext == IInv /\ [Next]_vars => IInv'
<1>. SUFFICES ASSUME IInv, [Next]_vars
              PROVE  IInv'
  OBVIOUS
<1>1. CASE Loop
  BY <1>1, LoopKeepsIInv
<1>2. CASE RequestArrives /\ UNCHANGED limits
  <2>1. UNCHANGED <<limits, ready, slot, runSeq, ws, files, process, results, failures>>
    BY <1>2 DEF RequestArrives
  <2>2. Typed' /\ Connectable'
    BY <1>2, <2>1 DEF RequestArrives, IInv, Typed, Connectable, Phases, FreeFds
  <2>3. QED
    BY <2>1, <2>2 DEF IInv
<1>3. CASE BrowserGone /\ UNCHANGED limits
  <2>1. UNCHANGED <<limits, ready, slot, runSeq, ws, files, process, results, failures>>
    BY <1>3 DEF BrowserGone
  <2>2. Typed' /\ Connectable'
    BY <1>3, <2>1 DEF BrowserGone, IInv, Typed, Connectable, Phases
  <2>3. QED
    BY <2>1, <2>2 DEF IInv
<1>4. CASE Child /\ UNCHANGED limits
  BY <1>4, ChildKeepsIInv
<1>5. CASE Restart /\ UNCHANGED limits
  BY <1>5, RestartKeepsIInv
<1>6. CASE UNCHANGED vars
  BY <1>6 DEF vars, IInv, Typed, Connectable, FreeFds
<1>7. QED
  BY <1>1, <1>2, <1>3, <1>4, <1>5, <1>6 DEF Next

-----------------------------------------------------------------------------
\* In every state the slots, the descriptors, the children and the flow fit together,
\* and a descriptor is free for the connection of a request.
THEOREM Invariant == Spec => []IInv
<1>1. QED
  BY IInvInit, IInvNext, PTL DEF Spec

\* The variables keep to their types and the environment's bounds.
THEOREM TypeCorrect == Spec => []TypeOK
<1>1. QED
  BY Invariant, IInvImplies, PTL

\* child_init, start_child, stop_child, reap_child and the reads of main: an open pipe
\* belongs to the child of one slot, whatever the number of descriptors, and an open
\* connection is the one in ws_fd. Only a failed start_child loses pipes.
THEOREM NoDescriptorLeaks == Spec => []DescriptorsOwned
<1>1. QED
  BY Invariant, IInvImplies, PTL

\* A child of this control server that runs or waits to be reaped is in the slot it was
\* started for; those of a control server before it, its orphans, nobody waits for.
THEOREM NoChildForgotten == Spec => []ChildrenInSlots
<1>1. QED
  BY Invariant, IInvImplies, PTL

\* No result of an earlier run is shown, of a child or of the tests.
THEOREM ResultsCurrent == Spec => []ResultsOfLastRun
<1>1. QED
  BY Invariant, IInvImplies, PTL

\* experiment_configure and experiment_clear, between two starts of the control server:
\* a client that runs beside a server writes the server's flow, and a flow has one server
\* in the logs. Across a start it is not so: see FlowOfOneExperiment.
THEOREM FlowAligned == Spec => []FlowAlignsLogs
<1>1. QED
  BY Invariant, IInvImplies, PTL
=============================================================================
