---------------------------- MODULE Ports_proofs ----------------------------
(* Proofs about Ports, for any number of threads and ports, any calls, and any  *)
(* sizes of the buffers and of what is put into them: first about the locks,    *)
(* and then about what the locks are for, which is the table of buffered output *)
(* ports, the bytes of a put, what has been written to the devices, and what    *)
(* has been read from them.                                                     *)
EXTENDS Ports, SequenceTheorems, FiniteSetTheorems, WellFoundedInduction, TLAPS

-----------------------------------------------------------------------------
(* What the operations in progress are.                                        *)

Slot == DOMAIN InitialSlots
LockOps == {"put", "putc", "flush-port", "close", "lock!"} \cup Reads

\* Where an operation is.
Labels == LockOps \cup {"lock", "unlock", "write", "flush", "force", "store", "release", "flushed", "closing",
                       "read", "flush-all", "fa-read", "fa-write", "fa-adjust", "fa-restore",
                       "link-1", "link-2", "link-3", "open"}

\* What a frame has in q: a port, or the number of a put, which is what its bytes are.
Tags == AllPorts \cup {NoPort} \cup Nat

Frames == [op : Operations, p : AllPorts \cup {NoPort}, at : Labels, locked : BOOLEAN, next : Labels,
           q : Tags, n : Nat, save : [Slot -> OPorts \cup {NoPort}]]

\* The steps of each operation.
Stage(f) ==
    \/ f.op \in LockOps /\ f.at \in {"lock", f.op}
    \/ f.op \in LockOps \ {"lock!"} /\ f.at = "unlock"
    \/ f.op = "put" /\ \/ f.at = "write"
                       \/ f.at = "flush" /\ f.next = "write"
                       \/ f.at = "force" /\ f.next = "unlock"
    \/ f.op = "putc" /\ (f.at = "store" \/ (f.at = "flush" /\ f.next \in {"store", "unlock"}))
    \/ f.op = "flush-port" /\ (f.at \in {"release", "flushed"} \/ (f.at = "force" /\ f.next = "release"))
    \/ f.op = "close" /\ (f.at = "closing" \/ (f.at = "force" /\ f.next = "closing"))
    \/ f.op \in Reads /\ f.at = "read"
    \/ f.op = "flush-all" /\ f.at \in {"flush-all", "fa-read", "fa-write", "fa-adjust", "fa-restore"}
    \/ f.op \in {"link", "unlink"} /\ f.at \in {"link-1", "link-2", "link-3"}
    \/ f.op = "open" /\ f.at = "open"

\* The ports they work on.
PortFit(f) ==
    /\ f.op \in {"open", "put", "putc", "flush-port"} => f.p \in OPorts
    /\ f.op \in Reads \cup {"link", "unlink"} => f.p \in IPorts
    /\ f.op \in {"link", "unlink"} => f.q \in OPorts
    /\ f.op \in {"close", "lock!"} => f.p \in AllPorts
    /\ f.op = "close" /\ f.at = "force" => f.p \in OPorts
    /\ f.at \in {"fa-read", "fa-write", "fa-adjust"} => f.p \in OPorts

\* When they may have taken a lock, and slots of the table.
LockFit(f) ==
    /\ f.locked => f.op \in LockOps /\ f.at \notin {"lock", "flushed"}
    /\ f.at = "lock!" => f.locked
    /\ f.op # "flush-all" => \A s \in Slot : f.save[s] = NoPort

Fit(f) == f \in Frames /\ Stage(f) /\ PortFit(f) /\ LockFit(f)

Stack(c) ==
    /\ Len(c) <= 2 /\ (c # <<>> => Fit(c[1]))
    /\ Len(c) = 2 => Fit(c[2]) /\ c[2].at = "read" /\ c[1].op = "flush-port"

PortTypes ==
    /\ lock \in [AllPorts -> [owner : Threads \cup {NoThread}, count : Nat]]
    /\ link \in [AllPorts -> AllPorts \cup {NoPort}]
    /\ \A i \in IPorts : link[i] \in OPorts \cup {NoPort}
    /\ \A o \in OPorts : link[o] \in IPorts \cup {NoPort}
    /\ slots \in [Slot -> OPorts \cup {NoPort, Taken}]
    /\ made \subseteq AllPorts /\ leaked \subseteq IPorts /\ dead \subseteq Threads
    /\ held \in [Threads -> SUBSET AllPorts] /\ puts \in Nat

StreamTypes ==
    buf \in [OPorts -> Seq(Tags)] /\ device \in [OPorts -> Seq(Tags)] /\ entered \in [OPorts -> Seq(Tags)]

Stacks(t) ==
    /\ Stack(call[t]) /\ (t \in dead => call[t] = <<>>)
    /\ call[t] # <<>> /\ Top(t).op = "lock!" => Top(t).p \notin held[t]

\* How often t has locked p.
Owns(f, p) ==
    \/ f.locked /\ f.p = p
    \/ f.at = "link-2" /\ f.p = p
    \/ f.at = "link-3" /\ p \in {f.p, f.q}
One(b) == IF b THEN 1 ELSE 0
Times(c, h, p) ==
    One(c # <<>> /\ Owns(c[1], p)) + One(Len(c) = 2 /\ Owns(c[2], p)) + One(p \in h)
LockRight(p) ==
    /\ lock[p].owner = NoThread <=> lock[p].count = 0
    /\ p \notin leaked => \A t \in Threads \ dead :
          Times(call[t], held[t], p) = IF lock[p].owner = t THEN lock[p].count ELSE 0

LockInv ==
    /\ PortTypes /\ StreamTypes /\ call \in [Threads -> Seq(Frames)] /\ \A t \in Threads : Stacks(t)
    /\ \A p \in AllPorts : LockRight(p)

\* What a step of t does to the lock of p: nothing, take it, or give it back once.
Same(t, p) ==
    /\ lock'[p] = lock[p]
    /\ Times(call'[t], held'[t], p) = Times(call[t], held[t], p)
Takes(t, p) ==
    /\ CanLock(t, p) /\ lock'[p] = Locked(t, p)[p]
    /\ Times(call'[t], held'[t], p) = Times(call[t], held[t], p) + 1
Gives(t, p) ==
    /\ lock'[p] = Unlocked(lock, p)[p]
    /\ Times(call[t], held[t], p) = Times(call'[t], held'[t], p) + 1

\* A step of t keeps the types, and leaves the other threads alone.
Moves(t) ==
    /\ PortTypes' /\ StreamTypes' /\ call' \in [Threads -> Seq(Frames)] /\ Stacks(t)'
    /\ t \notin dead /\ dead' = dead /\ leaked \subseteq leaked'
    /\ \A u \in Threads \ {t} : call'[u] = call[u] /\ held'[u] = held[u]
    /\ \A p \in AllPorts :
          /\ lock'[p] \in {lock[p], Locked(t, p)[p], Unlocked(lock, p)[p]}
          /\ p \notin leaked' => Same(t, p) \/ Takes(t, p) \/ Gives(t, p)

\* The count is a number.
LEMMA TimesNat == \A c, h, p : Times(c, h, p) \in Nat
  BY DEF Times, One

\* The two records that PORT_LOCK and PORT_UNLOCK leave.
LEMMA LockRecords ==
    ASSUME PortTypes, NEW t \in Threads, NEW p \in AllPorts
    PROVE  /\ lock[p].owner \in Threads \cup {NoThread} /\ lock[p].count \in Nat
           /\ Locked(t, p)[p].owner = t
           /\ Locked(t, p)[p].count = IF lock[p].owner = t THEN lock[p].count + 1 ELSE 1
           /\ Unlocked(lock, p)[p].owner = IF lock[p].count > 1 THEN lock[p].owner ELSE NoThread
           /\ Unlocked(lock, p)[p].count = IF lock[p].count > 1 THEN lock[p].count - 1 ELSE 0
           /\ Locked(t, p) \in [AllPorts -> [owner : Threads \cup {NoThread}, count : Nat]]
           /\ Unlocked(lock, p) \in [AllPorts -> [owner : Threads \cup {NoThread}, count : Nat]]
           /\ \A r \in AllPorts \ {p} : Locked(t, p)[r] = lock[r] /\ Unlocked(lock, p)[r] = lock[r]
<1> DEFINE L == [owner : Threads \cup {NoThread}, count : Nat]
<1>1. lock \in [AllPorts -> L] /\ lock[p] \in L
  BY DEF PortTypes
<1>2. /\ Locked(t, p) \in [AllPorts -> L] /\ Locked(t, p)[p].owner = t
      /\ Locked(t, p)[p].count = IF lock[p].owner = t THEN lock[p].count + 1 ELSE 1
  BY <1>1 DEF Locked
<1>3. /\ Unlocked(lock, p) \in [AllPorts -> L]
      /\ Unlocked(lock, p)[p].owner = IF lock[p].count > 1 THEN lock[p].owner ELSE NoThread
      /\ Unlocked(lock, p)[p].count = IF lock[p].count > 1 THEN lock[p].count - 1 ELSE 0
  BY <1>1 DEF Unlocked
<1>4. \A r \in AllPorts \ {p} : Locked(t, p)[r] = lock[r] /\ Unlocked(lock, p)[r] = lock[r]
  BY <1>1 DEF Locked, Unlocked
<1> QED
  BY <1>1, <1>2, <1>3, <1>4

\* Such a step keeps the locks right.
LEMMA MovesKeeps ==
    ASSUME PortsAssumption, LockInv, NEW t \in Threads, Moves(t)
    PROVE  LockInv'
<1>1. ASSUME NEW u \in Threads PROVE Stacks(u)'
  <2>1. CASE u = t
    BY <2>1 DEF Moves
  <2>2. CASE u # t
    <3>1. call'[u] = call[u] /\ held'[u] = held[u] /\ dead' = dead /\ Stacks(u)
      BY <2>2 DEF Moves, LockInv
    <3> QED
      BY <3>1 DEF Stacks, Top
  <2> QED
    BY <2>1, <2>2
<1>2. ASSUME NEW p \in AllPorts PROVE LockRight(p)'
  <2>1. LockRight(p) /\ PortTypes
    BY DEF LockInv
  <2>2. /\ lock[p].owner \in Threads \cup {NoThread} /\ lock[p].count \in Nat
        /\ Locked(t, p)[p].owner = t
        /\ Locked(t, p)[p].count = IF lock[p].owner = t THEN lock[p].count + 1 ELSE 1
        /\ Unlocked(lock, p)[p].owner = IF lock[p].count > 1 THEN lock[p].owner ELSE NoThread
        /\ Unlocked(lock, p)[p].count = IF lock[p].count > 1 THEN lock[p].count - 1 ELSE 0
        /\ t # NoThread
    BY <2>1, LockRecords DEF PortsAssumption
  <2>3. lock'[p].owner = NoThread <=> lock'[p].count = 0
    <3>1. lock'[p] \in {lock[p], Locked(t, p)[p], Unlocked(lock, p)[p]}
      BY DEF Moves
    <3>2. lock[p].owner = NoThread <=> lock[p].count = 0
      BY <2>1 DEF LockRight
    <3>3. CASE lock'[p] = lock[p]
      BY <3>2, <3>3
    <3>4. CASE lock'[p] = Locked(t, p)[p]
      BY <2>2, <3>4
    <3>5. CASE lock'[p] = Unlocked(lock, p)[p]
      BY <2>2, <3>2, <3>5
    <3> QED
      BY <3>1, <3>3, <3>4, <3>5
  <2>4. ASSUME p \notin leaked', NEW u \in Threads \ dead'
        PROVE  Times(call'[u], held'[u], p) = IF lock'[p].owner = u THEN lock'[p].count ELSE 0
    <3>1. /\ p \notin leaked /\ u \notin dead /\ t \notin dead /\ u # NoThread
          /\ Same(t, p) \/ Takes(t, p) \/ Gives(t, p)
      BY <2>4 DEF Moves, PortsAssumption
    <3>2. /\ Times(call[u], held[u], p) = IF lock[p].owner = u THEN lock[p].count ELSE 0
          /\ Times(call[t], held[t], p) = IF lock[p].owner = t THEN lock[p].count ELSE 0
          /\ Times(call[t], held[t], p) \in Nat /\ Times(call'[t], held'[t], p) \in Nat
      BY <2>1, <3>1, TimesNat DEF LockRight
    <3>3. u # t => Times(call'[u], held'[u], p) = Times(call[u], held[u], p)
      BY DEF Moves
    <3>4. CASE Same(t, p)
      BY <3>2, <3>3, <3>4 DEF Same
    <3>5. CASE Takes(t, p)
      <4>1. /\ lock'[p].owner = t /\ (u # t => lock[p].owner # u)
            /\ lock'[p].count = IF lock[p].owner = t THEN lock[p].count + 1 ELSE 1
            /\ Times(call'[t], held'[t], p) = Times(call[t], held[t], p) + 1
        BY <2>2, <3>1, <3>5 DEF Takes, CanLock
      <4> QED
        BY <2>2, <3>2, <3>3, <4>1
    <3>6. CASE Gives(t, p)
      <4>1. /\ lock'[p].owner = IF lock[p].count > 1 THEN lock[p].owner ELSE NoThread
            /\ lock'[p].count = IF lock[p].count > 1 THEN lock[p].count - 1 ELSE 0
            /\ Times(call[t], held[t], p) = Times(call'[t], held'[t], p) + 1
        BY <2>2, <3>6 DEF Gives
      <4>2. lock[p].owner = t /\ lock[p].count = Times(call'[t], held'[t], p) + 1
        BY <3>2, <4>1
      <4> QED
        BY <2>2, <3>1, <3>2, <3>3, <4>1, <4>2
    <3> QED
      BY <3>1, <3>4, <3>5, <3>6
  <2> QED
    BY <2>3, <2>4 DEF LockRight
<1> QED
  BY <1>1, <1>2 DEF LockInv, Moves

\* The frames a thread has.
LEMMA TopFacts ==
    ASSUME LockInv, NEW t \in Threads, call[t] # <<>>
    PROVE  /\ PortTypes /\ call[t] \in Seq(Frames) /\ Len(call[t]) \in {1, 2}
           /\ Stacks(t) /\ t \notin dead /\ Fit(Top(t)) /\ Top(t) \in Frames
           /\ Top(t).op # "flush-port" => Len(call[t]) = 1
<1>1. PortTypes /\ call[t] \in Seq(Frames) /\ Stacks(t) /\ Stack(call[t])
  BY DEF LockInv, Stacks
<1>2. Len(call[t]) \in Nat /\ Len(call[t]) # 0
  BY <1>1, EmptySeq, LenProperties
<1>3. Len(call[t]) <= 2 /\ Fit(Top(t))
  BY <1>1 DEF Stack, Top
<1>4. t \notin dead
  BY <1>1 DEF Stacks
<1>5. Len(call[t]) \in {1, 2}
  <2>1. \A n \in Nat : n # 0 /\ n <= 2 => n \in {1, 2}
    OBVIOUS
  <2> QED
    BY <1>2, <1>3, <2>1
<1>6. Top(t) \in Frames
  BY <1>3 DEF Fit
<1>7. Top(t).op # "flush-port" => Len(call[t]) = 1
  BY <1>1, <1>5 DEF Stack, Top
<1> QED
  BY <1>1, <1>3, <1>4, <1>5, <1>6, <1>7

\* The innermost frame becomes f.
LEMMA SetFrame ==
    ASSUME LockInv, NEW t \in Threads, call[t] # <<>>, NEW f, Set(t, f), Fit(f),
           f.op = Top(t).op, f.op = "lock!" => f.p = Top(t).p, held' = held, dead' = dead
    PROVE  /\ call' \in [Threads -> Seq(Frames)] /\ Stacks(t)' /\ t \notin dead
           /\ call'[t] # <<>> /\ Top(t)' = f /\ Len(call'[t]) = Len(call[t])
           /\ Len(call[t]) = 2 => call'[t][2] = call[t][2]
           /\ \A u \in Threads \ {t} : call'[u] = call[u]
           /\ \A p : Times(call'[t], held'[t], p) + One(Owns(Top(t), p))
                       = Times(call[t], held[t], p) + One(Owns(f, p))
<1>1. /\ call[t] \in Seq(Frames) /\ Len(call[t]) \in {1, 2} /\ Stacks(t) /\ t \notin dead
      /\ call \in [Threads -> Seq(Frames)] /\ f \in Frames
  BY TopFacts DEF LockInv, Fit
<1> DEFINE c == [call[t] EXCEPT ![1] = f]
<1>2. call' = [call EXCEPT ![t] = c]
  BY <1>1 DEF Set
<1>3. c \in Seq(Frames) /\ Len(c) = Len(call[t]) /\ \A j \in 1..Len(call[t]) : c[j] = IF j = 1 THEN f ELSE call[t][j]
  <2>1. 1 \in 1..Len(call[t])
    BY <1>1
  <2> QED
    BY <1>1, <2>1, ExceptSeq
<1> HIDE DEF c
<1>4. c[1] = f /\ (Len(call[t]) = 2 => c[2] = call[t][2]) /\ c # <<>>
  BY <1>1, <1>3, EmptySeq
<1>5. /\ call' \in [Threads -> Seq(Frames)] /\ call'[t] = c
      /\ \A u \in Threads \ {t} : call'[u] = call[u]
  BY <1>1, <1>2, <1>3
<1>6. Top(t)' = f
  BY <1>4, <1>5 DEF Top
<1>7. Stack(c)
  <2>1. Stack(call[t]) /\ call[t][1].op = f.op
    BY <1>1 DEF Stacks, Top
  <2> QED
    BY <2>1, <1>3, <1>4 DEF Stack
<1>8. Stacks(t)'
  BY <1>1, <1>5, <1>6, <1>7 DEF Stacks
<1>9. \A p : Times(c, held[t], p) + One(Owns(Top(t), p)) = Times(call[t], held[t], p) + One(Owns(f, p))
  BY <1>1, <1>3, <1>4 DEF Times, One, Top
<1> QED
  BY <1>1, <1>3, <1>4, <1>5, <1>6, <1>8, <1>9

\* A thread has no operation, or a single one.
LEMMA ShortStacks == Stack(<<>>) /\ \A c : Len(c) = 1 /\ Fit(c[1]) => Stack(c)
<1>1. Stack(<<>>)
  BY EmptySeq DEF Stack
<1>2. ASSUME NEW c, Len(c) = 1, Fit(c[1]) PROVE Stack(c)
  <2>1. Len(c) <= 2 /\ Len(c) # 2
    BY <1>2
  <2> QED
    BY <1>2, <2>1, Zenon DEF Stack
<1> QED
  BY <1>1, <1>2

\* It returns.
LEMMA PopFrame ==
    ASSUME LockInv, NEW t \in Threads, call[t] # <<>>, call' = [call EXCEPT ![t] = Tail(@)], dead' = dead
    PROVE  /\ call' \in [Threads -> Seq(Frames)] /\ Stacks(t)' /\ t \notin dead
           /\ Len(call[t]) = 1 => call'[t] = <<>>
           /\ Len(call[t]) = 2 => Len(call'[t]) = 1 /\ call'[t] # <<>> /\ Top(t)' = call[t][2]
           /\ \A u \in Threads \ {t} : call'[u] = call[u]
           /\ \A p, h : Times(call'[t], h, p) + One(Owns(Top(t), p)) = Times(call[t], h, p)
<1>1. /\ call[t] \in Seq(Frames) /\ Len(call[t]) \in {1, 2} /\ Stacks(t) /\ t \notin dead
      /\ call \in [Threads -> Seq(Frames)]
  BY TopFacts DEF LockInv
<1> DEFINE c == Tail(call[t])
<1>2. /\ c \in Seq(Frames) /\ Len(c) = Len(call[t]) - 1
      /\ \A i \in 1..Len(c) : c[i] = call[t][i + 1]
  BY <1>1, HeadTailProperties
<1>3. /\ call' \in [Threads -> Seq(Frames)] /\ call'[t] = c
      /\ \A u \in Threads \ {t} : call'[u] = call[u]
  BY <1>1, <1>2
<1> HIDE DEF c
<1>4. CASE Len(call[t]) = 1
  <2>1. c = <<>>
    BY <1>2, <1>4, EmptySeq
  <2>2. call'[t] = <<>> /\ Stacks(t)'
    <3>1. call'[t] = <<>>
      BY <1>3, <2>1
    <3> QED
      BY <3>1, ShortStacks DEF Stacks
  <2>3. \A p, h : Times(call'[t], h, p) + One(Owns(Top(t), p)) = Times(call[t], h, p)
    <3>1. \A p, h : Times(c, h, p) + One(Owns(Top(t), p)) = Times(call[t], h, p)
      BY <1>4, <2>1, <1>2 DEF Times, One, Top
    <3> QED
      BY <1>3, <3>1, Zenon
  <2>4. Len(call[t]) # 2
    BY <1>4
  <2> QED
    BY <1>1, <1>3, <1>4, <2>2, <2>3, <2>4, Zenon
<1>5. CASE Len(call[t]) = 2
  <2>1. Len(c) = 1 /\ c # <<>> /\ c[1] = call[t][2]
    BY <1>2, <1>5, EmptySeq
  <2>2. Fit(call[t][2]) /\ call[t][2].at = "read"
    BY <1>1, <1>5 DEF Stacks, Stack
  <2>3. call[t][2].op # "lock!"
    BY <2>2 DEF Fit, Stage, Reads, LockOps
  <2>4. Len(call'[t]) = 1 /\ call'[t] # <<>> /\ Top(t)' = call[t][2] /\ Stacks(t)'
    <3>1. call'[t][1] = call[t][2] /\ Len(call'[t]) = 1 /\ call'[t] # <<>>
      BY <1>3, <2>1
    <3>2. Top(t)' = call[t][2]
      BY <3>1 DEF Top
    <3>3. Stack(call'[t])
      BY <2>2, <3>1, ShortStacks, Zenon
    <3> QED
      BY <1>1, <2>3, <3>1, <3>2, <3>3 DEF Stacks
  <2>5. \A p, h : Times(call'[t], h, p) + One(Owns(Top(t), p)) = Times(call[t], h, p)
    <3>1. \A p, h : Times(c, h, p) + One(Owns(Top(t), p)) = Times(call[t], h, p)
      BY <1>5, <2>1 DEF Times, One, Top
    <3> QED
      BY <1>3, <3>1, Zenon
  <2>6. Len(call[t]) # 1
    BY <1>5
  <2> QED
    BY <1>1, <1>3, <1>5, <2>4, <2>5, <2>6, Zenon
<1> QED
  BY <1>1, <1>4, <1>5

\* An error leaves it, and what is below it.
LEMMA DropFrames ==
    ASSUME LockInv, NEW t \in Threads, call[t] # <<>>, call' = [call EXCEPT ![t] = <<>>], dead' = dead
    PROVE  /\ call' \in [Threads -> Seq(Frames)] /\ Stacks(t)' /\ t \notin dead /\ call'[t] = <<>>
           /\ \A u \in Threads \ {t} : call'[u] = call[u]
           /\ \A p, h : Times(call'[t], h, p) = One(p \in h)
<1>1. call \in [Threads -> Seq(Frames)] /\ t \notin dead
  BY TopFacts DEF LockInv
<1>2. /\ call' \in [Threads -> Seq(Frames)] /\ call'[t] = <<>>
      /\ \A u \in Threads \ {t} : call'[u] = call[u]
  BY <1>1, EmptySeq
<1>3. Stacks(t)'
  BY <1>2, EmptySeq DEF Stacks, Stack
<1>4. \A p, h : Times(<<>>, h, p) = One(p \in h)
  BY EmptySeq DEF Times, One
<1> QED
  BY <1>1, <1>2, <1>3, <1>4

-----------------------------------------------------------------------------
(* Steps that leave the locks alone.                                           *)

Keeps(f, g) == f \in Frames /\ f.op = g.op /\ f.p = g.p /\ f.locked = g.locked /\ f.save = g.save
Turns(t, f) == Set(t, f) /\ Fit(f) /\ Keeps(f, Top(t))

\* The label tells the operation, and where it goes on after a flush.
LEMMA Stages ==
    ASSUME NEW f, Stage(f)
    PROVE  /\ f.at \in {"put", "putc", "flush-port", "close", "lock!", "open", "flush-all"} \cup Reads => f.op = f.at
           /\ f.at = "lock" => f.op \in LockOps
           /\ f.at = "unlock" => f.op \in LockOps \ {"lock!"}
           /\ f.at = "write" => f.op = "put"
           /\ f.at = "store" => f.op = "putc"
           /\ f.at = "flush" => \/ f.op = "put" /\ f.next = "write"
                                \/ f.op = "putc" /\ f.next \in {"store", "unlock"}
           /\ f.at = "force" => \/ f.op = "put" /\ f.next = "unlock"
                                \/ f.op = "flush-port" /\ f.next = "release"
                                \/ f.op = "close" /\ f.next = "closing"
           /\ f.at \in {"release", "flushed"} => f.op = "flush-port"
           /\ f.at = "closing" => f.op = "close"
           /\ f.at = "read" => f.op \in Reads
           /\ f.at \in {"fa-read", "fa-write", "fa-adjust", "fa-restore"} => f.op = "flush-all"
           /\ f.at \in {"link-1", "link-2", "link-3"} <=> f.op \in {"link", "unlink"}
  BY DEF Stage, LockOps, Reads

\* A frame that keeps its operation, port and lock stays a frame of that operation.
LEMMA FitKeeps ==
    ASSUME NEW f, NEW g, Fit(g), Keeps(f, g), Stage(f), f.at \notin {"lock", "flushed", "lock!"},
           f.op \notin {"link", "unlink"}, f.op = "close" /\ f.at = "force" => f.p \in OPorts,
           f.at \in {"fa-read", "fa-write", "fa-adjust"} => f.p \in OPorts
    PROVE  Fit(f)
<1>1. f \in Frames /\ f.op = g.op /\ f.p = g.p /\ f.locked = g.locked /\ f.save = g.save
  BY DEF Keeps
<1>2. PortFit(g) /\ LockFit(g) /\ Stage(g)
  BY DEF Fit
<1> QED
  BY <1>1, <1>2 DEF Fit, PortFit, LockFit

\* The innermost operation goes on, and locks nothing.
LEMMA GoesOn ==
    ASSUME LockInv, NEW t \in Threads, call[t] # <<>>, NEW f, Turns(t, f),
           f.op \notin {"link", "unlink"}, UNCHANGED <<lock, held, dead, leaked>>, PortTypes', StreamTypes'
    PROVE  Moves(t)
<1>1. /\ call' \in [Threads -> Seq(Frames)] /\ Stacks(t)' /\ t \notin dead
      /\ \A u \in Threads \ {t} : call'[u] = call[u]
      /\ \A p : Times(call'[t], held'[t], p) + One(Owns(Top(t), p))
                  = Times(call[t], held[t], p) + One(Owns(f, p))
  BY SetFrame DEF Keeps, Turns
<1>2. \A p : Owns(f, p) <=> Owns(Top(t), p)
  <2>1. Stage(f) /\ Stage(Top(t)) /\ f.op = Top(t).op
    BY TopFacts DEF Fit, Keeps, Turns
  <2>2. /\ f.at \notin {"link-1", "link-2", "link-3"}
        /\ Top(t).at \notin {"link-1", "link-2", "link-3"}
    BY <2>1, Stages
  <2> QED
    BY <2>2 DEF Owns, Keeps, Turns
<1>3. \A p : One(Owns(f, p)) = One(Owns(Top(t), p)) /\ One(Owns(f, p)) \in Nat
  BY <1>2 DEF One
<1>4. \A p : Same(t, p)
  BY <1>1, <1>3, TimesNat DEF Same
<1> QED
  BY <1>1, <1>4 DEF Moves, Same

\* A step that changes none of the ports keeps their types.
LEMMA SamePorts ==
    ASSUME PortTypes, UNCHANGED <<lock, link, slots, made, leaked, dead, held, puts>>
    PROVE  PortTypes'
  BY DEF PortTypes

-----------------------------------------------------------------------------
(* What the steps of an operation make of its frame.                           *)

\* Only the label changes.
Advances(t, a) ==
    \E f : Turns(t, f) /\ f.at = a /\ f.q = Top(t).q /\ f.n = Top(t).n /\ f.next = Top(t).next

\* A step that only changes the label, to one that its operation has.
LEMMA GotoStep ==
    ASSUME LockInv, NEW t \in Threads, call[t] # <<>>, NEW a \in Labels, Goto(t, a),
           Top(t).op \notin {"link", "unlink"}, a \notin {"lock", "flushed", "lock!"},
           \A f : f.op = Top(t).op /\ f.at = a => Stage(f),
           ~(Top(t).op = "close" /\ a = "force"),
           a \in {"fa-read", "fa-write", "fa-adjust"} => Top(t).p \in OPorts
    PROVE  Advances(t, a)
<1> DEFINE g == Top(t)
           f == [g EXCEPT !.at = a]
<1>1. Set(t, f) /\ Fit(g) /\ g \in Frames
  BY TopFacts DEF Goto
<1>2. Keeps(f, g) /\ f.at = a /\ f.q = g.q /\ f.n = g.n /\ f.next = g.next
  BY <1>1 DEF Frames, Keeps
<1> HIDE DEF f, g
<1>3. f.op = g.op /\ f.p = g.p
  BY <1>2 DEF Keeps
<1>4. Stage(f) /\ f.op \notin {"link", "unlink"} /\ f.at \notin {"lock", "flushed", "lock!"}
  BY <1>2, <1>3 DEF g
<1>5. /\ f.op = "close" /\ f.at = "force" => f.p \in OPorts
      /\ f.at \in {"fa-read", "fa-write", "fa-adjust"} => f.p \in OPorts
  BY <1>2, <1>3 DEF g
<1>6. Fit(f)
  BY <1>1, <1>2, <1>4, <1>5, FitKeeps
<1> QED
  BY <1>1, <1>2, <1>6 DEF g, Advances, Turns

\* The labels are labels.
LEMMA LabelsHold ==
    /\ LockOps \cup {"unlock", "write", "flush", "force", "store", "release", "closing", "read", "flush-all",
                     "fa-read", "fa-write", "fa-adjust", "fa-restore"} \subseteq Labels
    /\ \A f : f.op \in LockOps \ {"lock!"} /\ f.at = "unlock" => Stage(f)
  BY DEF Labels, Stage

\* SHORTCUT: the Unsafe variant begins.
LEMMA ShortcutStep ==
    ASSUME LockInv, NEW t \in Threads, Lock(t), lock' = lock,
           lock[Top(t).p].owner = t, Top(t).op \notin {"close", "lock!"}
    PROVE  Top(t).op \in LockOps \ {"lock!"} /\ Advances(t, Top(t).op)
<1>1. call[t] # <<>> /\ Top(t).at = "lock" /\ Goto(t, Top(t).op)
  BY DEF Lock, At
<1>2. Top(t).op \in LockOps \ {"lock!"}
  BY <1>1, TopFacts, Stages DEF Fit
<1>3. \A f : f.op = Top(t).op /\ f.at = Top(t).op => Stage(f)
  BY <1>2 DEF Stage
<1>4. Top(t).op \in Labels /\ Top(t).op \notin {"link", "unlink", "lock", "flushed", "force", "fa-read", "fa-write", "fa-adjust"}
  BY <1>2, LabelsHold DEF LockOps, Reads
<1> QED
  BY <1>1, <1>2, <1>3, <1>4, GotoStep

\* bufport_flush goes on where it was called from.
LEMMA FlushStep ==
    ASSUME LockInv, NEW t \in Threads, NEW forcep \in BOOLEAN, Flush(t, forcep)
    PROVE  /\ Top(t).op \in LockOps /\ Top(t).p \in OPorts
           /\ Top(t).at = IF forcep THEN "force" ELSE "flush"
           /\ Advances(t, Top(t).next)
<1>1. call[t] # <<>> /\ Top(t).at = (IF forcep THEN "force" ELSE "flush") /\ Goto(t, Top(t).next)
  BY DEF Flush, At
<1>2. Fit(Top(t)) /\ Top(t) \in Frames /\ Stage(Top(t)) /\ PortFit(Top(t))
  BY <1>1, TopFacts DEF Fit
<1>3. \/ Top(t).op = "put" /\ Top(t).next \in {"write", "unlock"}
      \/ Top(t).op = "putc" /\ Top(t).next \in {"store", "unlock"}
      \/ Top(t).op = "flush-port" /\ Top(t).next = "release"
      \/ Top(t).op = "close" /\ Top(t).at = "force" /\ Top(t).next = "closing"
  BY <1>1, <1>2, Stages
<1>4. \A f : f.op = Top(t).op /\ f.at = Top(t).next => Stage(f)
  BY <1>3 DEF Stage, LockOps
<1>5. Top(t).next \in Labels /\ Top(t).next \notin {"lock", "flushed", "lock!", "force", "fa-read", "fa-write", "fa-adjust"}
  BY <1>3, LabelsHold
<1>6. Top(t).op \in LockOps /\ Top(t).p \in OPorts
  BY <1>1, <1>2, <1>3 DEF LockOps, PortFit
<1> QED
  BY <1>1, <1>3, <1>4, <1>5, <1>6, GotoStep

\* Scm_Putz goes on to bufport_write.
LEMMA PutStep ==
    ASSUME LockInv, NEW t \in Threads, Put(t)
    PROVE  /\ Top(t).op = "put"
           /\ \E f : Turns(t, f) /\ f.at = "write" /\ f.q = puts + 1
<1> DEFINE g == Top(t)
<1>1. call[t] # <<>> /\ g.at = "put"
  BY DEF Put, At
<1>2. Fit(g) /\ g \in Frames /\ puts \in Nat
  BY <1>1, TopFacts DEF PortTypes
<1>3. PICK n \in PutSizes : Set(t, [g EXCEPT !.at = "write", !.n = n, !.q = puts + 1])
  BY DEF Put
<1> DEFINE f == [g EXCEPT !.at = "write", !.n = n, !.q = puts + 1]
<1>4. Keeps(f, g) /\ f.at = "write" /\ f.q = puts + 1
  <2>1. n \in Nat /\ puts + 1 \in Nat /\ "write" \in Labels
    BY <1>2, PortsAssumption, LabelsHold DEF PortsAssumption
  <2> QED
    BY <1>2, <2>1 DEF Frames, Keeps, Tags
<1>5. Set(t, f)
  BY <1>3
<1> HIDE DEF f, g
<1>6. g.op = "put"
  BY <1>1, <1>2, Stages DEF Fit
<1>7. Fit(f)
  <2>1. f.op = "put"
    BY <1>4, <1>6 DEF Keeps
  <2>2. Stage(f)
    BY <2>1, <1>4 DEF Stage
  <2> QED
    BY <1>2, <1>4, <2>1, <2>2, FitKeeps
<1> QED
  BY <1>4, <1>5, <1>6, <1>7 DEF g, Turns

\* Scm_Putb and Scm_Putc go on to store, perhaps after a flush.
LEMMA PutcStep ==
    ASSUME LockInv, NEW t \in Threads, Putc(t)
    PROVE  /\ Top(t).op = "putc"
           /\ \E f : /\ Turns(t, f) /\ f.at \in {"flush", "store"} /\ f.next = "store"
                     /\ f.q = puts + 1
<1> DEFINE g == Top(t)
<1>1. call[t] # <<>> /\ g.at = "putc"
  BY DEF Putc, At
<1>2. Fit(g) /\ g \in Frames /\ puts \in Nat
  BY <1>1, TopFacts DEF PortTypes
<1>3. \E n \in PutSizes, a \in {"flush", "store"} :
         Set(t, [g EXCEPT !.at = a, !.next = "store", !.n = n, !.q = puts + 1])
  BY DEF Putc
<1>4. PICK n \in PutSizes, a \in {"flush", "store"} :
         Set(t, [g EXCEPT !.at = a, !.next = "store", !.n = n, !.q = puts + 1])
  BY <1>3
<1> DEFINE f == [g EXCEPT !.at = a, !.next = "store", !.n = n, !.q = puts + 1]
<1>5. Keeps(f, g) /\ f.at = a /\ f.next = "store" /\ f.q = puts + 1
  <2>1. n \in Nat /\ puts + 1 \in Nat /\ a \in Labels /\ "store" \in Labels
    BY <1>2, PortsAssumption, LabelsHold DEF PortsAssumption
  <2> QED
    BY <1>2, <2>1 DEF Frames, Keeps, Tags
<1>6. Set(t, f)
  BY <1>4
<1> HIDE DEF f, g
<1>7. g.op = "putc"
  BY <1>1, <1>2, Stages DEF Fit
<1>8. Fit(f)
  <2>1. f.op = "putc"
    BY <1>5, <1>7 DEF Keeps
  <2>2. Stage(f)
    BY <2>1, <1>5 DEF Stage
  <2> QED
    BY <1>2, <1>5, <2>1, <2>2, FitKeeps
<1> QED
  BY <1>5, <1>6, <1>7, <1>8 DEF g, Turns

\* n bytes of one put are a sequence.
LEMMA BytesSeq ==
    ASSUME NEW m \in Int, NEW q \in Tags
    PROVE  /\ PutBytes(m, q) \in Seq(Tags) /\ Len(PutBytes(m, q)) = (IF m > 0 THEN m ELSE 0)
           /\ \A i \in 1..Len(PutBytes(m, q)) : PutBytes(m, q)[i] = q
<1> DEFINE k == IF m > 0 THEN m ELSE 0
<1>1. k \in Nat /\ 1..m = 1..k
  OBVIOUS
<1> HIDE DEF k
<1>2. PutBytes(m, q) \in [1..k -> Tags] /\ \A i \in 1..k : PutBytes(m, q)[i] = q
  BY <1>1 DEF PutBytes
<1>3. PutBytes(m, q) \in Seq(Tags)
  BY <1>1, <1>2, SeqDef
<1>4. Len(PutBytes(m, q)) \in Nat /\ 1..Len(PutBytes(m, q)) = 1..k
  BY <1>2, <1>3, LenProperties
<1>5. Len(PutBytes(m, q)) = k
  BY <1>1, <1>4
<1> QED
  BY <1>2, <1>3, <1>5 DEF k

\* So are the ones that fit.
LEMMA FittingSeq ==
    ASSUME LockInv, NEW t \in Threads, call[t] # <<>>, Top(t).p \in OPorts
    PROVE  /\ Fitting(t) \in Seq(Tags) /\ Len(Fitting(t)) \in Nat
           /\ \A i \in 1..Len(Fitting(t)) : Fitting(t)[i] = Top(t).q
<1>1. Top(t).n \in Nat /\ Top(t).q \in Tags
  BY TopFacts DEF Frames
<1>2. BufSize \in Nat /\ Len(buf[Top(t).p]) \in Nat
  <2>1. buf[Top(t).p] \in Seq(Tags)
    BY DEF LockInv, StreamTypes
  <2> QED
    BY <2>1, LenProperties, PortsAssumption DEF PortsAssumption
<1>3. AtMost(Room(Top(t).p), Top(t).n) \in Int
  BY <1>1, <1>2 DEF AtMost, Room
<1> QED
  BY <1>1, <1>3, BytesSeq, LenProperties DEF Fitting

\* bufport_write flushes and goes on, or is done.
LEMMA WriteStep ==
    ASSUME LockInv, NEW t \in Threads, Write(t)
    PROVE  /\ Top(t).op = "put" /\ Top(t).p \in OPorts
           /\ \E f : /\ Turns(t, f) /\ f.q = Top(t).q
                     /\ (f.at = "flush" /\ f.next = "write") \/ (f.at \in {"force", "unlock"} /\ f.next = "unlock")
<1> DEFINE g == Top(t)
<1>1. call[t] # <<>> /\ g.at = "write"
  BY DEF Write, At
<1>2. Fit(g) /\ g \in Frames /\ Stage(g) /\ PortFit(g)
  BY <1>1, TopFacts DEF Fit
<1>3. g.op = "put" /\ g.p \in OPorts
  BY <1>1, <1>2, Stages DEF PortFit
<1>4. \E n \in Nat, a \in {"flush", "force", "unlock"}, b \in {"write", "unlock"} :
         /\ Set(t, [g EXCEPT !.at = a, !.next = b, !.n = n])
         /\ a = "flush" <=> b = "write"
  <2> DEFINE rest == g.n - Len(Fitting(t))
  <2>1. rest \in Int
    <3>1. g.n \in Nat /\ Len(Fitting(t)) \in Nat
      BY <1>1, <1>2, <1>3, FittingSeq DEF Frames
    <3> QED
      BY <3>1
  <2>2. CASE rest > 0
    <3>1. Set(t, [g EXCEPT !.at = "flush", !.next = "write", !.n = rest])
      BY <2>2 DEF Write
    <3> HIDE DEF rest
    <3>2. rest \in Nat
      BY <2>1, <2>2
    <3> QED
      BY <3>1, <3>2
  <2>3. CASE ~(rest > 0)
    <3>1. AfterPut(g.p, "force") \in {"force", "unlock"}
      BY DEF AfterPut
    <3>2. Set(t, [g EXCEPT !.at = AfterPut(g.p, "force"), !.next = "unlock", !.n = 0])
      BY <2>3 DEF Write
    <3> QED
      BY <3>1, <3>2
  <2> QED
    BY <2>2, <2>3
<1>5. PICK n \in Nat, a \in {"flush", "force", "unlock"}, b \in {"write", "unlock"} :
         /\ Set(t, [g EXCEPT !.at = a, !.next = b, !.n = n])
         /\ a = "flush" <=> b = "write"
  BY <1>4
<1> DEFINE f == [g EXCEPT !.at = a, !.next = b, !.n = n]
<1>6. Keeps(f, g) /\ f.at = a /\ f.next = b /\ f.q = g.q
  <2>1. a \in Labels /\ b \in Labels
    BY LabelsHold
  <2> QED
    BY <1>2, <2>1 DEF Frames, Keeps
<1>7. Set(t, f)
  BY <1>5
<1> HIDE DEF f, g
<1>8. Fit(f)
  <2>1. f.op = "put"
    BY <1>3, <1>6 DEF Keeps
  <2>2. Stage(f)
    BY <1>5, <1>6, <2>1 DEF Stage, LockOps
  <2> QED
    BY <1>2, <1>6, <2>1, <2>2, FitKeeps
<1>9. (f.at = "flush" /\ f.next = "write") \/ (f.at \in {"force", "unlock"} /\ f.next = "unlock")
  BY <1>5, <1>6
<1> QED
  BY <1>3, <1>6, <1>7, <1>8, <1>9 DEF g, Turns

\* Scm_Putb and Scm_Putc are done when they have stored.
LEMMA StoreStep ==
    ASSUME LockInv, NEW t \in Threads, Store(t)
    PROVE  /\ Top(t).op = "putc" /\ Top(t).p \in OPorts
           /\ \E f : Turns(t, f) /\ f.q = Top(t).q /\ f.at \in {"flush", "unlock"} /\ f.next = "unlock"
<1> DEFINE g == Top(t)
<1>1. call[t] # <<>> /\ g.at = "store"
  BY DEF Store, At
<1>2. Fit(g) /\ g \in Frames /\ Stage(g) /\ PortFit(g)
  BY <1>1, TopFacts DEF Fit
<1>3. g.op = "putc" /\ g.p \in OPorts
  BY <1>1, <1>2, Stages DEF PortFit
<1>4. PICK a \in {"flush", "unlock"} : Set(t, [g EXCEPT !.at = a, !.next = "unlock", !.n = 0])
  BY DEF Store, AfterPut
<1> DEFINE f == [g EXCEPT !.at = a, !.next = "unlock", !.n = 0]
<1>5. Keeps(f, g) /\ f.at = a /\ f.next = "unlock" /\ f.q = g.q
  <2>1. a \in Labels /\ "unlock" \in Labels
    BY LabelsHold
  <2> QED
    BY <1>2, <2>1 DEF Frames, Keeps
<1>6. Set(t, f)
  BY <1>4
<1> HIDE DEF f, g
<1>7. Fit(f)
  <2>1. f.op = "putc"
    BY <1>3, <1>5 DEF Keeps
  <2>2. Stage(f)
    BY <1>5, <2>1 DEF Stage, LockOps
  <2> QED
    BY <1>2, <1>5, <2>1, <2>2, FitKeeps
<1> QED
  BY <1>3, <1>5, <1>6, <1>7 DEF g, Turns

\* Scm_Flush flushes a port that is open.
LEMMA FlushPortStep ==
    ASSUME LockInv, NEW t \in Threads, FlushPort(t)
    PROVE  /\ Top(t).op = "flush-port" /\ Top(t).p \in OPorts
           /\ \E f : Turns(t, f) /\ (f.at = "unlock" \/ (f.at = "force" /\ Top(t).p \notin closed))
<1> DEFINE g == Top(t)
<1>1. call[t] # <<>> /\ g.at = "flush-port"
  BY DEF FlushPort, At
<1>2. Fit(g) /\ g \in Frames /\ Stage(g) /\ PortFit(g)
  BY <1>1, TopFacts DEF Fit
<1>3. g.op = "flush-port" /\ g.p \in OPorts
  BY <1>1, <1>2, Stages DEF PortFit
<1>4. CASE g.p \in flushed
  <2>1. Goto(t, "unlock")
    BY <1>4 DEF FlushPort
  <2>2. Advances(t, "unlock")
    BY <1>1, <1>3, <2>1, GotoStep, LabelsHold DEF LockOps
  <2> QED
    BY <1>3, <2>2 DEF Advances
<1>5. CASE g.p \notin flushed
  <2> DEFINE f == [g EXCEPT !.at = "force", !.next = "release"]
  <2>1. Set(t, f) /\ g.p \notin closed
    BY <1>5 DEF FlushPort
  <2>2. Keeps(f, g) /\ f.at = "force" /\ f.next = "release"
    <3>1. "force" \in Labels /\ "release" \in Labels
      BY LabelsHold
    <3> QED
      BY <1>2, <3>1 DEF Frames, Keeps
  <2> HIDE DEF f
  <2>3. Fit(f)
    <3>1. f.op = "flush-port"
      BY <1>3, <2>2 DEF Keeps
    <3>2. Stage(f)
      BY <2>2, <3>1 DEF Stage
    <3> QED
      BY <1>2, <2>2, <3>1, <3>2, FitKeeps
  <2> QED
    BY <1>3, <2>1, <2>2, <2>3 DEF Turns
<1> QED
  BY <1>4, <1>5

\* Scm_ClosePort flushes an output port that is open and has no error.
LEMMA CloseStep ==
    ASSUME LockInv, NEW t \in Threads, Close(t)
    PROVE  /\ Top(t).op = "close"
           /\ \E f : /\ Turns(t, f)
                     /\ \/ f.at = "unlock"
                        \/ f.at = "force" /\ Top(t).p \in OPorts /\ Top(t).p \notin closed
                        \/ f.at = "closing" /\ (Top(t).p \in OPorts => Top(t).p \in error)
<1> DEFINE g == Top(t)
           a == IF g.p \in closed THEN "unlock" ELSE IF g.p \in OPorts \ error THEN "force" ELSE "closing"
           f == [g EXCEPT !.at = a, !.next = "closing"]
<1>1. call[t] # <<>> /\ g.at = "close" /\ Set(t, f)
  BY DEF Close, At
<1>2. Fit(g) /\ g \in Frames /\ Stage(g) /\ g.op = "close"
  BY <1>1, TopFacts, Stages DEF Fit
<1>3. \/ a = "unlock"
      \/ a = "force" /\ g.p \in OPorts /\ g.p \notin closed
      \/ a = "closing" /\ (g.p \in OPorts => g.p \in error)
  OBVIOUS
<1> HIDE DEF a
<1>4. Keeps(f, g) /\ f.at = a /\ f.next = "closing"
  <2>1. a \in Labels /\ "closing" \in Labels
    BY <1>3, LabelsHold
  <2> QED
    BY <1>2, <2>1 DEF Frames, Keeps
<1> HIDE DEF f, g
<1>5. Fit(f)
  <2>1. f.op = "close" /\ f.p = g.p
    BY <1>2, <1>4 DEF Keeps
  <2>2. Stage(f)
    BY <1>3, <1>4, <2>1 DEF Stage, LockOps
  <2> QED
    BY <1>2, <1>3, <1>4, <2>1, <2>2, FitKeeps
<1> QED
  BY <1>1, <1>2, <1>3, <1>4, <1>5 DEF g, Turns

\* Scm_ClosePort is done when the port is closed.
LEMMA ClosingStep ==
    ASSUME LockInv, NEW t \in Threads, Closing(t)
    PROVE  Top(t).op = "close" /\ Advances(t, "unlock")
<1>1. call[t] # <<>> /\ Top(t).at = "closing" /\ Goto(t, "unlock")
  BY DEF Closing, At
<1>2. Top(t).op = "close"
  BY <1>1, TopFacts, Stages DEF Fit
<1> QED
  BY <1>1, <1>2, GotoStep, LabelsHold DEF LockOps

\* A reading operation is done when it has read.
LEMMA ReadStep ==
    ASSUME LockInv, NEW t \in Threads, Read(t)
    PROVE  Top(t).op \in Reads /\ Advances(t, "unlock")
<1>1. call[t] # <<>> /\ Top(t).at = "read" /\ Goto(t, "unlock")
  BY DEF Read, At
<1>2. Top(t).op \in Reads
  BY <1>1, TopFacts, Stages DEF Fit
<1>3. Top(t).op \in LockOps \ {"lock!"} /\ Top(t).op \notin {"link", "unlink", "close"}
  BY <1>2 DEF LockOps, Reads
<1> QED
  BY <1>1, <1>2, <1>3, GotoStep, LabelsHold

\* The steps of Scm_FlushAllPorts.
LEMMA SweepLabels ==
    ASSUME LockInv, NEW t \in Threads, call[t] # <<>>,
           Top(t).at \in {"flush-all", "fa-read", "fa-write", "fa-adjust", "fa-restore"}
    PROVE  /\ Top(t).op = "flush-all" /\ Top(t).locked = FALSE
           /\ Top(t).at \in {"fa-read", "fa-write", "fa-adjust"} => Top(t).p \in OPorts
           /\ \A f : f.op = "flush-all" /\ f.at \in {"flush-all", "fa-read", "fa-write", "fa-adjust", "fa-restore"} => Stage(f)
<1>1. Fit(Top(t)) /\ Top(t) \in Frames
  BY TopFacts
<1>2. Top(t).op = "flush-all"
  BY <1>1, Stages DEF Fit
<1>3. Top(t).locked = FALSE
  <2>1. Top(t).locked \in BOOLEAN /\ (Top(t).locked => Top(t).op \in LockOps)
    BY <1>1 DEF Fit, LockFit, Frames
  <2> QED
    BY <1>2, <2>1 DEF LockOps, Reads
<1>4. Top(t).at \in {"fa-read", "fa-write", "fa-adjust"} => Top(t).p \in OPorts
  BY <1>1 DEF Fit, PortFit
<1>5. \A f : f.op = "flush-all" /\ f.at \in {"flush-all", "fa-read", "fa-write", "fa-adjust", "fa-restore"} => Stage(f)
  BY DEF Stage
<1> QED
  BY <1>2, <1>3, <1>4, <1>5

\* Scm_FlushAllPorts flushes a port without a lock.
LEMMA SweepStep ==
    ASSUME LockInv, NEW t \in Threads, FlushAllRead(t) \/ FlushAllWrite(t) \/ FlushAllAdjust(t)
    PROVE  /\ Top(t).op = "flush-all" /\ Top(t).p \in OPorts
           /\ FlushAllRead(t) => Advances(t, "flush-all") \/ Advances(t, "fa-write")
           /\ FlushAllWrite(t) => Advances(t, "fa-adjust")
           /\ FlushAllAdjust(t) => Advances(t, "flush-all")
<1>1. call[t] # <<>> /\ Top(t).at \in {"fa-read", "fa-write", "fa-adjust"}
  BY DEF FlushAllRead, FlushAllWrite, FlushAllAdjust, At
<1>2. /\ Top(t).op = "flush-all" /\ Top(t).p \in OPorts
      /\ \A f : f.op = "flush-all" /\ f.at \in {"flush-all", "fa-read", "fa-write", "fa-adjust", "fa-restore"} => Stage(f)
  BY <1>1, SweepLabels
<1>3. ASSUME NEW a \in {"flush-all", "fa-write", "fa-adjust"}, Goto(t, a) PROVE Advances(t, a)
  <2>1. /\ \A f : f.op = Top(t).op /\ f.at = a => Stage(f)
        /\ Top(t).op \notin {"link", "unlink", "close"} /\ a \in Labels
    BY <1>2, LabelsHold
  <2> QED
    BY <1>1, <1>2, <1>3, <2>1, GotoStep
<1> QED
  BY <1>2, <1>3 DEF FlushAllRead, FlushAllWrite, FlushAllAdjust

\* A slot is taken.
Sweeps(t, s, f) ==
    /\ Set(t, f) /\ Fit(f) /\ f.op = "flush-all" /\ f.at = "fa-read" /\ f.p = slots[s] /\ f.locked = FALSE
    /\ f.save = [Top(t).save EXCEPT ![s] = slots[s]] /\ f.n = s

\* Scm_FlushAllPorts takes a slot, or is through.
LEMMA ScanStep ==
    ASSUME LockInv, NEW t \in Threads, FlushAllScan(t)
    PROVE  /\ call[t] # <<>> /\ Top(t).op = "flush-all" /\ Top(t).locked = FALSE
           /\ \/ Advances(t, "fa-restore") /\ slots' = slots
              \/ \E s \in Slot : /\ slots[s] \in OPorts /\ slots' = TakeSlot(s)
                                 /\ \E f : Sweeps(t, s, f)
<1> DEFINE g == Top(t)
<1>1. call[t] # <<>> /\ g.at = "flush-all"
  BY DEF FlushAllScan, At
<1>2. /\ g.op = "flush-all" /\ g.locked = FALSE
      /\ \A f : f.op = "flush-all" /\ f.at \in {"flush-all", "fa-read", "fa-write", "fa-adjust", "fa-restore"} => Stage(f)
      /\ Fit(g) /\ g \in Frames
  BY <1>1, SweepLabels, TopFacts
<1>3. CASE Goto(t, "fa-restore") /\ slots' = slots
  <2>1. Advances(t, "fa-restore")
    BY <1>1, <1>2, <1>3, GotoStep, LabelsHold
  <2> QED
    BY <1>1, <1>2, <1>3, <2>1
<1>4. CASE \E s \in DOMAIN slots :
              /\ slots[s] \in OPorts /\ slots' = TakeSlot(s)
              /\ Set(t, [g EXCEPT !.at = "fa-read", !.p = slots[s], !.n = s, !.save[s] = slots[s]])
  <2>1. PICK s \in DOMAIN slots :
              /\ slots[s] \in OPorts /\ slots' = TakeSlot(s)
              /\ Set(t, [g EXCEPT !.at = "fa-read", !.p = slots[s], !.n = s, !.save[s] = slots[s]])
    BY <1>4
  <2>2. s \in Slot /\ s \in Nat
    <3>1. DOMAIN slots = Slot /\ InitialSlots \in Seq(OPorts \cup {NoPort})
      BY PortsAssumption DEF LockInv, PortTypes, PortsAssumption
    <3> QED
      BY <2>1, <3>1, LenProperties DEF Slot
  <2> DEFINE f == [g EXCEPT !.at = "fa-read", !.p = slots[s], !.n = s, !.save[s] = slots[s]]
  <2>3. /\ f \in Frames /\ f.op = g.op /\ f.at = "fa-read" /\ f.p = slots[s] /\ f.locked = g.locked /\ f.n = s
        /\ f.save = [g.save EXCEPT ![s] = slots[s]]
    <3>1. "fa-read" \in Labels /\ slots[s] \in AllPorts
      BY <2>1, LabelsHold DEF AllPorts
    <3> QED
      BY <1>2, <2>1, <2>2, <3>1 DEF Frames
  <2>4. Set(t, f)
    BY <2>1
  <2> HIDE DEF f, g
  <2>5. Stage(f)
    BY <1>2, <2>3
  <2>6. PortFit(f) /\ LockFit(f)
    BY <1>2, <2>1, <2>3 DEF PortFit, LockFit, Reads
  <2> QED
    BY <1>1, <1>2, <2>1, <2>2, <2>3, <2>4, <2>5, <2>6 DEF g, Sweeps, Fit
<1> QED
  BY <1>3, <1>4 DEF FlushAllScan

\* A step that changes none of the bytes keeps their types.
LEMMA SameStreams ==
    ASSUME StreamTypes, UNCHANGED <<buf, device, entered>>
    PROVE  StreamTypes'
  BY DEF StreamTypes

\* Parts of a sequence of bytes, and two of them together.
LEMMA Parts ==
    ASSUME NEW s \in Seq(Tags)
    PROVE  /\ Len(s) \in Nat /\ <<>> \in Seq(Tags) /\ \A r \in Seq(Tags) : s \o r \in Seq(Tags)
           /\ \A k \in 0..Len(s) : SubSeq(s, 1, k) \in Seq(Tags) /\ SubSeq(s, k + 1, Len(s)) \in Seq(Tags)
<1>1. Len(s) \in Nat /\ <<>> \in Seq(Tags) /\ \A i \in 1..Len(s) : s[i] \in Tags
  BY LenProperties, EmptySeq, ElementOfSeq
<1>2. \A r \in Seq(Tags) : s \o r \in Seq(Tags)
  BY ConcatProperties
<1>3. ASSUME NEW k \in 0..Len(s) PROVE SubSeq(s, 1, k) \in Seq(Tags) /\ SubSeq(s, k + 1, Len(s)) \in Seq(Tags)
  <2>1. k \in Int /\ 1 \in Int /\ k + 1 \in Int /\ Len(s) \in Int
    BY <1>1
  <2>2. \A i \in 1..k : s[i] \in Tags
    BY <1>1
  <2>3. \A i \in (k + 1)..Len(s) : s[i] \in Tags
    BY <1>1
  <2> QED
    BY <2>1, <2>2, <2>3, SubSeqProperties
<1> QED
  BY <1>1, <1>2, <1>3

\* The flusher writes no more than there is.
LEMMA WrittenPart ==
    ASSUME LockInv, NEW p \in OPorts, NEW forcep, NEW k \in Written(p, forcep)
    PROVE  k \in 0..Len(buf[p])
<1>1. Len(buf[p]) \in Nat
  BY Parts DEF LockInv, StreamTypes
<1> QED
  BY <1>1 DEF Written, AtMost

\* A step that only changes the label moves nothing.
LEMMA AdvanceMoves ==
    ASSUME LockInv, NEW t \in Threads, call[t] # <<>>, NEW a, Advances(t, a),
           Top(t).op \notin {"link", "unlink"}, UNCHANGED <<lock, held, dead, leaked>>, PortTypes', StreamTypes'
    PROVE  Moves(t)
<1>1. PICK f : Turns(t, f)
  BY DEF Advances
<1>2. f.op = Top(t).op
  BY <1>1 DEF Turns, Keeps
<1> QED
  BY <1>1, <1>2, GoesOn

\* bufport_flush locks nothing.
LEMMA FlushMoves ==
    ASSUME LockInv, NEW t \in Threads, NEW forcep \in BOOLEAN, Flush(t, forcep)
    PROVE  Moves(t)
<1>1. call[t] # <<>> /\ Top(t).op \in LockOps /\ Top(t).p \in OPorts /\ Advances(t, Top(t).next)
  BY FlushStep DEF Flush, At
<1>2. PICK k \in Written(Top(t).p, forcep) : FlushDone(t, Top(t).p, k)
  BY DEF Flush
<1>3. /\ UNCHANGED <<lock, held, dead, leaked, link, slots, made, puts, entered>>
  BY DEF Flush, tableVars
<1>4. StreamTypes'
  <2> DEFINE p == Top(t).p
  <2>1. /\ StreamTypes /\ buf[p] \in Seq(Tags) /\ device[p] \in Seq(Tags) /\ k \in 0..Len(buf[p])
    BY <1>1, <1>2, WrittenPart DEF LockInv, StreamTypes
  <2>2. device[p] \o SubSeq(buf[p], 1, k) \in Seq(Tags) /\ SubSeq(buf[p], k + 1, Len(buf[p])) \in Seq(Tags)
    BY <2>1, Parts
  <2>3. /\ device' = [device EXCEPT ![p] = device[p] \o SubSeq(buf[p], 1, k)]
        /\ buf' = [buf EXCEPT ![p] = SubSeq(buf[p], k + 1, Len(buf[p]))]
    BY <1>1, <1>2, <2>1 DEF FlushDone, StreamTypes
  <2> QED
    BY <1>1, <1>3, <2>1, <2>2, <2>3 DEF StreamTypes
<1>5. PortTypes'
  BY <1>3, SamePorts DEF LockInv
<1>6. Top(t).op \notin {"link", "unlink"}
  BY <1>1 DEF LockOps, Reads
<1> QED
  BY <1>1, <1>3, <1>4, <1>5, <1>6, AdvanceMoves

\* Nor do Scm_Putz, Scm_Putb and Scm_Putc once they have begun,
LEMMA PutMoves ==
    ASSUME LockInv, NEW t \in Threads, Put(t) \/ Putc(t)
    PROVE  Moves(t)
<1>1. call[t] # <<>> /\ Top(t).op \in {"put", "putc"} /\ \E f : Turns(t, f)
  BY PutStep, PutcStep DEF Put, Putc, At
<1>2. PICK f : Turns(t, f)
  BY <1>1
<1>3. UNCHANGED <<lock, held, dead, leaked, link, slots, made, buf, device, entered>> /\ puts' = puts + 1
  BY DEF Put, Putc, tableVars
<1>4. StreamTypes' /\ PortTypes'
  BY <1>3, SameStreams DEF LockInv, PortTypes
<1>5. f.op \notin {"link", "unlink"}
  BY <1>1, <1>2 DEF Turns, Keeps
<1> QED
  BY <1>1, <1>2, <1>3, <1>4, <1>5, GoesOn

\* bufport_write,
LEMMA StoreMoves ==
    ASSUME LockInv, NEW t \in Threads, Write(t) \/ Store(t)
    PROVE  Moves(t)
<1>1. call[t] # <<>> /\ Top(t).op \in {"put", "putc"} /\ Top(t).p \in OPorts /\ \E f : Turns(t, f)
  BY WriteStep, StoreStep DEF Write, Store, At
<1>2. PICK f : Turns(t, f)
  BY <1>1
<1>3. UNCHANGED <<lock, held, dead, leaked, link, slots, made, device, puts>>
  BY DEF Write, Store, tableVars
<1>4. PICK b \in Seq(Tags) : PutInto(Top(t).p, b)
  <2>1. CASE Write(t)
    BY <1>1, <2>1, FittingSeq DEF Write
  <2>2. CASE Store(t)
    <3>1. Top(t).n \in Nat /\ Top(t).q \in Tags
      BY <1>1, TopFacts DEF Frames
    <3> QED
      BY <2>2, <3>1, BytesSeq DEF Store
  <2> QED
    BY <2>1, <2>2
<1>5. StreamTypes'
  <2> DEFINE p == Top(t).p
  <2>1. StreamTypes /\ buf[p] \in Seq(Tags) /\ entered[p] \in Seq(Tags)
    BY <1>1 DEF LockInv, StreamTypes
  <2>2. buf[p] \o b \in Seq(Tags) /\ entered[p] \o b \in Seq(Tags)
    BY <1>4, <2>1, Parts
  <2>3. buf' = [buf EXCEPT ![p] = buf[p] \o b] /\ entered' = [entered EXCEPT ![p] = entered[p] \o b]
    BY <1>1, <1>4, <2>1 DEF PutInto, StreamTypes
  <2> QED
    BY <1>1, <1>3, <2>1, <2>2, <2>3 DEF StreamTypes
<1>6. PortTypes'
  BY <1>3, SamePorts DEF LockInv
<1>7. f.op \notin {"link", "unlink"}
  BY <1>1, <1>2 DEF Turns, Keeps
<1> QED
  BY <1>1, <1>2, <1>3, <1>5, <1>6, <1>7, GoesOn

\* Scm_Flush, Scm_ClosePort and the reading operations,
LEMMA CloseMoves ==
    ASSUME LockInv, NEW t \in Threads, FlushPort(t) \/ Close(t) \/ Closing(t) \/ Read(t)
    PROVE  Moves(t)
<1>1. /\ call[t] # <<>> /\ Top(t).op \notin {"link", "unlink"} /\ \E f : Turns(t, f)
  BY FlushPortStep, CloseStep, ClosingStep, ReadStep DEF FlushPort, Close, Closing, Read, At, Reads, Advances
<1>2. PICK f : Turns(t, f)
  BY <1>1
<1>3. /\ UNCHANGED <<lock, held, dead, leaked, link, made, buf, device, entered, puts>>
      /\ slots' = slots \/ slots' = [s \in DOMAIN slots |-> IF slots[s] = Top(t).p THEN NoPort ELSE slots[s]]
  BY DEF FlushPort, Close, Closing, Read, tableVars, streamVars
<1>4. PortTypes' /\ StreamTypes'
  BY <1>3, SameStreams DEF LockInv, PortTypes
<1>5. f.op \notin {"link", "unlink"}
  BY <1>1, <1>2 DEF Turns, Keeps
<1> QED
  BY <1>1, <1>2, <1>3, <1>4, <1>5, GoesOn

\* and Scm_FlushAllPorts at a port,
LEMMA SweepMoves ==
    ASSUME LockInv, NEW t \in Threads, FlushAllRead(t) \/ FlushAllWrite(t) \/ FlushAllAdjust(t)
    PROVE  Moves(t)
<1>1. /\ call[t] # <<>> /\ Top(t).op = "flush-all" /\ Top(t).p \in OPorts /\ \E a : Advances(t, a)
  BY SweepStep DEF FlushAllRead, FlushAllWrite, FlushAllAdjust, At
<1>2. PICK a : Advances(t, a)
  BY <1>1
<1>3. UNCHANGED <<lock, held, dead, leaked, link, slots, made, puts, entered>>
  BY DEF FlushAllRead, FlushAllWrite, FlushAllAdjust, tableVars
<1>4. StreamTypes'
  <2>1. StreamTypes /\ device[Top(t).p] \in Seq(Tags) /\ buf[Top(t).p] \in Seq(Tags)
    BY <1>1 DEF LockInv, StreamTypes
  <2>2. device[Top(t).p] \o buf[Top(t).p] \in Seq(Tags) /\ <<>> \in Seq(Tags)
    BY <2>1, Parts
  <2>3. /\ buf' = buf \/ buf' = [buf EXCEPT ![Top(t).p] = <<>>]
        /\ device' = device \/ device' = [device EXCEPT ![Top(t).p] = device[Top(t).p] \o buf[Top(t).p]]
    BY <1>1, <2>1 DEF FlushAllRead, FlushAllWrite, FlushAllAdjust, StreamTypes
  <2> QED
    BY <1>1, <1>3, <2>1, <2>2, <2>3 DEF StreamTypes
<1>5. PortTypes'
  BY <1>3, SamePorts DEF LockInv
<1> QED
  BY <1>1, <1>2, <1>3, <1>4, <1>5, AdvanceMoves

\* and between two ports.
LEMMA ScanMoves ==
    ASSUME LockInv, NEW t \in Threads, FlushAllScan(t)
    PROVE  Moves(t)
<1>1. UNCHANGED <<lock, held, dead, leaked, link, made, buf, device, entered, puts>>
  BY DEF FlushAllScan, tableVars, streamVars
<1>2. StreamTypes'
  BY <1>1, SameStreams DEF LockInv
<1>3. call[t] # <<>> /\ Top(t).op = "flush-all" /\ Top(t).locked = FALSE
  BY ScanStep
<1>4. CASE Advances(t, "fa-restore") /\ slots' = slots
  <2>1. PortTypes'
    BY <1>1, <1>4, SamePorts DEF LockInv
  <2> QED
    BY <1>1, <1>2, <1>3, <1>4, <2>1, AdvanceMoves
<1>5. ASSUME NEW s \in Slot, slots[s] \in OPorts, slots' = TakeSlot(s), NEW f, Sweeps(t, s, f) PROVE Moves(t)
  <2>1. PortTypes'
    BY <1>1, <1>5 DEF LockInv, PortTypes, TakeSlot
  <2>2. /\ call' \in [Threads -> Seq(Frames)] /\ Stacks(t)' /\ t \notin dead
        /\ \A u \in Threads \ {t} : call'[u] = call[u]
        /\ \A p : Times(call'[t], held'[t], p) + One(Owns(Top(t), p))
                    = Times(call[t], held[t], p) + One(Owns(f, p))
    BY <1>1, <1>3, <1>5, SetFrame DEF Sweeps
  <2>3. \A p : ~Owns(f, p) /\ ~Owns(Top(t), p)
    <3>1. Top(t).at \notin {"link-1", "link-2", "link-3"} /\ f.at = "fa-read" /\ f.locked = FALSE
      BY <1>3, <1>5, TopFacts, Stages DEF Fit, Sweeps
    <3> QED
      BY <1>3, <3>1 DEF Owns
  <2>4. \A p : Same(t, p)
    BY <1>1, <2>2, <2>3, TimesNat DEF Same, One
  <2> QED
    BY <1>1, <1>2, <2>1, <2>2, <2>4 DEF Moves, Same
<1> QED
  BY <1>4, <1>5, ScanStep

-----------------------------------------------------------------------------
(* Steps that lock or unlock a port.                                           *)

\* No more is needed when no port is left locked by an error.
LEMMA LockChange ==
    ASSUME LockInv, NEW t \in Threads,
           call' \in [Threads -> Seq(Frames)], Stacks(t)', t \notin dead, PortTypes', StreamTypes',
           \A u \in Threads \ {t} : call'[u] = call[u] /\ held'[u] = held[u], UNCHANGED <<dead, leaked>>,
           \A p \in AllPorts : Same(t, p) \/ Takes(t, p) \/ Gives(t, p)
    PROVE  Moves(t)
  BY DEF Moves, Same, Takes, Gives

\* LOCK(p) is granted.
LEMMA LockStep ==
    ASSUME LockInv, NEW t \in Threads, Lock(t),
           lock[Top(t).p].owner # t \/ Top(t).op \in {"close", "lock!"}
    PROVE  /\ call[t] # <<>> /\ Top(t).at = "lock" /\ Top(t).op \in LockOps /\ Top(t).p \in AllPorts
           /\ Top(t).locked = FALSE /\ CanLock(t, Top(t).p) /\ lock' = Locked(t, Top(t).p)
           /\ \E f : /\ Set(t, f) /\ Fit(f) /\ f.op = Top(t).op /\ f.p = Top(t).p /\ f.at = f.op
                     /\ f.locked = TRUE /\ f.save = Top(t).save
<1> DEFINE g == Top(t)
           f == [g EXCEPT !.at = g.op, !.locked = TRUE]
<1>1. call[t] # <<>> /\ g.at = "lock" /\ Set(t, f) /\ CanLock(t, g.p) /\ lock' = Locked(t, g.p)
  BY DEF Lock, At
<1>2. Fit(g) /\ g \in Frames /\ Stage(g) /\ PortFit(g) /\ LockFit(g)
  BY <1>1, TopFacts DEF Fit
<1>3. g.op \in LockOps
  BY <1>1, <1>2, Stages
<1>4. f \in Frames /\ f.op = g.op /\ f.p = g.p /\ f.at = g.op /\ f.locked = TRUE /\ f.save = g.save
  <2>1. g.op \in Labels
    BY <1>3, LabelsHold
  <2> QED
    BY <1>2, <2>1 DEF Frames
<1>5. g.locked = FALSE
  BY <1>1, <1>2 DEF LockFit, Frames
<1>6. g.p \in AllPorts
  BY <1>2, <1>3 DEF PortFit, LockOps, Reads, AllPorts
<1> HIDE DEF f, g
<1>7. g.op \notin {"link", "unlink", "lock", "flushed", "force", "fa-read", "fa-write", "fa-adjust", "flush-all"}
  BY <1>3 DEF LockOps, Reads
<1>8. Stage(f)
  BY <1>3, <1>4 DEF Stage
<1>9. PortFit(f) /\ LockFit(f)
  BY <1>2, <1>3, <1>4, <1>7 DEF PortFit, LockFit
<1> QED
  BY <1>1, <1>3, <1>4, <1>5, <1>6, <1>8, <1>9 DEF g, Fit

\* LOCK(p) takes the lock once, or not at all.
LEMMA LockMoves ==
    ASSUME LockInv, NEW t \in Threads, Lock(t)
    PROVE  Moves(t)
<1>1. UNCHANGED <<held, dead, leaked, link, slots, made, puts, buf, device, entered>> /\ call[t] # <<>>
  BY DEF Lock, tableVars, At
<1>2. StreamTypes' /\ PortTypes
  BY <1>1, SameStreams DEF LockInv
<1>3. CASE lock[Top(t).p].owner = t /\ Top(t).op \notin {"close", "lock!"}
  <2>1. lock' = lock
    BY <1>3 DEF Lock
  <2>2. Top(t).op \in LockOps /\ Advances(t, Top(t).op)
    BY <1>3, <2>1, ShortcutStep
  <2>3. PortTypes'
    BY <1>1, <1>2, <2>1, SamePorts
  <2>4. Top(t).op \notin {"link", "unlink"}
    BY <2>2 DEF LockOps, Reads
  <2> QED
    BY <1>1, <1>2, <2>1, <2>2, <2>3, <2>4, AdvanceMoves
<1>4. CASE ~(lock[Top(t).p].owner = t /\ Top(t).op \notin {"close", "lock!"})
  <2> DEFINE r == Top(t).p
  <2>1. /\ Top(t).at = "lock" /\ Top(t).op \in LockOps /\ r \in AllPorts
        /\ Top(t).locked = FALSE /\ CanLock(t, r) /\ lock' = Locked(t, r)
        /\ \E f : /\ Set(t, f) /\ Fit(f) /\ f.op = Top(t).op /\ f.p = r /\ f.at = f.op /\ f.locked = TRUE
    BY <1>4, LockStep
  <2>2. PICK f : Set(t, f) /\ Fit(f) /\ f.op = Top(t).op /\ f.p = r /\ f.at = f.op /\ f.locked = TRUE
    BY <2>1
  <2>3. /\ call' \in [Threads -> Seq(Frames)] /\ Stacks(t)' /\ t \notin dead
        /\ \A u \in Threads \ {t} : call'[u] = call[u]
        /\ \A p : Times(call'[t], held'[t], p) + One(Owns(Top(t), p))
                    = Times(call[t], held[t], p) + One(Owns(f, p))
    BY <1>1, <2>2, SetFrame
  <2>4. \A p : One(Owns(Top(t), p)) = 0 /\ One(Owns(f, p)) = IF p = r THEN 1 ELSE 0
    <3>1. f.at \notin {"link-2", "link-3"}
      BY <2>1, <2>2 DEF LockOps, Reads
    <3> QED
      BY <2>1, <2>2, <3>1 DEF Owns, One
  <2>5. \A p \in AllPorts : p # r => Same(t, p)
    BY <1>2, <2>1, <2>3, <2>4, TimesNat, LockRecords DEF Same
  <2>6. Takes(t, r)
    BY <2>1, <2>3, <2>4, TimesNat DEF Takes
  <2>7. PortTypes'
    BY <1>1, <1>2, <2>1, LockRecords DEF PortTypes
  <2>8. \A p \in AllPorts : Same(t, p) \/ Takes(t, p) \/ Gives(t, p)
    BY <2>5, <2>6
  <2> QED
    BY <1>1, <1>2, <2>3, <2>7, <2>8, LockChange
<1> QED
  BY <1>3, <1>4

\* What the operation on top gives back.
LEMMA ReleasedLock ==
    ASSUME LockInv, NEW t \in Threads, call[t] # <<>>, Top(t).p \in AllPorts, lock' = Released(t)
    PROVE  /\ lock' \in [AllPorts -> [owner : Threads \cup {NoThread}, count : Nat]]
           /\ \A p \in AllPorts : lock'[p] = IF Top(t).locked /\ p = Top(t).p THEN Unlocked(lock, p)[p] ELSE lock[p]
<1>1. PortTypes /\ lock \in [AllPorts -> [owner : Threads \cup {NoThread}, count : Nat]]
  BY DEF LockInv, PortTypes
<1>2. CASE Top(t).locked
  BY <1>1, <1>2, LockRecords DEF Released
<1>3. CASE ~Top(t).locked
  BY <1>1, <1>3 DEF Released
<1> QED
  BY <1>2, <1>3

\* UNLOCK(p) in Scm_Flush.
LEMMA ReleaseStep ==
    ASSUME LockInv, NEW t \in Threads, FlushRelease(t)
    PROVE  /\ call[t] # <<>> /\ Top(t).op = "flush-port" /\ Top(t).p \in OPorts
           /\ \E f : /\ Set(t, f) /\ Fit(f) /\ f.op = Top(t).op /\ f.p = Top(t).p /\ f.at = "flushed"
                     /\ f.locked = FALSE /\ f.save = Top(t).save
<1> DEFINE g == Top(t)
           f == [g EXCEPT !.at = "flushed", !.locked = FALSE]
<1>1. call[t] # <<>> /\ g.at = "release" /\ Set(t, f)
  BY DEF FlushRelease, At
<1>2. Fit(g) /\ g \in Frames /\ Stage(g) /\ PortFit(g) /\ LockFit(g)
  BY <1>1, TopFacts DEF Fit
<1>3. g.op = "flush-port" /\ g.p \in OPorts
  BY <1>1, <1>2, Stages DEF PortFit
<1>4. f \in Frames /\ f.op = g.op /\ f.p = g.p /\ f.at = "flushed" /\ f.locked = FALSE /\ f.save = g.save
  <2>1. "flushed" \in Labels
    BY DEF Labels
  <2> QED
    BY <1>2, <2>1 DEF Frames
<1> HIDE DEF f, g
<1>5. Stage(f)
  BY <1>3, <1>4 DEF Stage
<1>6. PortFit(f) /\ LockFit(f)
  BY <1>2, <1>3, <1>4 DEF PortFit, LockFit, Reads
<1> QED
  BY <1>1, <1>3, <1>4, <1>5, <1>6 DEF g, Fit

\* It gives back what the operation took.
LEMMA ReleaseMoves ==
    ASSUME LockInv, NEW t \in Threads, FlushRelease(t)
    PROVE  Moves(t)
<1>1. /\ UNCHANGED <<held, dead, leaked, link, slots, made, puts, buf, device, entered>> /\ call[t] # <<>>
      /\ lock' = Released(t) /\ Top(t).at = "release"
  BY DEF FlushRelease, tableVars, streamVars, At
<1>2. StreamTypes' /\ PortTypes
  BY <1>1, SameStreams DEF LockInv
<1>3. PICK f : /\ Set(t, f) /\ Fit(f) /\ f.op = Top(t).op /\ f.p = Top(t).p /\ f.at = "flushed" /\ f.locked = FALSE
               /\ Top(t).op = "flush-port" /\ Top(t).p \in AllPorts
  BY ReleaseStep DEF AllPorts
<1>4. /\ lock' \in [AllPorts -> [owner : Threads \cup {NoThread}, count : Nat]]
      /\ \A p \in AllPorts : lock'[p] = IF Top(t).locked /\ p = Top(t).p THEN Unlocked(lock, p)[p] ELSE lock[p]
  BY <1>1, <1>3, ReleasedLock
<1>5. /\ call' \in [Threads -> Seq(Frames)] /\ Stacks(t)' /\ t \notin dead
      /\ \A u \in Threads \ {t} : call'[u] = call[u]
      /\ \A p : Times(call'[t], held'[t], p) + One(Owns(Top(t), p))
                  = Times(call[t], held[t], p) + One(Owns(f, p))
  BY <1>1, <1>3, SetFrame
<1>6. \A p : ~Owns(f, p) /\ (Owns(Top(t), p) <=> Top(t).locked /\ p = Top(t).p)
  BY <1>1, <1>3 DEF Owns
<1>7. ASSUME NEW p \in AllPorts PROVE Same(t, p) \/ Takes(t, p) \/ Gives(t, p)
  <2>1. One(Owns(f, p)) = 0 /\ One(Owns(Top(t), p)) = IF Top(t).locked /\ p = Top(t).p THEN 1 ELSE 0
    BY <1>6 DEF One
  <2> QED
    BY <1>4, <1>5, <2>1, TimesNat DEF Same, Gives
<1>8. PortTypes'
  BY <1>1, <1>2, <1>4 DEF PortTypes
<1> QED
  BY <1>1, <1>2, <1>5, <1>7, <1>8, LockChange

\* Linking: the input port, and then the output port.
LEMMA LinkStep ==
    ASSUME LockInv, NEW t \in Threads, LinkPorts(t) \/ LinkPorts2(t)
    PROVE  /\ call[t] # <<>> /\ Top(t).op \in {"link", "unlink"} /\ Top(t).p \in IPorts /\ Top(t).q \in OPorts
           /\ Top(t).locked = FALSE
           /\ Top(t).at = IF LinkPorts(t) THEN "link-1" ELSE "link-2"
           /\ \E f : /\ Set(t, f) /\ Fit(f) /\ f.op = Top(t).op /\ f.p = Top(t).p /\ f.q = Top(t).q
                     /\ f.at = (IF LinkPorts(t) THEN "link-2" ELSE "link-3")
                     /\ f.locked = FALSE /\ f.save = Top(t).save
<1> DEFINE g == Top(t)
           a == IF LinkPorts(t) THEN "link-2" ELSE "link-3"
           f == [g EXCEPT !.at = a]
<1>1. call[t] # <<>> /\ g.at = (IF LinkPorts(t) THEN "link-1" ELSE "link-2") /\ Set(t, f)
  BY DEF LinkPorts, LinkPorts2, At, Goto
<1>2. Fit(g) /\ g \in Frames /\ Stage(g) /\ PortFit(g) /\ LockFit(g)
  BY <1>1, TopFacts DEF Fit
<1>3. g.op \in {"link", "unlink"} /\ g.p \in IPorts /\ g.q \in OPorts
  BY <1>1, <1>2, Stages DEF PortFit
<1>4. g.locked = FALSE
  BY <1>2, <1>3 DEF LockFit, LockOps, Reads, Frames
<1>5. a \in {"link-2", "link-3"}
  OBVIOUS
<1> HIDE DEF a
<1>6. f \in Frames /\ f.op = g.op /\ f.p = g.p /\ f.q = g.q /\ f.at = a /\ f.locked = FALSE /\ f.save = g.save
  <2>1. a \in Labels
    BY <1>5 DEF Labels
  <2> QED
    BY <1>2, <1>4, <2>1 DEF Frames
<1> HIDE DEF f, g
<1>7. Stage(f)
  BY <1>3, <1>5, <1>6 DEF Stage
<1>8. PortFit(f) /\ LockFit(f)
  BY <1>2, <1>3, <1>5, <1>6 DEF PortFit, LockFit, Reads
<1> QED
  BY <1>1, <1>3, <1>4, <1>6, <1>7, <1>8 DEF g, Fit, a

\* Each of the two steps takes one lock.
LEMMA LinkMoves ==
    ASSUME LockInv, NEW t \in Threads, LinkPorts(t) \/ LinkPorts2(t)
    PROVE  Moves(t)
<1> DEFINE r == IF LinkPorts(t) THEN Top(t).p ELSE Top(t).q
<1>1. /\ UNCHANGED <<held, dead, leaked, link, slots, made, puts, buf, device, entered>> /\ call[t] # <<>>
      /\ CanLock(t, r) /\ lock' = Locked(t, r)
  BY DEF LinkPorts, LinkPorts2, tableVars, streamVars, At
<1>2. StreamTypes' /\ PortTypes
  BY <1>1, SameStreams DEF LockInv
<1>3. PICK f : /\ Set(t, f) /\ Fit(f) /\ f.op = Top(t).op /\ f.p = Top(t).p /\ f.q = Top(t).q /\ f.locked = FALSE
               /\ f.at = (IF LinkPorts(t) THEN "link-2" ELSE "link-3")
               /\ Top(t).at = IF LinkPorts(t) THEN "link-1" ELSE "link-2"
               /\ Top(t).op \in {"link", "unlink"} /\ Top(t).p \in IPorts /\ Top(t).q \in OPorts
               /\ Top(t).locked = FALSE
  BY LinkStep
<1>4. r \in AllPorts /\ Top(t).p # Top(t).q
  BY <1>3, PortsAssumption DEF AllPorts, PortsAssumption
<1>5. /\ call' \in [Threads -> Seq(Frames)] /\ Stacks(t)' /\ t \notin dead
      /\ \A u \in Threads \ {t} : call'[u] = call[u]
      /\ \A p : Times(call'[t], held'[t], p) + One(Owns(Top(t), p))
                  = Times(call[t], held[t], p) + One(Owns(f, p))
  BY <1>1, <1>3, SetFrame
<1>6. \A p : IF p = r THEN Owns(f, p) /\ ~Owns(Top(t), p) ELSE Owns(f, p) <=> Owns(Top(t), p)
  BY <1>3, <1>4 DEF Owns
<1> HIDE DEF r
<1>7. ASSUME NEW p \in AllPorts PROVE Same(t, p) \/ Takes(t, p) \/ Gives(t, p)
  <2>1. CASE p = r
    <3>1. One(Owns(f, p)) = 1 /\ One(Owns(Top(t), p)) = 0
      BY <1>6, <2>1 DEF One
    <3> QED
      BY <1>1, <1>5, <2>1, <3>1, TimesNat DEF Takes
  <2>2. CASE p # r
    <3>1. One(Owns(f, p)) = One(Owns(Top(t), p)) /\ One(Owns(f, p)) \in Nat
      BY <1>6, <2>2 DEF One
    <3>2. lock'[p] = lock[p]
      BY <1>1, <1>2, <1>4, <2>2, LockRecords
    <3> QED
      BY <1>5, <3>1, <3>2, TimesNat DEF Same
  <2> QED
    BY <2>1, <2>2
<1>8. PortTypes'
  BY <1>1, <1>2, <1>4, LockRecords DEF PortTypes
<1> QED
  BY <1>1, <1>2, <1>5, <1>7, <1>8, LockChange

-----------------------------------------------------------------------------
(* Steps that end an operation.                                                *)

\* A frame in LockOps works on a port.
LEMMA PortOfLockOps ==
    ASSUME NEW f, Fit(f), f.op \in LockOps
    PROVE  f.p \in AllPorts
  BY DEF Fit, PortFit, LockOps, Reads, AllPorts

\* An operation that returns gives back what it took.
LEMMA UnlockMoves ==
    ASSUME LockInv, NEW t \in Threads, Unlock(t)
    PROVE  Moves(t)
<1>1. /\ UNCHANGED <<held, dead, leaked, link, slots, made, puts, buf, device, entered>> /\ call[t] # <<>>
      /\ lock' = Released(t) /\ Top(t).at = "unlock" /\ call' = [call EXCEPT ![t] = Tail(@)]
  BY DEF Unlock, tableVars, streamVars, At
<1>2. StreamTypes' /\ PortTypes
  BY <1>1, SameStreams DEF LockInv
<1>3. Top(t).p \in AllPorts
  <2>1. Fit(Top(t)) /\ Top(t).op \in LockOps
    BY <1>1, TopFacts, Stages DEF Fit
  <2> QED
    BY <2>1, PortOfLockOps
<1>4. /\ lock' \in [AllPorts -> [owner : Threads \cup {NoThread}, count : Nat]]
      /\ \A p \in AllPorts : lock'[p] = IF Top(t).locked /\ p = Top(t).p THEN Unlocked(lock, p)[p] ELSE lock[p]
  BY <1>1, <1>3, ReleasedLock
<1>5. /\ call' \in [Threads -> Seq(Frames)] /\ Stacks(t)' /\ t \notin dead
      /\ \A u \in Threads \ {t} : call'[u] = call[u]
      /\ \A p, h : Times(call'[t], h, p) + One(Owns(Top(t), p)) = Times(call[t], h, p)
  BY <1>1, PopFrame
<1>6. ASSUME NEW p \in AllPorts PROVE Same(t, p) \/ Takes(t, p) \/ Gives(t, p)
  <2>1. Owns(Top(t), p) <=> Top(t).locked /\ p = Top(t).p
    BY <1>1 DEF Owns
  <2>2. One(Owns(Top(t), p)) = IF Top(t).locked /\ p = Top(t).p THEN 1 ELSE 0
    BY <2>1 DEF One
  <2>3. Times(call'[t], held'[t], p) + One(Owns(Top(t), p)) = Times(call[t], held[t], p)
    BY <1>1, <1>5
  <2> QED
    BY <1>4, <2>2, <2>3, TimesNat DEF Same, Gives
<1>7. PortTypes'
  BY <1>1, <1>2, <1>4 DEF PortTypes
<1> QED
  BY <1>1, <1>2, <1>5, <1>6, <1>7, LockChange

\* What a flusher that fails has written are bytes of the buffer.
LEMMA AllFailsTypes ==
    ASSUME NEW t \in Threads, StreamTypes, PortFit(Top(t)), FlushAllFails(t)
    PROVE  StreamTypes'
<1> DEFINE p == Top(t).p
<1>1. StreamTypes /\ p \in OPorts /\ buf[p] \in Seq(Tags) /\ device[p] \in Seq(Tags)
  BY DEF FlushAllFails, At, PortFit, StreamTypes
<1>2. PICK k \in 0..Len(buf[p]) : device' = [device EXCEPT ![p] = @ \o SubSeq(buf[p], 1, k)]
  BY DEF FlushAllFails, WriteFails
<1>3. device[p] \o SubSeq(buf[p], 1, k) \in Seq(Tags)
  BY <1>1, Parts
<1>4. UNCHANGED <<buf, entered>>
  BY DEF FlushAllFails
<1> QED
  BY <1>1, <1>2, <1>3, <1>4 DEF StreamTypes

\* An operation that holds no lock returns.
LEMMA PopMoves ==
    ASSUME LockInv, NEW t \in Threads, FlushSetFlag(t) \/ Open(t) \/ FlushAllFails(t) \/ FlushAllRestore(t)
    PROVE  /\ Moves(t) /\ call[t] # <<>> /\ Top(t).locked = FALSE
           /\ Top(t).op = IF FlushSetFlag(t) THEN "flush-port" ELSE IF Open(t) THEN "open" ELSE "flush-all"
<1>1. /\ UNCHANGED <<lock, held, dead, leaked, link, puts>> /\ call[t] # <<>>
      /\ FlushAllFails(t) \/ UNCHANGED <<buf, device, entered>>
      /\ call' = [call EXCEPT ![t] = Tail(@)]
      /\ Top(t).at = IF FlushSetFlag(t) THEN "flushed" ELSE IF Open(t) THEN "open"
                     ELSE IF FlushAllFails(t) THEN "fa-write" ELSE "fa-restore"
  BY DEF FlushSetFlag, Open, FlushAllFails, FlushAllRestore, streamVars, tableVars, At
<1>2. StreamTypes' /\ PortTypes /\ Fit(Top(t)) /\ Top(t) \in Frames
  <2>1. StreamTypes /\ PortTypes /\ Fit(Top(t)) /\ Top(t) \in Frames
    BY <1>1, TopFacts DEF LockInv
  <2>2. StreamTypes'
    BY <1>1, <2>1, SameStreams, AllFailsTypes DEF Fit
  <2> QED
    BY <2>1, <2>2
<1>3. Top(t).op = IF FlushSetFlag(t) THEN "flush-port" ELSE IF Open(t) THEN "open" ELSE "flush-all"
  BY <1>1, <1>2, Stages DEF Fit
<1>4. Top(t).locked = FALSE
  BY <1>1, <1>2, <1>3 DEF Fit, LockFit, Frames, LockOps, Reads
<1>5. /\ call' \in [Threads -> Seq(Frames)] /\ Stacks(t)' /\ t \notin dead
      /\ \A u \in Threads \ {t} : call'[u] = call[u]
      /\ \A p, h : Times(call'[t], h, p) + One(Owns(Top(t), p)) = Times(call[t], h, p)
  BY <1>1, PopFrame
<1>6. ASSUME NEW p \in AllPorts PROVE Same(t, p)
  <2>1. ~Owns(Top(t), p)
    BY <1>1, <1>4 DEF Owns
  <2>2. One(Owns(Top(t), p)) = 0
    BY <2>1 DEF One
  <2>3. Times(call'[t], held'[t], p) + One(Owns(Top(t), p)) = Times(call[t], held[t], p)
    BY <1>1, <1>5
  <2> QED
    BY <1>1, <2>2, <2>3, TimesNat DEF Same
<1>7. PortTypes'
  <2>1. CASE FlushSetFlag(t) \/ FlushAllFails(t)
    <3>1. UNCHANGED <<slots, made>>
      BY <2>1 DEF FlushSetFlag, FlushAllFails, tableVars
    <3> QED
      BY <1>1, <1>2, <3>1, SamePorts
  <2>2. CASE Open(t)
    <3>1. Top(t).p \in OPorts
      <4>1. Top(t).op = "open"
        BY <2>2, <1>2, Stages DEF Fit, Open, At
      <4> QED
        BY <1>2, <4>1 DEF Fit, PortFit
    <3>2. /\ made' = made \cup {Top(t).p}
          /\ \E s \in DOMAIN slots : slots' = [slots EXCEPT ![s] = Top(t).p]
      BY <2>2 DEF Open
    <3> QED
      BY <1>1, <1>2, <3>1, <3>2 DEF PortTypes, AllPorts
  <2>3. CASE FlushAllRestore(t)
    <3>1. /\ UNCHANGED made
          /\ slots' = [s \in DOMAIN slots |-> IF Top(t).save[s] = NoPort THEN slots[s] ELSE Top(t).save[s]]
      BY <2>3 DEF FlushAllRestore
    <3>2. Top(t).save \in [Slot -> OPorts \cup {NoPort}]
      BY <1>2 DEF Frames
    <3> QED
      BY <1>1, <1>2, <3>1, <3>2 DEF PortTypes
  <2> QED
    BY <2>1, <2>2, <2>3
<1>8. Moves(t)
  BY <1>1, <1>2, <1>5, <1>6, <1>7, LockChange
<1> QED
  BY <1>1, <1>3, <1>4, <1>8

\* with-port-locking: what the frame has locked is held from now on.
LEMMA LockHeldMoves ==
    ASSUME LockInv, NEW t \in Threads, LockHeld(t)
    PROVE  Moves(t)
<1>1. /\ UNCHANGED <<lock, dead, leaked, link, slots, made, puts, buf, device, entered>> /\ call[t] # <<>>
      /\ call' = [call EXCEPT ![t] = Tail(@)] /\ Top(t).at = "lock!"
      /\ held' = [held EXCEPT ![t] = @ \cup {Top(t).p}]
  BY DEF LockHeld, streamVars, tableVars, At
<1>2. StreamTypes' /\ PortTypes /\ Fit(Top(t)) /\ Stacks(t)
  BY <1>1, SameStreams, TopFacts DEF LockInv
<1>3. Top(t).op = "lock!"
  BY <1>1, <1>2, Stages DEF Fit
<1>4. Top(t).p \in AllPorts /\ Top(t).locked /\ Top(t).p \notin held[t]
  BY <1>1, <1>2, <1>3 DEF Fit, PortFit, LockFit, Stacks
<1>5. /\ call' \in [Threads -> Seq(Frames)] /\ Stacks(t)' /\ t \notin dead
      /\ \A u \in Threads \ {t} : call'[u] = call[u]
      /\ \A p, h : Times(call'[t], h, p) + One(Owns(Top(t), p)) = Times(call[t], h, p)
  BY <1>1, PopFrame
<1>6. held'[t] = held[t] \cup {Top(t).p} /\ \A u \in Threads \ {t} : held'[u] = held[u]
  BY <1>1, <1>2 DEF PortTypes
<1>7. ASSUME NEW p \in AllPorts PROVE Same(t, p)
  <2>1. Owns(Top(t), p) <=> p = Top(t).p
    BY <1>1, <1>4 DEF Owns
  <2>2. One(Owns(Top(t), p)) = IF p = Top(t).p THEN 1 ELSE 0
    BY <2>1 DEF One
  <2>3. Times(call'[t], held'[t], p) + One(Owns(Top(t), p)) = Times(call[t], held'[t], p)
    BY <1>5
  <2>4. Times(call[t], held'[t], p) = Times(call[t], held[t], p) + (IF p = Top(t).p THEN 1 ELSE 0)
    BY <1>4, <1>6 DEF Times, One
  <2> QED
    BY <1>1, <2>2, <2>3, <2>4, TimesNat DEF Same
<1>8. PortTypes'
  BY <1>1, <1>2, <1>4 DEF PortTypes
<1> QED
  BY <1>1, <1>2, <1>5, <1>6, <1>7, <1>8, LockChange

\* The body of with-port-locking ends.
LEMMA UnlockHeldMoves ==
    ASSUME LockInv, NEW t \in Threads, NEW r \in AllPorts, UnlockHeld(t, r)
    PROVE  Moves(t)
<1>1. /\ UNCHANGED <<call, dead, leaked, link, slots, made, puts, buf, device, entered>> /\ call[t] = <<>>
      /\ t \notin dead /\ r \in held[t] /\ held' = [held EXCEPT ![t] = @ \ {r}] /\ lock' = Unlocked(lock, r)
  BY DEF UnlockHeld, streamVars, tableVars
<1>2. StreamTypes' /\ PortTypes /\ Stacks(t) /\ call \in [Threads -> Seq(Frames)]
  BY <1>1, SameStreams DEF LockInv
<1>3. held'[t] = held[t] \ {r} /\ \A u \in Threads \ {t} : held'[u] = held[u]
  BY <1>1, <1>2 DEF PortTypes
<1>4. ASSUME NEW p \in AllPorts PROVE Same(t, p) \/ Takes(t, p) \/ Gives(t, p)
  <2>1. Times(call[t], held[t], p) = Times(call[t], held'[t], p) + (IF p = r THEN 1 ELSE 0)
    BY <1>1, <1>3 DEF Times, One
  <2>2. lock'[p] = IF p = r THEN Unlocked(lock, p)[p] ELSE lock[p]
    BY <1>1, <1>2, LockRecords
  <2> QED
    BY <1>1, <2>1, <2>2, TimesNat DEF Same, Gives
<1>5. PortTypes'
  BY <1>1, <1>2, LockRecords DEF PortTypes
<1>6. Stacks(t)'
  BY <1>1, <1>2 DEF Stacks
<1>7. call' \in [Threads -> Seq(Frames)] /\ \A u \in Threads \ {t} : call'[u] = call[u] /\ held'[u] = held[u]
  BY <1>1, <1>2, <1>3
<1> QED
  BY <1>1, <1>2, <1>4, <1>5, <1>6, <1>7, LockChange

\* Both ports of a link are unlocked.
LEMMA LinkedMoves ==
    ASSUME LockInv, NEW t \in Threads, LinkPorts3(t)
    PROVE  Moves(t) /\ call[t] # <<>> /\ Top(t).op \in {"link", "unlink"}
<1> DEFINE i == Top(t).p
           o == Top(t).q
<1>1. /\ UNCHANGED <<held, dead, leaked, slots, made, puts, buf, device, entered>> /\ call[t] # <<>>
      /\ call' = [call EXCEPT ![t] = Tail(@)] /\ Top(t).at = "link-3"
      /\ lock' = Unlocked(Unlocked(lock, o), i) /\ link' = Relink(Top(t).op, i, o)
  BY DEF LinkPorts3, streamVars, tableVars, At
<1>2. StreamTypes' /\ PortTypes /\ Fit(Top(t)) /\ Top(t) \in Frames
  BY <1>1, SameStreams, TopFacts DEF LockInv
<1>3. Top(t).op \in {"link", "unlink"} /\ i \in IPorts /\ o \in OPorts
  BY <1>1, <1>2, Stages DEF Fit, PortFit
<1>4. i \in AllPorts /\ o \in AllPorts /\ i # o
  BY <1>3, PortsAssumption DEF PortsAssumption, AllPorts
<1>5. Top(t).locked = FALSE
  BY <1>2, <1>3 DEF Fit, LockFit, LockOps, Reads, Frames
<1>6. /\ call' \in [Threads -> Seq(Frames)] /\ Stacks(t)' /\ t \notin dead
      /\ \A u \in Threads \ {t} : call'[u] = call[u]
      /\ \A p, h : Times(call'[t], h, p) + One(Owns(Top(t), p)) = Times(call[t], h, p)
  BY <1>1, PopFrame
<1>7. /\ lock' \in [AllPorts -> [owner : Threads \cup {NoThread}, count : Nat]]
      /\ \A p \in AllPorts : lock'[p] = IF p \in {i, o} THEN Unlocked(lock, p)[p] ELSE lock[p]
  <2> DEFINE L == [owner : Threads \cup {NoThread}, count : Nat]
  <2>1. lock \in [AllPorts -> L]
    BY <1>2 DEF PortTypes
  <2>2. \A l \in [AllPorts -> L], p \in AllPorts :
          /\ Unlocked(l, p) \in [AllPorts -> L]
          /\ \A r \in AllPorts : r # p => Unlocked(l, p)[r] = l[r]
          /\ Unlocked(l, p)[p] = IF l[p].count > 1 THEN [owner |-> l[p].owner, count |-> l[p].count - 1]
                                 ELSE [owner |-> NoThread, count |-> 0]
    BY DEF Unlocked
  <2> HIDE DEF L, i, o
  <2>3. Unlocked(lock, o) \in [AllPorts -> L] /\ Unlocked(lock, o)[i] = lock[i]
    BY <1>4, <2>1, <2>2
  <2>4. lock' \in [AllPorts -> L] /\ \A r \in AllPorts : r # i => lock'[r] = Unlocked(lock, o)[r]
    BY <1>1, <1>4, <2>2, <2>3
  <2>5. lock'[i] = Unlocked(lock, i)[i]
    <3>1. \A l, m \in [AllPorts -> L] : l[i] = m[i] => Unlocked(l, i)[i] = Unlocked(m, i)[i]
      BY <1>4 DEF Unlocked
    <3> QED
      BY <1>1, <2>1, <2>3, <3>1
  <2>6. \A r \in AllPorts : r # o => Unlocked(lock, o)[r] = lock[r]
    BY <1>4, <2>1, <2>2
  <2> QED
    BY <2>4, <2>5, <2>6 DEF L
<1>8. ASSUME NEW p \in AllPorts PROVE Same(t, p) \/ Takes(t, p) \/ Gives(t, p)
  <2>1. Owns(Top(t), p) <=> p \in {i, o}
    BY <1>1, <1>5 DEF Owns
  <2>2. One(Owns(Top(t), p)) = IF p \in {i, o} THEN 1 ELSE 0
    BY <2>1 DEF One
  <2>3. Times(call'[t], held'[t], p) + One(Owns(Top(t), p)) = Times(call[t], held[t], p)
    BY <1>1, <1>6
  <2> QED
    BY <1>7, <2>2, <2>3, TimesNat DEF Same, Gives
<1>9. PortTypes'
  <2>1. /\ link' \in [AllPorts -> AllPorts \cup {NoPort}]
        /\ \A x \in IPorts : link'[x] \in OPorts \cup {NoPort}
        /\ \A x \in OPorts : link'[x] \in IPorts \cup {NoPort}
    <3>1. \/ link' = link \/ link' = [link EXCEPT ![i] = o, ![o] = i]
          \/ link' = [link EXCEPT ![i] = NoPort, ![o] = NoPort]
      BY <1>1 DEF Relink
    <3>2. IPorts \cap OPorts = {} /\ IPorts \subseteq AllPorts /\ OPorts \subseteq AllPorts
      BY PortsAssumption DEF AllPorts, PortsAssumption
    <3>3. CASE link' = link
      BY <1>2, <3>3 DEF PortTypes
    <3>4. CASE link' = [link EXCEPT ![i] = o, ![o] = i]
      BY <1>2, <1>3, <3>2, <3>4 DEF PortTypes
    <3>5. CASE link' = [link EXCEPT ![i] = NoPort, ![o] = NoPort]
      BY <1>2, <1>3, <3>2, <3>5 DEF PortTypes
    <3> QED
      BY <3>1, <3>3, <3>4, <3>5
  <2> QED
    BY <1>1, <1>2, <1>7, <2>1 DEF PortTypes
<1>10. Moves(t)
  BY <1>1, <1>2, <1>6, <1>8, <1>9, LockChange
<1> QED
  BY <1>1, <1>3, <1>10

-----------------------------------------------------------------------------
(* Errors.                                                                     *)

\* The reading operation below, if it has locked its port.
Below(t, f) == Len(call[t]) = 2 /\ f = call[t][2] /\ f.locked

\* What an error releases, and what it leaves locked.
LEMMA FailEffect ==
    ASSUME LockInv, NEW t \in Threads, call[t] # <<>>, Top(t).op \in LockOps, Fail(t)
    PROVE  /\ Top(t).p \in AllPorts
           /\ \A f : Below(t, f) => f.op \in Reads /\ f.at = "read" /\ f.p \in IPorts /\ f.p # Top(t).p
           /\ \A p \in AllPorts : lock'[p] = IF \E f : Below(t, f) /\ f.op = "peekc" /\ f.p = p
                                              THEN Unlocked(Released(t), p)[p] ELSE Released(t)[p]
           /\ lock' \in [AllPorts -> [owner : Threads \cup {NoThread}, count : Nat]]
           /\ \A p : p \in leaked' <=> p \in leaked \/ \E f : Below(t, f) /\ f.op # "peekc" /\ f.p = p
           /\ call' = [call EXCEPT ![t] = <<>>]
<1> DEFINE L == [owner : Threads \cup {NoThread}, count : Nat]
           below == {call[t][k] : k \in {k \in 2..Len(call[t]) : call[t][k].locked}}
<1>1. Len(call[t]) \in {1, 2} /\ Fit(Top(t)) /\ Stacks(t) /\ PortTypes /\ Top(t).p \in AllPorts
  BY TopFacts, PortOfLockOps
<1>2. \A f : f \in below <=> Below(t, f)
  <2>1. 2..1 = {} /\ 2..2 = {2}
    OBVIOUS
  <2>2. \A k : k \in 2..Len(call[t]) <=> k = 2 /\ Len(call[t]) = 2
    <3>1. CASE Len(call[t]) = 1
      BY <2>1, <3>1
    <3>2. CASE Len(call[t]) = 2
      BY <2>1, <3>2
    <3> QED
      BY <1>1, <3>1, <3>2
  <2> QED
    BY <2>2 DEF Below
<1>3. /\ lock' = [p \in AllPorts |-> IF \E f \in below : f.op = "peekc" /\ f.p = p
                                      THEN Unlocked(Released(t), p)[p] ELSE Released(t)[p]]
      /\ leaked' = leaked \cup {f.p : f \in {f \in below : f.op # "peekc"}}
      /\ call' = [call EXCEPT ![t] = <<>>]
  BY Zenon DEF Fail
<1> HIDE DEF below
<1>4. \A p \in AllPorts : lock'[p] = IF \E f : Below(t, f) /\ f.op = "peekc" /\ f.p = p
                                      THEN Unlocked(Released(t), p)[p] ELSE Released(t)[p]
  BY <1>2, <1>3
<1>5. \A p : p \in leaked' <=> p \in leaked \/ \E f : Below(t, f) /\ f.op # "peekc" /\ f.p = p
  BY <1>2, <1>3
<1>6. ASSUME NEW f, Below(t, f) PROVE f.op \in Reads /\ f.at = "read" /\ f.p \in IPorts /\ f.p # Top(t).p
  <2>1. Fit(f) /\ f.at = "read" /\ Top(t).op = "flush-port"
    BY <1>1, <1>6 DEF Below, Stacks, Stack, Top
  <2>2. f.op \in Reads
    BY <2>1, Stages DEF Fit
  <2>3. f.p \in IPorts /\ Top(t).p \in OPorts
    BY <1>1, <2>1, <2>2 DEF Fit, PortFit
  <2> QED
    BY <2>1, <2>2, <2>3, PortsAssumption DEF PortsAssumption
<1>7. lock' \in [AllPorts -> L]
  <2>1. Released(t) \in [AllPorts -> L]
    BY <1>1, LockRecords DEF Released, PortTypes
  <2>2. \A p \in AllPorts : Unlocked(Released(t), p) \in [AllPorts -> L]
    BY <2>1 DEF Unlocked
  <2>3. \A p \in AllPorts : (IF \E f \in below : f.op = "peekc" /\ f.p = p
                             THEN Unlocked(Released(t), p)[p] ELSE Released(t)[p]) \in L
    BY <2>1, <2>2
  <2> HIDE DEF L
  <2> QED
    BY <1>3, <2>3
<1> QED
  BY <1>1, <1>3, <1>4, <1>5, <1>6, <1>7

\* An error gives back what the operations took, or counts the port as leaked.
LEMMA FailMoves ==
    ASSUME LockInv, NEW t \in Threads, call[t] # <<>>, Top(t).op \in LockOps, Fail(t),
           UNCHANGED <<held, dead, link, slots, made, puts>>, StreamTypes'
    PROVE  Moves(t)
<1> DEFINE L == [owner : Threads \cup {NoThread}, count : Nat]
<1>1. /\ Top(t).p \in AllPorts /\ PortTypes /\ lock \in [AllPorts -> L]
      /\ Fit(Top(t)) /\ Stacks(t) /\ Len(call[t]) \in {1, 2}
  BY FailEffect, TopFacts DEF PortTypes
<1>2. /\ \A f : Below(t, f) => f.op \in Reads /\ f.at = "read" /\ f.p \in IPorts /\ f.p # Top(t).p
      /\ \A p \in AllPorts : lock'[p] = IF \E f : Below(t, f) /\ f.op = "peekc" /\ f.p = p
                                         THEN Unlocked(Released(t), p)[p] ELSE Released(t)[p]
      /\ lock' \in [AllPorts -> L]
      /\ \A p : p \in leaked' <=> p \in leaked \/ \E f : Below(t, f) /\ f.op # "peekc" /\ f.p = p
      /\ call' = [call EXCEPT ![t] = <<>>]
  BY FailEffect
<1>3. /\ call' \in [Threads -> Seq(Frames)] /\ Stacks(t)' /\ t \notin dead
      /\ \A u \in Threads \ {t} : call'[u] = call[u]
      /\ \A p, h : Times(call'[t], h, p) = One(p \in h)
  BY <1>2, DropFrames
<1>4. PortTypes'
  <2>1. leaked' \subseteq IPorts
    BY <1>1, <1>2 DEF PortTypes
  <2> QED
    BY <1>1, <1>2, <2>1 DEF PortTypes
<1> HIDE DEF L
<1>5. ASSUME NEW p \in AllPorts
      PROVE  /\ Released(t)[p] = IF Top(t).locked /\ p = Top(t).p THEN Unlocked(lock, p)[p] ELSE lock[p]
             /\ p # Top(t).p => Unlocked(Released(t), p)[p] = Unlocked(lock, p)[p]
  <2>1. \A r \in AllPorts : r # Top(t).p => Unlocked(lock, Top(t).p)[r] = lock[r]
    BY <1>1, LockRecords
  <2>2. Unlocked(lock, Top(t).p) \in [AllPorts -> L]
    BY <1>1, LockRecords DEF L
  <2>3. \A l, m \in [AllPorts -> L] : l[p] = m[p] => Unlocked(l, p)[p] = Unlocked(m, p)[p]
    BY DEF Unlocked
  <2> QED
    BY <1>1, <2>1, <2>2, <2>3 DEF Released
<1>6. ASSUME NEW p \in AllPorts
      PROVE  Times(call[t], held[t], p) =
                (IF Top(t).locked /\ p = Top(t).p THEN 1 ELSE 0)
                + (IF \E f : Below(t, f) /\ f.p = p THEN 1 ELSE 0) + One(p \in held[t])
  <2>1. Owns(call[t][1], p) <=> Top(t).locked /\ p = Top(t).p
    <3>1. Top(t).at \notin {"link-1", "link-2", "link-3"}
      BY <1>1, Stages DEF Fit, LockOps, Reads
    <3> QED
      BY <3>1 DEF Owns, Top
  <2>2. (Len(call[t]) = 2 /\ Owns(call[t][2], p)) <=> \E f : Below(t, f) /\ f.p = p
    <3>1. Len(call[t]) = 2 => call[t][2].at = "read"
      BY <1>1 DEF Stacks, Stack
    <3> QED
      BY <3>1 DEF Below, Owns
  <2> QED
    BY <2>1, <2>2 DEF Times, One
<1>7. ASSUME NEW p \in AllPorts
      PROVE  /\ lock'[p] \in {lock[p], Unlocked(lock, p)[p]}
             /\ p \notin leaked' => Same(t, p) \/ Gives(t, p)
  <2>1. Times(call'[t], held'[t], p) = One(p \in held[t]) /\ One(p \in held[t]) \in Nat
    BY <1>3 DEF One
  <2>2. CASE Top(t).locked /\ p = Top(t).p
    <3>1. ~\E f : Below(t, f) /\ f.p = p
      BY <1>2, <2>2
    <3>2. lock'[p] = Unlocked(lock, p)[p]
      BY <1>2, <1>5, <2>2, <3>1
    <3>3. Times(call[t], held[t], p) = 1 + One(p \in held[t])
      BY <1>6, <2>1, <2>2, <3>1
    <3> QED
      BY <2>1, <3>2, <3>3 DEF Gives
  <2>3. CASE \E f : Below(t, f) /\ f.p = p
    <3>1. p # Top(t).p
      BY <1>2, <2>3
    <3>2. Times(call[t], held[t], p) = 1 + One(p \in held[t])
      BY <1>6, <2>1, <2>3, <3>1
    <3>3. CASE \E f : Below(t, f) /\ f.op = "peekc" /\ f.p = p
      <4>1. lock'[p] = Unlocked(lock, p)[p]
        BY <1>2, <1>5, <3>1, <3>3
      <4> QED
        BY <2>1, <3>2, <4>1 DEF Gives
    <3>4. CASE ~\E f : Below(t, f) /\ f.op = "peekc" /\ f.p = p
      <4>1. lock'[p] = lock[p] /\ p \in leaked'
        BY <1>2, <1>5, <2>3, <3>1, <3>4
      <4> QED
        BY <4>1
    <3> QED
      BY <3>3, <3>4
  <2>4. CASE ~(Top(t).locked /\ p = Top(t).p) /\ ~\E f : Below(t, f) /\ f.p = p
    <3>1. lock'[p] = lock[p]
      BY <1>2, <1>5, <2>4
    <3>2. Times(call[t], held[t], p) = One(p \in held[t])
      BY <1>6, <2>1, <2>4
    <3> QED
      BY <2>1, <3>1, <3>2 DEF Same
  <2> QED
    BY <2>2, <2>3, <2>4
<1>8. leaked \subseteq leaked'
  BY <1>2
<1> QED
  BY <1>3, <1>4, <1>7, <1>8 DEF Moves

\* write(2) fails, or the port is closed.
LEMMA ErrorMoves ==
    ASSUME LockInv, NEW t \in Threads, FlushFails(t) \/ ClosedError(t)
    PROVE  /\ call[t] # <<>> /\ Top(t).op \in LockOps /\ Fail(t) /\ Moves(t)
           /\ FlushFails(t) => Top(t).p \in OPorts /\ Top(t).at \in {"force", "flush"}
           /\ ClosedError(t) => Top(t).at = Top(t).op
<1>1. /\ call[t] # <<>> /\ Fail(t)
      /\ FlushFails(t) => Top(t).at \in {"force", "flush"}
      /\ ClosedError(t) => Top(t).at \in {"put", "putc", "flush-port"} \cup Reads
      /\ UNCHANGED <<held, dead, link, slots, made, puts>>
  BY DEF FlushFails, ClosedError, tableVars, At
<1>2. Fit(Top(t)) /\ Stage(Top(t)) /\ PortFit(Top(t))
  BY <1>1, TopFacts DEF Fit
<1>3. FlushFails(t) => Top(t).op \in LockOps /\ Top(t).p \in OPorts
  BY <1>1, <1>2, Stages DEF LockOps, PortFit
<1>4. ClosedError(t) => Top(t).at = Top(t).op /\ Top(t).op \in LockOps
  BY <1>1, <1>2, Stages DEF LockOps
<1>5. StreamTypes'
  <2>1. CASE ClosedError(t)
    <3>1. UNCHANGED <<buf, device, entered>>
      BY <2>1 DEF ClosedError, streamVars
    <3> QED
      BY <3>1, SameStreams DEF LockInv
  <2>2. CASE FlushFails(t)
    <3> DEFINE p == Top(t).p
    <3>1. /\ StreamTypes /\ buf[p] \in Seq(Tags) /\ device[p] \in Seq(Tags) /\ Len(buf[p]) \in Nat
          /\ device \in [OPorts -> Seq(Tags)] /\ p \in OPorts
      BY <1>3, <2>2, Parts DEF LockInv, StreamTypes
    <3>2. PICK k \in 0..(Len(buf[p]) - 1) : device' = [device EXCEPT ![p] = @ \o SubSeq(buf[p], 1, k)]
      BY <2>2 DEF FlushFails, WriteFails
    <3>3. k \in 0..Len(buf[p])
      BY <3>1
    <3>4. device[p] \o SubSeq(buf[p], 1, k) \in Seq(Tags)
      BY <3>1, <3>3, Parts
    <3>5. device' \in [OPorts -> Seq(Tags)]
      BY <3>1, <3>2, <3>4
    <3>6. UNCHANGED <<buf, entered>>
      BY <2>2 DEF FlushFails
    <3> QED
      BY <3>1, <3>5, <3>6 DEF StreamTypes
  <2> QED
    BY <2>1, <2>2
<1>6. Top(t).op \in LockOps
  BY <1>3, <1>4
<1>7. Moves(t)
  BY <1>1, <1>5, <1>6, FailMoves
<1> QED
  BY <1>1, <1>3, <1>4, <1>6, <1>7

\* The error in Scm_Peekb leaves the port locked, and leaked.
LEMMA PeekbErrorMoves ==
    ASSUME LockInv, NEW t \in Threads, PeekbClosedError(t)
    PROVE  Moves(t) /\ call[t] # <<>> /\ Top(t).op = "peekb"
<1>1. /\ UNCHANGED <<lock, held, dead, link, slots, made, puts, buf, device, entered>> /\ call[t] # <<>>
      /\ Top(t).at = "read" /\ Top(t).op = "peekb" /\ call' = [call EXCEPT ![t] = <<>>]
      /\ leaked' = IF Top(t).locked THEN leaked \cup {Top(t).p} ELSE leaked
  BY DEF PeekbClosedError, streamVars, tableVars, At
<1>2. StreamTypes' /\ PortTypes /\ Fit(Top(t)) /\ Len(call[t]) = 1
  BY <1>1, SameStreams, TopFacts DEF LockInv
<1>3. Top(t).p \in IPorts
  BY <1>1, <1>2 DEF Fit, PortFit, Reads
<1>4. /\ call' \in [Threads -> Seq(Frames)] /\ Stacks(t)' /\ t \notin dead
      /\ \A u \in Threads \ {t} : call'[u] = call[u]
      /\ \A p, h : Times(call'[t], h, p) = One(p \in h)
  BY <1>1, DropFrames
<1>5. PortTypes'
  BY <1>1, <1>2, <1>3 DEF PortTypes
<1>6. ASSUME NEW p \in AllPorts, p \notin leaked' PROVE Same(t, p)
  <2>1. ~Owns(call[t][1], p)
    BY <1>1, <1>6 DEF Owns, Top
  <2>2. Times(call[t], held[t], p) = One(p \in held[t])
    BY <1>2, <2>1 DEF Times, One
  <2> QED
    BY <1>1, <1>4, <2>2 DEF Same
<1>7. Moves(t)
  BY <1>1, <1>2, <1>4, <1>5, <1>6 DEF Moves
<1> QED
  BY <1>1, <1>7

-----------------------------------------------------------------------------
(* Steps that begin an operation.                                              *)

\* A frame that has just been made.
Fresh(f, op, p, a) ==
    /\ f \in Frames /\ f.op = op /\ f.p = p /\ f.at = a /\ f.locked = FALSE
    /\ \A s \in Slot : f.save[s] = NoPort

\* Frame makes one.
LEMMA NewFrame ==
    ASSUME LockInv, NEW op \in Operations, NEW p \in AllPorts \cup {NoPort}, NEW a \in Labels
    PROVE  Fresh(Frame(op, p, a), op, p, a)
<1>1. DOMAIN slots = Slot /\ "unlock" \in Labels
  BY LabelsHold DEF LockInv, PortTypes
<1> QED
  BY <1>1 DEF Fresh, Frame, Frames, Tags

\* flush_linked_port goes on with reading, or begins a flush on top of it.
Pushes(t, h, f) ==
    /\ call'[t] # <<>> /\ Len(call'[t]) = 2 /\ Top(t)' = h /\ call'[t][2] = f
    /\ h.op = "flush-port" /\ h.at = "lock" /\ h.locked = FALSE /\ h.p \in OPorts
    /\ \A s \in Slot : h.save[s] = NoPort
    /\ \A u \in Threads \ {t} : call'[u] = call[u]

\* In both cases no lock changes hands.
LEMMA LinkedStep ==
    ASSUME LockInv, NEW t \in Threads, FlushLinked(t)
    PROVE  /\ call[t] # <<>> /\ Top(t).op \in Reads /\ Len(call[t]) = 1 /\ Moves(t)
           /\ \/ Advances(t, "read")
              \/ \E h, f : Pushes(t, h, f) /\ Keeps(f, Top(t)) /\ f.at = "read"
<1> DEFINE g == Top(t)
           f == [g EXCEPT !.at = "read"]
           d == [call[t] EXCEPT ![1] = f]
           none == link[g.p] = NoPort \/ (At(t, "peekc") /\ HasUngotten(input[g.p]))
           h == Frame("flush-port", link[g.p], "lock")
<1>1. /\ call[t] # <<>> /\ g.at \in Reads /\ UNCHANGED <<lock, held, dead, leaked, link, slots, made, puts, buf, device, entered>>
      /\ call' = [call EXCEPT ![t] = (IF none THEN <<>> ELSE <<h>>) \o [@ EXCEPT ![1].at = "read"]]
  BY Zenon DEF FlushLinked, tableVars, streamVars, At
<1>2. Fit(g) /\ g \in Frames /\ Stage(g) /\ PortFit(g) /\ LockFit(g) /\ call[t] \in Seq(Frames) /\ PortTypes
  BY <1>1, TopFacts DEF Fit
<1>3. g.op \in Reads /\ g.p \in IPorts
  BY <1>1, <1>2, Stages DEF PortFit
<1>4. Len(call[t]) = 1
  BY <1>1, <1>3, TopFacts DEF Reads
<1>5. StreamTypes' /\ PortTypes' /\ t \notin dead /\ call \in [Threads -> Seq(Frames)]
  BY <1>1, SameStreams, SamePorts, TopFacts DEF LockInv
<1>6. Keeps(f, g) /\ f.at = "read" /\ f.q = g.q /\ f.n = g.n /\ f.next = g.next
  <2>1. "read" \in Labels
    BY LabelsHold
  <2> QED
    BY <1>2, <2>1 DEF Frames, Keeps
<1>7. call' = [call EXCEPT ![t] = (IF none THEN <<>> ELSE <<h>>) \o d]
  BY <1>1, <1>2, <1>4, <1>5 DEF Top
<1> HIDE DEF f, g, h, none
<1>8. Fit(f)
  <2>1. f.op = g.op /\ f.op \notin {"link", "unlink", "close"}
    BY <1>3, <1>6 DEF Keeps, Reads
  <2>2. Stage(f)
    BY <1>3, <1>6, <2>1 DEF Stage
  <2> QED
    BY <1>2, <1>6, <2>1, <2>2, FitKeeps
<1>9. d \in Seq(Frames) /\ Len(d) = 1 /\ d[1] = f
  <2>1. f \in Frames /\ 1 \in 1..Len(call[t])
    BY <1>4, <1>6 DEF Keeps
  <2> QED
    BY <1>2, <1>4, <2>1, ExceptSeq
<1>10. CASE none
  <2>1. Set(t, f)
    <3>1. <<>> \o d = d
      BY <1>9, ConcatEmptySeq
    <3> QED
      BY <1>7, <1>10, <3>1 DEF Set
  <2>2. Turns(t, f)
    BY <1>6, <1>8, <2>1 DEF Turns, g
  <2>3. f.op \notin {"link", "unlink"}
    BY <1>3, <1>6 DEF Keeps, Reads
  <2>4. Moves(t)
    BY <1>1, <1>5, <2>2, <2>3, GoesOn
  <2> QED
    BY <1>1, <1>3, <1>4, <1>6, <2>2, <2>4 DEF Advances, g
<1>11. CASE ~none
  <2> HIDE DEF d
  <2>1. link[g.p] \in OPorts
    BY <1>2, <1>3, <1>11 DEF PortTypes, none
  <2>2. /\ h \in Frames /\ h.op = "flush-port" /\ h.p \in OPorts /\ h.at = "lock" /\ h.locked = FALSE
        /\ \A s \in Slot : h.save[s] = NoPort
    <3>1. "flush-port" \in Operations /\ "lock" \in Labels /\ link[g.p] \in AllPorts \cup {NoPort}
      BY <2>1 DEF Operations, Labels, AllPorts
    <3>2. Fresh(h, "flush-port", link[g.p], "lock")
      BY <3>1, NewFrame DEF h
    <3> QED
      BY <2>1, <3>2 DEF Fresh
  <2>3. Fit(h)
    <3>1. Stage(h)
      BY <2>2 DEF Stage, LockOps
    <3> QED
      BY <2>2, <3>1 DEF Fit, PortFit, LockFit, Reads
  <2> DEFINE c == <<h>> \o d
  <2>4. c \in Seq(Frames) /\ Len(c) = 2 /\ c[1] = h /\ c[2] = f
    <3>1. <<h>> \in Seq(Frames) /\ Len(<<h>>) = 1 /\ <<h>>[1] = h
      BY <2>2
    <3>2. /\ c \in Seq(Frames) /\ Len(c) = Len(<<h>>) + Len(d)
          /\ \A i \in 1..(Len(<<h>>) + Len(d)) : c[i] = IF i <= Len(<<h>>) THEN <<h>>[i] ELSE d[i - Len(<<h>>)]
      BY <1>9, <3>1, ConcatProperties
    <3> QED
      BY <1>9, <3>1, <3>2
  <2>5. call'[t] = c /\ call' \in [Threads -> Seq(Frames)] /\ \A u \in Threads \ {t} : call'[u] = call[u]
    BY <1>5, <1>7, <1>11, <2>4
  <2> HIDE DEF c
  <2>6. c # <<>>
    BY <2>4, EmptySeq
  <2>7. Stacks(t)'
    <3>1. Top(t)' = h
      BY <2>4, <2>5 DEF Top
    <3>2. Stack(c)
      BY <1>6, <1>8, <2>2, <2>3, <2>4, <2>6 DEF Stack
    <3> QED
      BY <1>1, <1>5, <2>2, <2>5, <3>1, <3>2 DEF Stacks
  <2>8. ASSUME NEW p \in AllPorts PROVE Same(t, p)
    <3>1. ~Owns(h, p)
      BY <2>2 DEF Owns
    <3>2. Owns(f, p) <=> Owns(g, p)
      BY <1>1, <1>6 DEF Owns, Keeps, Reads
    <3>3. Times(c, held[t], p) = Times(call[t], held[t], p)
      BY <1>1, <1>4, <2>4, <2>6, <3>1, <3>2 DEF Times, One, g, Top
    <3> QED
      BY <1>1, <2>5, <3>3 DEF Same
  <2>9. Moves(t)
    BY <1>1, <1>5, <2>5, <2>7, <2>8, LockChange
  <2>10. Pushes(t, h, f)
    BY <2>2, <2>4, <2>5, <2>6 DEF Pushes, Top
  <2> QED
    BY <1>1, <1>3, <1>4, <1>6, <2>9, <2>10 DEF g
<1> QED
  BY <1>10, <1>11

\* The frame that a call begins with.
Begins(f, op, p) ==
    /\ Fit(f) /\ f.op = op /\ f.locked = FALSE /\ f.at \in {"lock", "open", "flush-all", "link-1"}
    /\ \A s \in Slot : f.save[s] = NoPort
    /\ op \in LockOps => f.p = p
    /\ f.at = "open" => f.p = p /\ p \notin made /\ ~Opening(p)

\* CallFrames makes only such.
LEMMA CallFrame ==
    ASSUME LockInv, NEW t \in Threads, NEW op, NEW p, <<op, p>> \in MayCall[t], NEW f \in CallFrames(op, p)
    PROVE  Begins(f, op, p)
<1>1. /\ op \in Operations /\ p \in AllPorts
      /\ op \in {"open", "put", "putc", "flush-port"} => p \in OPorts
      /\ op \in {"link", "getb", "getc", "peekb", "peekc", "getz"} => p \in IPorts
  <2>1. <<op, p>> \in Operations \X AllPorts
    BY PortsAssumption DEF PortsAssumption
  <2>2. LET c == <<op, p>>
        IN  /\ c[1] \in {"open", "put", "putc", "flush-port"} => c[2] \in OPorts
            /\ c[1] \in {"link", "getb", "getc", "peekb", "peekc", "getz"} => c[2] \in IPorts
    BY PortsAssumption, Zenon DEF PortsAssumption
  <2> QED
    BY <2>1, <2>2
<1>2. PortTypes
  BY DEF LockInv
<1>3. CASE op = "open"
  <2>1. f = Frame(op, p, "open") /\ p \notin made /\ ~Opening(p)
    <3>1. CallFrames(op, p) = IF p \in made \/ Opening(p) THEN {} ELSE {Frame(op, p, "open")}
      BY <1>3, Zenon DEF CallFrames
    <3> QED
      BY <3>1
  <2>2. "open" \in Labels /\ p \in AllPorts \cup {NoPort} /\ op \in Operations
    BY <1>1 DEF Labels
  <2>3. Fresh(f, op, p, "open")
    BY <2>1, <2>2, NewFrame
  <2>4. Stage(f)
    BY <1>3, <2>3 DEF Stage, Fresh
  <2>5. Fit(f)
    BY <1>1, <1>3, <2>3, <2>4 DEF Fresh, Fit, PortFit, LockFit, Reads
  <2> QED
    BY <1>3, <2>1, <2>3, <2>5 DEF Fresh, Begins, LockOps, Reads
<1>4. CASE op = "flush-all"
  <2>1. f = Frame(op, NoPort, "flush-all")
    <3>1. CallFrames(op, p) = {Frame(op, NoPort, "flush-all")}
      BY <1>4, Zenon DEF CallFrames
    <3> QED
      BY <3>1
  <2>2. "flush-all" \in Labels /\ NoPort \in AllPorts \cup {NoPort} /\ op \in Operations
    BY <1>1 DEF Labels
  <2>3. Fresh(f, op, NoPort, "flush-all")
    BY <2>1, <2>2, NewFrame
  <2>4. Stage(f)
    BY <1>4, <2>3 DEF Stage, Fresh
  <2>5. Fit(f)
    BY <1>4, <2>3, <2>4 DEF Fresh, Fit, PortFit, LockFit, Reads
  <2> QED
    BY <1>4, <2>3, <2>5 DEF Fresh, Begins, LockOps, Reads
<1>5. CASE op \in {"link", "unlink"}
  <2>1. PICK q : f = LinkFrame(op, p, q) /\ (p \in IPorts => q \in OPorts) /\ (p \notin IPorts => p \in OPorts /\ q \in IPorts)
    <3>1. CASE op = "link"
      <4>1. CallFrames(op, p) = {LinkFrame(op, p, o) : o \in OPorts \cap made}
        BY <3>1, Zenon DEF CallFrames
      <4> QED
        BY <1>1, <3>1, <4>1
    <3>2. CASE op = "unlink"
      <4>1. CallFrames(op, p) = IF link[p] = NoPort THEN {} ELSE {LinkFrame(op, p, link[p])}
        BY <3>2, Zenon DEF CallFrames
      <4>2. f = LinkFrame(op, p, link[p]) /\ link[p] # NoPort
        BY <4>1
      <4> QED
        BY <1>1, <1>2, <4>2 DEF PortTypes, AllPorts
    <3> QED
      BY <1>5, <3>1, <3>2
  <2> DEFINE i == IF p \in IPorts THEN p ELSE q
             o == IF p \in IPorts THEN q ELSE p
             h == Frame(op, i, "link-1")
  <2>2. i \in IPorts /\ o \in OPorts
    BY <2>1
  <2>3. f = [h EXCEPT !.q = o]
    BY <2>1 DEF LinkFrame
  <2> HIDE DEF i, o
  <2>4. "link-1" \in Labels /\ i \in AllPorts \cup {NoPort} /\ op \in Operations /\ o \in Tags
    BY <1>1, <2>2 DEF Labels, Tags, AllPorts
  <2>5. Fresh(h, op, i, "link-1")
    BY <2>4, NewFrame
  <2> HIDE DEF h
  <2>6. /\ f \in Frames /\ f.op = op /\ f.p = i /\ f.q = o /\ f.at = "link-1" /\ f.locked = FALSE
        /\ \A s \in Slot : f.save[s] = NoPort
    BY <2>3, <2>4, <2>5 DEF Fresh, Frames
  <2>7. Stage(f)
    BY <1>5, <2>6 DEF Stage
  <2>8. Fit(f)
    BY <1>5, <2>2, <2>6, <2>7 DEF Fit, PortFit, LockFit, Reads
  <2> QED
    BY <1>5, <2>6, <2>8 DEF Begins, LockOps, Reads
<1>6. CASE op \notin {"open", "flush-all", "link", "unlink"}
  <2>1. f = Frame(op, p, "lock") /\ p \in made
    <3>1. CallFrames(op, p) = IF p \in made THEN {Frame(op, p, "lock")} ELSE {}
      BY <1>6, Zenon DEF CallFrames
    <3> QED
      BY <3>1
  <2>2. "lock" \in Labels /\ p \in AllPorts \cup {NoPort} /\ op \in Operations
    BY <1>1 DEF Labels
  <2>3. Fresh(f, op, p, "lock")
    BY <2>1, <2>2, NewFrame
  <2>4. op \in LockOps
    BY <1>1, <1>6 DEF Operations, LockOps, Reads
  <2>5. Stage(f)
    BY <2>3, <2>4 DEF Stage, Fresh
  <2>6. Fit(f)
    BY <1>1, <1>6, <2>3, <2>5 DEF Fresh, Fit, PortFit, LockFit, Reads
  <2> QED
    BY <2>1, <2>3, <2>6 DEF Fresh, Begins
<1> QED
  BY <1>3, <1>4, <1>5, <1>6

\* A call takes no lock yet.
LEMMA CallStep ==
    ASSUME LockInv, NEW t \in Threads, NEW c \in MayCall[t], Call(t, c[1], c[2])
    PROVE  /\ call[t] = <<>> /\ Moves(t) /\ UNCHANGED <<lock, held, dead, leaked, slots, made>>
           /\ \E f : call'[t] # <<>> /\ Len(call'[t]) = 1 /\ Top(t)' = f /\ Begins(f, c[1], c[2])
           /\ \A u \in Threads \ {t} : call'[u] = call[u]
<1>1. /\ UNCHANGED <<lock, held, dead, leaked, link, slots, made, puts, buf, device, entered>> /\ call[t] = <<>>
      /\ t \notin dead /\ (c[1] = "lock!" => c[2] \notin held[t])
      /\ \E f \in CallFrames(c[1], c[2]) : call' = [call EXCEPT ![t] = <<f>>]
  BY Zenon DEF Call, streamVars, tableVars
<1>2. PICK f \in CallFrames(c[1], c[2]) : call' = [call EXCEPT ![t] = <<f>>]
  BY <1>1
<1>3. StreamTypes' /\ PortTypes' /\ call \in [Threads -> Seq(Frames)]
  BY <1>1, SameStreams, SamePorts DEF LockInv
<1>4. c = <<c[1], c[2]>>
  BY PortsAssumption DEF PortsAssumption
<1>5. Begins(f, c[1], c[2])
  <2>1. <<c[1], c[2]>> \in MayCall[t]
    BY <1>4
  <2> QED
    BY <1>2, <2>1, CallFrame
<1>6. <<f>> \in Seq(Frames) /\ Len(<<f>>) = 1 /\ <<f>>[1] = f /\ <<f>> # <<>>
  BY <1>5 DEF Begins, Fit
<1>7. call'[t] = <<f>> /\ call' \in [Threads -> Seq(Frames)] /\ \A u \in Threads \ {t} : call'[u] = call[u]
  BY <1>2, <1>3, <1>6
<1>8. Top(t)' = f
  BY <1>6, <1>7 DEF Top
<1>9. Stacks(t)'
  <2>1. Stack(<<f>>)
    BY <1>5, <1>6, ShortStacks DEF Begins
  <2>2. f.op = "lock!" => f.p \notin held[t]
    BY <1>1, <1>5 DEF Begins, LockOps
  <2> QED
    BY <1>1, <1>7, <1>8, <2>1, <2>2 DEF Stacks
<1>10. ASSUME NEW p \in AllPorts PROVE Same(t, p)
  <2>1. ~Owns(f, p)
    BY <1>5 DEF Begins, Owns
  <2>2. Times(<<f>>, held[t], p) = One(p \in held[t])
    BY <1>6, <2>1 DEF Times, One
  <2>3. Times(call[t], held[t], p) = One(p \in held[t])
    BY <1>1, EmptySeq DEF Times, One
  <2> QED
    BY <1>1, <1>7, <2>2, <2>3 DEF Same
<1>11. Moves(t)
  BY <1>1, <1>3, <1>7, <1>9, <1>10, LockChange
<1> QED
  BY <1>1, <1>2, <1>5, <1>6, <1>7, <1>8, <1>11

\* A terminated thread is no longer asked what it has locked.
LEMMA TerminateKeeps ==
    ASSUME LockInv, NEW t \in Threads, Terminate(t)
    PROVE  LockInv'
<1>1. /\ UNCHANGED <<lock, call, held, leaked, link, slots, made, puts, buf, device, entered>>
      /\ dead' = dead \cup {t} /\ call[t] = <<>>
  BY DEF Terminate, streamVars, tableVars
<1>2. PortTypes' /\ StreamTypes' /\ call' \in [Threads -> Seq(Frames)]
  BY <1>1, SameStreams DEF LockInv, PortTypes
<1>3. \A u \in Threads : Stacks(u)'
  BY <1>1 DEF LockInv, Stacks, Top
<1>4. \A p \in AllPorts : LockRight(p)'
  BY <1>1 DEF LockInv, LockRight
<1> QED
  BY <1>2, <1>3, <1>4 DEF LockInv

-----------------------------------------------------------------------------
(* The invariant of the locks.                                                 *)

\* A call, a step, or the end of a thread.
LEMMA NextMoves ==
    ASSUME LockInv, NEW t \in Threads, Step(t) \/ \E c \in MayCall[t] : Call(t, c[1], c[2])
    PROVE  Moves(t)
<1>1. CASE Lock(t) \/ Unlock(t)
  BY <1>1, LockMoves, UnlockMoves
<1>2. CASE Flush(t, TRUE) \/ Flush(t, FALSE)
  BY <1>2, FlushMoves
<1>3. CASE FlushFails(t) \/ ClosedError(t) \/ PeekbClosedError(t)
  BY <1>3, ErrorMoves, PeekbErrorMoves
<1>4. CASE Put(t) \/ Write(t) \/ Putc(t) \/ Store(t)
  BY <1>4, PutMoves, StoreMoves
<1>5. CASE FlushPort(t) \/ Close(t) \/ Closing(t) \/ Read(t)
  BY <1>5, CloseMoves
<1>6. CASE FlushRelease(t)
  BY <1>6, ReleaseMoves
<1>7. CASE FlushLinked(t)
  BY <1>7, LinkedStep
<1>8. CASE LinkPorts(t) \/ LinkPorts2(t) \/ LinkPorts3(t)
  BY <1>8, LinkMoves, LinkedMoves
<1>9. CASE LockHeld(t) \/ \E p \in AllPorts : UnlockHeld(t, p)
  BY <1>9, LockHeldMoves, UnlockHeldMoves
<1>10. CASE FlushAllScan(t)
  BY <1>10, ScanMoves
<1>11. CASE FlushAllRead(t) \/ FlushAllWrite(t) \/ FlushAllAdjust(t)
  BY <1>11, SweepMoves
<1>12. CASE FlushSetFlag(t) \/ Open(t) \/ FlushAllFails(t) \/ FlushAllRestore(t)
  BY <1>12, PopMoves
<1>13. CASE \E c \in MayCall[t] : Call(t, c[1], c[2])
  BY <1>13, CallStep
<1> QED
  BY <1>1, <1>2, <1>3, <1>4, <1>5, <1>6, <1>7, <1>8, <1>9, <1>10, <1>11, <1>12, <1>13, Zenon DEF Step

\* Nothing is locked in the beginning.
LEMMA LockInvInit == Init => LockInv
<1> SUFFICES ASSUME Init PROVE LockInv
  OBVIOUS
<1>1. /\ call = [t \in Threads |-> <<>>] /\ held = [t \in Threads |-> {}] /\ dead = {} /\ leaked = {}
      /\ lock = [p \in AllPorts |-> [owner |-> NoThread, count |-> 0]]
      /\ link = [p \in AllPorts |-> NoPort] /\ slots = InitialSlots /\ puts = 0
      /\ made = IPorts \cup ({slots[s] : s \in DOMAIN slots} \ {NoPort})
      /\ buf = [p \in OPorts |-> <<>>] /\ device = [p \in OPorts |-> <<>>] /\ entered = [p \in OPorts |-> <<>>]
  BY DEF Init
<1>2. StreamTypes /\ call \in [Threads -> Seq(Frames)]
  BY <1>1, EmptySeq DEF StreamTypes
<1>3. slots \in [Slot -> OPorts \cup {NoPort}]
  <2>1. InitialSlots \in Seq(OPorts \cup {NoPort})
    BY PortsAssumption DEF PortsAssumption
  <2> QED
    BY <1>1, <2>1, LenProperties DEF Slot
<1>4. PortTypes
  <2>1. made \subseteq AllPorts
    BY <1>1, <1>3 DEF AllPorts
  <2>2. slots \in [Slot -> OPorts \cup {NoPort, Taken}]
    BY <1>3
  <2>3. lock \in [AllPorts -> [owner : Threads \cup {NoThread}, count : Nat]]
    BY <1>1
  <2>4. held \in [Threads -> SUBSET AllPorts] /\ puts \in Nat /\ leaked \subseteq IPorts /\ dead \subseteq Threads
    BY <1>1
  <2>5. /\ link \in [AllPorts -> AllPorts \cup {NoPort}]
        /\ \A i \in IPorts : link[i] \in OPorts \cup {NoPort}
        /\ \A o \in OPorts : link[o] \in IPorts \cup {NoPort}
    BY <1>1 DEF AllPorts
  <2> QED
    BY <2>1, <2>2, <2>3, <2>4, <2>5 DEF PortTypes
<1>5. \A t \in Threads : Stacks(t)
  BY <1>1, ShortStacks DEF Stacks
<1>6. ASSUME NEW p \in AllPorts PROVE LockRight(p)
  <2>1. lock[p].owner = NoThread /\ lock[p].count = 0
    BY <1>1
  <2>2. \A t \in Threads : Times(call[t], held[t], p) = 0 /\ lock[p].owner # t
    BY <1>1, <2>1, EmptySeq, PortsAssumption DEF Times, One, PortsAssumption
  <2> QED
    BY <2>1, <2>2 DEF LockRight
<1> QED
  BY <1>2, <1>4, <1>5, <1>6 DEF LockInv

\* Every step keeps the locks right.
LEMMA LockInvStep == LockInv /\ [Next]_vars => LockInv'
<1> SUFFICES ASSUME LockInv, [Next]_vars PROVE LockInv'
  OBVIOUS
<1>1. ASSUME NEW t \in Threads, Step(t) \/ \E c \in MayCall[t] : Call(t, c[1], c[2]) PROVE LockInv'
  BY <1>1, NextMoves, MovesKeeps, PortsAssumption
<1>2. ASSUME NEW t \in Threads, Terminate(t) PROVE LockInv'
  BY <1>2, TerminateKeeps
<1>3. CASE UNCHANGED vars
  <2>1. UNCHANGED <<lock, call, held, leaked, link, slots, made, puts, buf, device, entered, dead>>
    BY <1>3 DEF vars
  <2>2. PortTypes' /\ StreamTypes' /\ call' \in [Threads -> Seq(Frames)]
    BY <2>1, SameStreams, SamePorts DEF LockInv
  <2>3. \A u \in Threads : Stacks(u)'
    BY <2>1 DEF LockInv, Stacks, Top
  <2>4. \A p \in AllPorts : LockRight(p)'
    BY <2>1 DEF LockInv, LockRight
  <2> QED
    BY <2>2, <2>3, <2>4 DEF LockInv
<1> QED
  BY <1>1, <1>2, <1>3 DEF Next

\* What LockInv says, the count of LocksOf says.
LEMMA CountOne ==
    ASSUME NEW S, S \subseteq {1, 2}
    PROVE  Cardinality(S) = One(1 \in S) + One(2 \in S)
<1>1. S \in {{}, {1}, {2}, {1, 2}}
  OBVIOUS
<1>2. Cardinality({}) = 0 /\ \A x : Cardinality({x}) = 1 /\ IsFiniteSet({x})
  BY FS_EmptySet, FS_Singleton
<1>3. Cardinality({1, 2}) = 2
  <2>1. {1, 2} = {1} \cup {2} /\ 2 \notin {1}
    OBVIOUS
  <2>2. IsFiniteSet({1}) /\ Cardinality({1}) = 1
    BY <1>2
  <2>3. Cardinality({1} \cup {2}) = Cardinality({1}) + 1
    BY <2>1, <2>2, FS_AddElement
  <2> QED
    BY <2>1, <2>2, <2>3
<1>4. CASE S = {}
  <2>1. 1 \notin S /\ 2 \notin S /\ Cardinality(S) = 0
    BY <1>2, <1>4
  <2> QED
    BY <2>1 DEF One
<1>5. CASE S = {1}
  <2>1. 1 \in S /\ 2 \notin S /\ Cardinality(S) = 1
    BY <1>2, <1>5
  <2> QED
    BY <2>1 DEF One
<1>6. CASE S = {2}
  <2>1. 1 \notin {2} /\ Cardinality({2}) = 1
    BY <1>2
  <2>2. 1 \notin S /\ 2 \in S /\ Cardinality(S) = 1
    BY <1>6, <2>1
  <2> QED
    BY <2>2 DEF One
<1>7. CASE S = {1, 2}
  <2>1. 1 \in S /\ 2 \in S /\ Cardinality(S) = 2
    BY <1>3, <1>7
  <2> QED
    BY <2>1 DEF One
<1> QED
  BY <1>1, <1>4, <1>5, <1>6, <1>7

\* LocksOf is Times.
LEMMA LocksOfTimes ==
    ASSUME LockInv, NEW t \in Threads, NEW p
    PROVE  LocksOf(t, p) = Times(call[t], held[t], p)
<1> DEFINE n == Len(call[t])
           A == {k \in 1..n : call[t][k].locked /\ call[t][k].p = p}
           B == {k \in 1..n : \/ call[t][k].at = "link-2" /\ call[t][k].p = p
                              \/ call[t][k].at = "link-3" /\ p \in {call[t][k].p, call[t][k].q}}
<1>1. call[t] \in Seq(Frames) /\ Stack(call[t]) /\ n \in Nat /\ (call[t] = <<>> <=> n = 0)
  <2>1. call[t] \in Seq(Frames) /\ Stack(call[t])
    BY DEF LockInv, Stacks
  <2> QED
    BY <2>1, EmptySeq, LenProperties
<1>2. n \in {0, 1, 2}
  <2>1. \A m \in Nat : m <= 2 => m \in {0, 1, 2}
    OBVIOUS
  <2> QED
    BY <1>1, <2>1 DEF Stack
<1>3. 1..n \subseteq {1, 2} /\ (1 \in 1..n <=> n # 0) /\ (2 \in 1..n <=> n = 2)
  <2>1. 1..0 = {} /\ 1..1 = {1} /\ 1..2 = {1, 2}
    OBVIOUS
  <2>2. CASE n = 0
    BY <2>1, <2>2
  <2>3. CASE n = 1
    BY <2>1, <2>3
  <2>4. CASE n = 2
    BY <2>1, <2>4
  <2> QED
    BY <1>2, <2>2, <2>3, <2>4
<1>4. LocksOf(t, p) = Cardinality(A) + Cardinality(B) + One(p \in held[t])
  BY Zenon DEF LocksOf, One
<1>5. A \subseteq {1, 2} /\ B \subseteq {1, 2}
  BY <1>3
<1>6. /\ 1 \in A <=> call[t] # <<>> /\ call[t][1].locked /\ call[t][1].p = p
      /\ 2 \in A <=> n = 2 /\ call[t][2].locked /\ call[t][2].p = p
      /\ 1 \in B <=> call[t] # <<>> /\ \/ call[t][1].at = "link-2" /\ call[t][1].p = p
                                       \/ call[t][1].at = "link-3" /\ p \in {call[t][1].p, call[t][1].q}
      /\ 2 \in B <=> n = 2 /\ \/ call[t][2].at = "link-2" /\ call[t][2].p = p
                              \/ call[t][2].at = "link-3" /\ p \in {call[t][2].p, call[t][2].q}
  BY <1>1, <1>3
<1> HIDE DEF A, B, n
<1>7. \A f : Fit(f) => ~(f.locked /\ f.at \in {"link-2", "link-3"})
  BY Stages DEF Fit, LockFit, LockOps, Reads
<1>8. /\ call[t] # <<>> => Fit(call[t][1])
      /\ n = 2 => Fit(call[t][2])
  BY <1>1 DEF Stack, n
<1>9. One(1 \in A) + One(1 \in B) = One(call[t] # <<>> /\ Owns(call[t][1], p))
  BY <1>6, <1>7, <1>8 DEF One, Owns
<1>10. One(2 \in A) + One(2 \in B) = One(n = 2 /\ Owns(call[t][2], p))
  BY <1>6, <1>7, <1>8 DEF One, Owns
<1>11. Cardinality(A) = One(1 \in A) + One(2 \in A) /\ Cardinality(B) = One(1 \in B) + One(2 \in B)
  BY <1>5, CountOne
<1>12. \A b : One(b) \in Nat
  BY DEF One
<1>13. Cardinality(A) + Cardinality(B) = One(call[t] # <<>> /\ Owns(call[t][1], p)) + One(n = 2 /\ Owns(call[t][2], p))
  BY <1>9, <1>10, <1>11, <1>12
<1> QED
  BY <1>4, <1>13 DEF Times, n

\* In every reachable state the operations in progress are of the forms the code
\* has, and what they have locked is what the locks of the ports count.
THEOREM LockInvariance == Spec => []LockInv
<1>1. Init => LockInv
  BY LockInvInit
<1>2. LockInv /\ [Next]_vars => LockInv'
  BY LockInvStep
<1> QED
  BY <1>1, <1>2, PTL DEF Spec

\* A port is locked exactly as often as the operations of its owner that are in
\* progress have locked it, with-port-locking included: nobody works on a port that
\* somebody else has locked, and every way out of an operation, errors included,
\* releases what it took, except for the input ports that an error in flushing the
\* linked port, or in peek-byte, leaves locked.
THEOREM LocksAreExact == Spec => []LockExact
<1>1. LockInv => LockExact
  <2> SUFFICES ASSUME LockInv, NEW p \in AllPorts \ leaked, NEW t \in Threads \ dead
               PROVE  LocksOf(t, p) = IF lock[p].owner = t THEN lock[p].count ELSE 0
    BY DEF LockExact, LockIsExact
  <2>1. LockRight(p)
    BY DEF LockInv
  <2> QED
    BY <2>1, LocksOfTimes DEF LockRight
<1> QED
  BY <1>1, LockInvariance, PTL

-----------------------------------------------------------------------------
(* Which operation a thread is in.                                             *)

\* A thread that neither opens a port nor goes through the table.
Calm(t) == call[t] = <<>> \/ Top(t).op \notin {"open", "flush-all"}

\* The frame on top after a step that replaces it.
LEMMA TurnsTop ==
    ASSUME LockInv, NEW t \in Threads, call[t] # <<>>, NEW f, Turns(t, f), UNCHANGED <<held, dead>>
    PROVE  call'[t] # <<>> /\ Top(t)' = f /\ \A u \in Threads \ {t} : call'[u] = call[u]
  BY SetFrame DEF Turns, Keeps

\* The same when only the label changes.
LEMMA AdvancesTop ==
    ASSUME LockInv, NEW t \in Threads, call[t] # <<>>, NEW a, Advances(t, a), UNCHANGED <<held, dead>>
    PROVE  /\ call'[t] # <<>> /\ Top(t)'.at = a /\ Top(t)'.op = Top(t).op /\ Top(t)'.p = Top(t).p
           /\ Top(t)'.locked = Top(t).locked /\ Top(t)'.save = Top(t).save /\ Top(t)'.q = Top(t).q
           /\ Top(t)'.n = Top(t).n /\ Top(t)'.next = Top(t).next
           /\ \A u \in Threads \ {t} : call'[u] = call[u]
<1>1. PICK f : Turns(t, f) /\ f.at = a /\ f.q = Top(t).q /\ f.n = Top(t).n /\ f.next = Top(t).next
  BY DEF Advances
<1>2. call'[t] # <<>> /\ Top(t)' = f /\ \A u \in Threads \ {t} : call'[u] = call[u]
  BY <1>1, TurnsTop
<1> QED
  BY <1>1, <1>2 DEF Turns, Keeps

\* After a return there is no operation, or the reading operation below.
LEMMA PopTop ==
    ASSUME LockInv, NEW t \in Threads, call[t] # <<>>, call' = [call EXCEPT ![t] = Tail(@)], dead' = dead
    PROVE  /\ call'[t] = <<>> \/ (call'[t] # <<>> /\ Top(t).op = "flush-port" /\ Top(t)'.at = "read"
                                  /\ Top(t)'.op \in Reads /\ Top(t)'.p \in IPorts)
           /\ \A u \in Threads \ {t} : call'[u] = call[u]
<1>1. Len(call[t]) \in {1, 2} /\ Stack(call[t])
  BY TopFacts DEF Stacks
<1>2. /\ Len(call[t]) = 1 => call'[t] = <<>>
      /\ Len(call[t]) = 2 => Len(call'[t]) = 1 /\ call'[t] # <<>> /\ Top(t)' = call[t][2]
      /\ \A u \in Threads \ {t} : call'[u] = call[u]
  BY PopFrame
<1>3. CASE Len(call[t]) = 1
  BY <1>2, <1>3
<1>4. CASE Len(call[t]) = 2
  <2>1. Fit(call[t][2]) /\ call[t][2].at = "read" /\ Top(t).op = "flush-port"
    BY <1>1, <1>4 DEF Stack, Top
  <2>2. call[t][2].op \in Reads
    BY <2>1, Stages DEF Fit
  <2>3. call[t][2].p \in IPorts
    BY <2>1, <2>2 DEF Fit, PortFit
  <2> QED
    BY <1>2, <1>4, <2>1, <2>2, <2>3
<1> QED
  BY <1>1, <1>3, <1>4

\* The operations in LockOps, and the links.
CalmOps == LockOps \cup {"link", "unlink"}

\* These operations are calm.
LEMMA CalmOp ==
    ASSUME NEW t, Top(t).op \in CalmOps
    PROVE  Calm(t)
  BY DEF Calm, CalmOps, LockOps, Reads

\* The steps of these operations, except the one that closes a port.
CalmStep(t) ==
    \/ Lock(t) \/ Unlock(t) \/ Flush(t, TRUE) \/ Flush(t, FALSE) \/ FlushFails(t)
    \/ ClosedError(t) \/ PeekbClosedError(t) \/ Put(t) \/ Write(t) \/ Putc(t) \/ Store(t)
    \/ FlushPort(t) \/ FlushRelease(t) \/ FlushSetFlag(t) \/ Close(t) \/ FlushLinked(t) \/ Read(t)
    \/ LinkPorts(t) \/ LinkPorts2(t) \/ LinkPorts3(t) \/ LockHeld(t) \/ \E p \in AllPorts : UnlockHeld(t, p)

\* They leave the table alone.
LEMMA CalmUnchanged ==
    ASSUME NEW t, CalmStep(t)
    PROVE  UNCHANGED <<slots, made, closed, dropped, dead>>
<1>1. CASE Lock(t) \/ Unlock(t) \/ Flush(t, TRUE) \/ Flush(t, FALSE) \/ FlushFails(t) \/ ClosedError(t)
  BY <1>1 DEF Lock, Unlock, Flush, FlushFails, ClosedError, tableVars
<1>2. CASE PeekbClosedError(t) \/ Put(t) \/ Write(t) \/ Putc(t) \/ Store(t) \/ FlushPort(t)
  BY <1>2 DEF PeekbClosedError, Put, Write, Putc, Store, FlushPort, tableVars
<1>3. CASE FlushRelease(t) \/ FlushSetFlag(t) \/ Close(t) \/ FlushLinked(t) \/ Read(t) \/ LinkPorts(t)
  BY <1>3 DEF FlushRelease, FlushSetFlag, Close, FlushLinked, Read, LinkPorts, tableVars
<1>4. CASE LinkPorts2(t) \/ LinkPorts3(t) \/ LockHeld(t) \/ \E p \in AllPorts : UnlockHeld(t, p)
  BY <1>4 DEF LinkPorts2, LinkPorts3, LockHeld, UnlockHeld, tableVars
<1> QED
  BY <1>1, <1>2, <1>3, <1>4 DEF CalmStep

\* A calm operation is followed by itself, by the reading operation below, or by nothing.
LEMMA CalmTop ==
    ASSUME LockInv, NEW t \in Threads, CalmStep(t) \/ Closing(t)
    PROVE  Calm(t) /\ Calm(t)' /\ \A u \in Threads \ {t} : call'[u] = call[u]
<1>1. ASSUME call[t] # <<>>, Top(t).op \in CalmOps, NEW f, Turns(t, f), UNCHANGED <<held, dead>>
      PROVE  Calm(t) /\ Calm(t)' /\ \A u \in Threads \ {t} : call'[u] = call[u]
  <2>1. Top(t)' = f /\ f.op = Top(t).op /\ \A u \in Threads \ {t} : call'[u] = call[u]
    BY <1>1, TurnsTop DEF Turns, Keeps
  <2> QED
    BY <1>1, <2>1 DEF Calm, CalmOps, LockOps, Reads
<1>2. ASSUME call[t] # <<>>, Top(t).op \in CalmOps, NEW f, Set(t, f), Fit(f), f.op = Top(t).op, f.p = Top(t).p,
             UNCHANGED <<held, dead>>
      PROVE  Calm(t) /\ Calm(t)' /\ \A u \in Threads \ {t} : call'[u] = call[u]
  <2>1. Top(t)' = f /\ \A u \in Threads \ {t} : call'[u] = call[u]
    BY <1>2, SetFrame
  <2> QED
    BY <1>2, <2>1 DEF Calm, CalmOps, LockOps, Reads
<1>3. ASSUME call[t] # <<>>, Top(t).op \in CalmOps, call' = [call EXCEPT ![t] = Tail(@)], dead' = dead
      PROVE  Calm(t) /\ Calm(t)' /\ \A u \in Threads \ {t} : call'[u] = call[u]
  <2>1. /\ call'[t] = <<>> \/ Top(t)'.op \in Reads
        /\ \A u \in Threads \ {t} : call'[u] = call[u]
    BY <1>3, PopTop
  <2> QED
    BY <1>3, <2>1 DEF Calm, CalmOps, LockOps, Reads
<1>4. ASSUME call[t] # <<>>, Top(t).op \in CalmOps, call' = [call EXCEPT ![t] = <<>>]
      PROVE  Calm(t) /\ Calm(t)' /\ \A u \in Threads \ {t} : call'[u] = call[u]
  <2>1. call'[t] = <<>> /\ \A u \in Threads \ {t} : call'[u] = call[u]
    BY <1>4 DEF LockInv
  <2> QED
    BY <1>4, <2>1 DEF Calm, CalmOps, LockOps, Reads
<1>5. CASE Lock(t)
  <2>1. UNCHANGED <<held, dead>> /\ call[t] # <<>>
    BY <1>5 DEF Lock, At
  <2>2. CASE lock[Top(t).p].owner = t /\ Top(t).op \notin {"close", "lock!"}
    <3>1. lock' = lock
      BY <1>5, <2>2 DEF Lock
    <3>2. Top(t).op \in CalmOps /\ \E f : Turns(t, f)
      BY <1>5, <2>2, <3>1, ShortcutStep DEF Advances, CalmOps
    <3> QED
      BY <1>1, <2>1, <3>2
  <2>3. CASE ~(lock[Top(t).p].owner = t /\ Top(t).op \notin {"close", "lock!"})
    <3>1. Top(t).op \in CalmOps /\ \E f : Set(t, f) /\ Fit(f) /\ f.op = Top(t).op /\ f.p = Top(t).p
      BY <1>5, <2>3, LockStep DEF CalmOps
    <3> QED
      BY <1>2, <2>1, <3>1
  <2> QED
    BY <2>2, <2>3
<1>6. CASE Flush(t, TRUE) \/ Flush(t, FALSE)
  <2>1. UNCHANGED <<held, dead>> /\ call[t] # <<>>
    BY <1>6 DEF Flush, At
  <2>2. Top(t).op \in CalmOps /\ \E f : Turns(t, f)
    BY <1>6, FlushStep DEF Advances, CalmOps
  <2> QED
    BY <1>1, <2>1, <2>2
<1>7. CASE FlushFails(t) \/ ClosedError(t)
  <2>1. call[t] # <<>> /\ Top(t).op \in CalmOps /\ call' = [call EXCEPT ![t] = <<>>]
    BY <1>7, ErrorMoves DEF Fail, CalmOps
  <2> QED
    BY <1>4, <2>1
<1>8. CASE PeekbClosedError(t)
  <2>1. call[t] # <<>> /\ Top(t).op \in CalmOps /\ call' = [call EXCEPT ![t] = <<>>]
    BY <1>8, PeekbErrorMoves DEF PeekbClosedError, CalmOps, LockOps, Reads
  <2> QED
    BY <1>4, <2>1
<1>9. CASE Put(t) \/ Write(t) \/ Putc(t) \/ Store(t)
  <2>1. UNCHANGED <<held, dead>> /\ call[t] # <<>>
    BY <1>9 DEF Put, Write, Putc, Store, At
  <2>2. Top(t).op \in {"put", "putc"} /\ \E f : Turns(t, f)
    BY <1>9, PutStep, WriteStep, PutcStep, StoreStep
  <2> QED
    BY <1>1, <2>1, <2>2 DEF CalmOps, LockOps
<1>10. CASE FlushPort(t) \/ Close(t) \/ Closing(t) \/ Read(t)
  <2>1. UNCHANGED <<held, dead>> /\ call[t] # <<>>
    BY <1>10 DEF FlushPort, Close, Closing, Read, At
  <2>2. Top(t).op \in CalmOps /\ \E f : Turns(t, f)
    BY <1>10, FlushPortStep, CloseStep, ClosingStep, ReadStep DEF Advances, CalmOps, LockOps
  <2> QED
    BY <1>1, <2>1, <2>2
<1>11. CASE FlushRelease(t)
  <2>1. UNCHANGED <<held, dead>> /\ call[t] # <<>>
    BY <1>11 DEF FlushRelease, At
  <2>2. Top(t).op \in CalmOps /\ \E f : Set(t, f) /\ Fit(f) /\ f.op = Top(t).op /\ f.p = Top(t).p
    BY <1>11, ReleaseStep DEF CalmOps, LockOps
  <2> QED
    BY <1>2, <2>1, <2>2
<1>12. CASE FlushSetFlag(t) \/ Unlock(t) \/ LinkPorts3(t) \/ LockHeld(t)
  <2>1. /\ call[t] # <<>> /\ call' = [call EXCEPT ![t] = Tail(@)] /\ dead' = dead
        /\ Top(t).at \in {"flushed", "unlock", "link-3", "lock!"}
    BY <1>12 DEF FlushSetFlag, Unlock, LinkPorts3, LockHeld, At
  <2>2. Top(t).op \in CalmOps
    BY <2>1, TopFacts, Stages DEF Fit, CalmOps, LockOps
  <2> QED
    BY <1>3, <2>1, <2>2
<1>13. CASE LinkPorts(t) \/ LinkPorts2(t)
  <2>1. UNCHANGED <<held, dead>> /\ call[t] # <<>>
    BY <1>13 DEF LinkPorts, LinkPorts2, At
  <2>2. Top(t).op \in CalmOps /\ \E f : Set(t, f) /\ Fit(f) /\ f.op = Top(t).op /\ f.p = Top(t).p
    BY <1>13, LinkStep DEF CalmOps
  <2> QED
    BY <1>2, <2>1, <2>2
<1>14. CASE FlushLinked(t)
  <2>1. UNCHANGED <<held, dead>> /\ call[t] # <<>> /\ Top(t).op \in CalmOps
    BY <1>14, LinkedStep DEF FlushLinked, CalmOps, LockOps
  <2>2. CASE Advances(t, "read")
    BY <1>1, <2>1, <2>2 DEF Advances
  <2>3. CASE \E h, f : Pushes(t, h, f)
    BY <2>1, <2>3 DEF Pushes, Calm, CalmOps, LockOps, Reads
  <2> QED
    BY <1>14, <2>2, <2>3, LinkedStep
<1>15. CASE \E p \in AllPorts : UnlockHeld(t, p)
  BY <1>15 DEF UnlockHeld, Calm
<1> QED
  BY <1>5, <1>6, <1>7, <1>8, <1>9, <1>10, <1>11, <1>12, <1>13, <1>14, <1>15 DEF CalmStep

-----------------------------------------------------------------------------
(* The table of buffered output ports.                                         *)

\* What t has taken out of slot s.
Saved(t, s) == IF call[t] = <<>> THEN NoPort ELSE Top(t).save[s]

Found(p) == (\E s \in Slot : slots[s] = p) \/ (\E t \in Threads, s \in Slot : Saved(t, s) = p)

Registered == \A p \in (made \cap OPorts) \ (closed \cup dropped) : Found(p)

\* A slot that is taken belongs to one flush-all-ports, and its port is nowhere else.
TakenInv ==
    \A t \in Threads, s \in Slot : Saved(t, s) # NoPort =>
        /\ slots[s] = Taken /\ Saved(t, s) \in made /\ Saved(t, s) \in OPorts
        /\ \A u \in Threads : Saved(u, s) # NoPort => u = t
        /\ \A u \in Threads, r \in Slot : Saved(u, r) = Saved(t, s) => u = t /\ r = s
        /\ \A r \in Slot : slots[r] # Saved(t, s)

\* A port is in one slot.
SlotsInv ==
    /\ \A r, s \in Slot : slots[r] = slots[s] /\ slots[r] \in OPorts => r = s
    /\ \A s \in Slot : slots[s] \in OPorts => slots[s] \in made

\* A port that is being opened is new.
OpenInv ==
    \A t \in Threads : At(t, "open") =>
        Top(t).p \notin made /\ \A u \in Threads : At(u, "open") /\ Top(u).p = Top(t).p => u = t

\* The port that flush-all-ports works on is the one it has taken last.
SweepInv ==
    \A t \in Threads : call[t] # <<>> /\ Top(t).at \in {"fa-read", "fa-write", "fa-adjust"} =>
        Top(t).n \in Slot /\ Top(t).save[Top(t).n] = Top(t).p

TableInv == Registered /\ TakenInv /\ SlotsInv /\ OpenInv /\ SweepInv

\* The frames of the other operations have taken no slot.
LEMMA QuietFrame ==
    ASSUME NEW f, Fit(f), f.op \notin {"open", "flush-all"}
    PROVE  /\ \A s \in Slot : f.save[s] = NoPort
           /\ f.at \notin {"open", "fa-read", "fa-write", "fa-adjust"}
<1>1. \A s \in Slot : f.save[s] = NoPort
  BY DEF Fit, LockFit
<1>2. f.at \notin {"open", "fa-read", "fa-write", "fa-adjust"}
  BY Stages DEF Fit
<1> QED
  BY <1>1, <1>2

\* The frame on top fits.
LEMMA TopFits ==
    ASSUME LockInv, NEW t \in Threads, call[t] # <<>>
    PROVE  Fit(Top(t))
  BY DEF LockInv, Stacks, Stack, Top

\* The same after a step.
LEMMA TopFitsAfter ==
    ASSUME LockInv', NEW t \in Threads, call'[t] # <<>>
    PROVE  Fit(Top(t)')
  BY DEF LockInv, Stacks, Stack, Top

\* Most operations take no slot, before and after a step.
LEMMA CalmSaves ==
    ASSUME LockInv, NEW t \in Threads, Calm(t)
    PROVE  /\ \A s \in Slot : Saved(t, s) = NoPort
           /\ call[t] # <<>> => Top(t).at \notin {"open", "fa-read", "fa-write", "fa-adjust"}
<1>1. CASE call[t] = <<>>
  BY <1>1 DEF Saved
<1>2. CASE call[t] # <<>>
  BY <1>2, TopFits, QuietFrame DEF Calm, Saved
<1> QED
  BY <1>1, <1>2

\* The same after a step.
LEMMA CalmSavesAfter ==
    ASSUME LockInv', NEW t \in Threads, Calm(t)'
    PROVE  /\ \A s \in Slot : Saved(t, s)' = NoPort
           /\ call'[t] # <<>> => Top(t)'.at \notin {"open", "fa-read", "fa-write", "fa-adjust"}
<1>1. CASE call'[t] = <<>>
  BY <1>1 DEF Saved
<1>2. CASE call'[t] # <<>>
  <2>1. Fit(Top(t)') /\ Top(t)'.op \notin {"open", "flush-all"}
    BY <1>2, TopFitsAfter DEF Calm
  <2> QED
    BY <1>2, <2>1, QuietFrame DEF Saved
<1> QED
  BY <1>1, <1>2

\* A step that takes and gives back no slot.
LEMMA TableStays ==
    ASSUME TableInv, NEW t \in Threads, UNCHANGED <<slots, made>>,
           closed \subseteq closed', dropped \subseteq dropped',
           \A u \in Threads \ {t} : call'[u] = call[u], \A s \in Slot : Saved(t, s)' = Saved(t, s),
           ~At(t, "open")',
           call'[t] # <<>> /\ Top(t)'.at \in {"fa-read", "fa-write", "fa-adjust"} =>
               Top(t)'.n \in Slot /\ Top(t)'.save[Top(t)'.n] = Top(t)'.p
    PROVE  TableInv'
<1>1. \A u \in Threads, s \in Slot : Saved(u, s)' = Saved(u, s)
  BY DEF Saved, Top
<1>2. Registered'
  BY <1>1 DEF TableInv, Registered, Found
<1>3. TakenInv'
  BY <1>1 DEF TableInv, TakenInv
<1>4. SlotsInv'
  BY DEF TableInv, SlotsInv
<1>5. OpenInv'
  <2>1. \A u \in Threads : At(u, "open")' => u # t /\ At(u, "open") /\ Top(u)' = Top(u)
    BY DEF At, Top
  <2> QED
    BY <2>1 DEF TableInv, OpenInv
<1>6. SweepInv'
  <2>1. \A u \in Threads : u # t => call'[u] = call[u] /\ Top(u)' = Top(u)
    BY DEF Top
  <2> QED
    BY <2>1 DEF TableInv, SweepInv
<1> QED
  BY <1>2, <1>3, <1>4, <1>5, <1>6 DEF TableInv

\* The steps of the other operations,
LEMMA TableCalm ==
    ASSUME LockInv, LockInv', TableInv, NEW t \in Threads, CalmStep(t)
    PROVE  TableInv'
<1>1. Calm(t) /\ Calm(t)' /\ \A u \in Threads \ {t} : call'[u] = call[u]
  BY CalmTop
<1>2. UNCHANGED <<slots, made, closed, dropped>>
  BY CalmUnchanged
<1>3. \A s \in Slot : Saved(t, s) = NoPort
  BY <1>1, CalmSaves
<1>4. /\ \A s \in Slot : Saved(t, s)' = NoPort
      /\ call'[t] # <<>> => Top(t)'.at \notin {"open", "fa-read", "fa-write", "fa-adjust"}
  BY <1>1, CalmSavesAfter
<1>5. ~At(t, "open")'
  BY <1>4 DEF At
<1> QED
  BY <1>1, <1>2, <1>3, <1>4, <1>5, TableStays

\* The other threads have what they had.
LEMMA OthersSaved ==
    ASSUME NEW t, \A u \in Threads \ {t} : call'[u] = call[u]
    PROVE  \A u \in Threads \ {t} :
               /\ \A s \in Slot : Saved(u, s)' = Saved(u, s)
               /\ Top(u)' = Top(u) /\ (At(u, "open")' <=> At(u, "open"))
  BY DEF Saved, Top, At

\* unregister_buffered_port takes a closed port out of its slot.
LEMMA TableClosing ==
    ASSUME LockInv, LockInv', TableInv, NEW t \in Threads, Closing(t)
    PROVE  TableInv'
<1> DEFINE p == Top(t).p
<1>1. Calm(t) /\ Calm(t)' /\ \A u \in Threads \ {t} : call'[u] = call[u]
  BY CalmTop
<1>2. \A s \in Slot : Saved(t, s) = NoPort /\ Saved(t, s)' = NoPort
  BY <1>1, CalmSaves, CalmSavesAfter
<1>3. call'[t] # <<>> => Top(t)'.at \notin {"open", "fa-read", "fa-write", "fa-adjust"}
  BY <1>1, CalmSavesAfter
<1>4. \A u \in Threads, s \in Slot : Saved(u, s)' = Saved(u, s)
  BY <1>1, <1>2, OthersSaved
<1>5. /\ made' = made /\ dropped' = dropped /\ closed' = closed \cup {p}
      /\ \A s \in Slot : slots'[s] = IF slots[s] = p THEN NoPort ELSE slots[s]
  BY DEF Closing, LockInv, PortTypes
<1>6. p \in AllPorts
  <2>1. call[t] # <<>> /\ Top(t).op = "close"
    BY ClosingStep DEF Closing, At
  <2> QED
    BY <2>1, TopFits DEF Fit, PortFit
<1> HIDE DEF p
<1>7. Registered'
  BY <1>4, <1>5 DEF TableInv, Registered, Found
<1>8. TakenInv'
  <2>1. \A s \in Slot : slots[s] = Taken => slots'[s] = Taken
    BY <1>5, <1>6, PortsAssumption
  <2>2. \A s \in Slot : slots'[s] \in {NoPort, slots[s]}
    BY <1>5
  <2> QED
    BY <1>4, <1>5, <2>1, <2>2, PortsAssumption DEF TableInv, TakenInv
<1>9. SlotsInv'
  <2>1. \A s \in Slot : slots'[s] \in OPorts => slots'[s] = slots[s]
    BY <1>5, PortsAssumption DEF AllPorts
  <2> QED
    BY <1>5, <2>1 DEF TableInv, SlotsInv
<1>10. OpenInv'
  <2>1. \A u \in Threads : At(u, "open")' => u # t /\ At(u, "open") /\ Top(u)' = Top(u)
    BY <1>1, <1>3, OthersSaved DEF At
  <2> QED
    BY <1>5, <2>1 DEF TableInv, OpenInv
<1>11. SweepInv'
  <2>1. \A u \in Threads \ {t} : call'[u] = call[u] /\ Top(u)' = Top(u)
    BY <1>1, OthersSaved
  <2> QED
    BY <1>3, <2>1 DEF TableInv, SweepInv
<1> QED
  BY <1>7, <1>8, <1>9, <1>10, <1>11 DEF TableInv

\* Opening, and going through the table, are not nested in anything.
LEMMA PopAlone ==
    ASSUME LockInv, NEW t \in Threads, call[t] # <<>>, Top(t).op # "flush-port",
           call' = [call EXCEPT ![t] = Tail(@)], dead' = dead
    PROVE  /\ call'[t] = <<>> /\ \A u \in Threads \ {t} : call'[u] = call[u]
           /\ \A s \in Slot : Saved(t, s)' = NoPort /\ Saved(t, s) = Top(t).save[s]
<1>1. call'[t] = <<>> /\ \A u \in Threads \ {t} : call'[u] = call[u]
  BY TopFacts, PopFrame
<1> QED
  BY <1>1 DEF Saved

\* register_buffered_port.
LEMMA TableOpen ==
    ASSUME LockInv, LockInv', TableInv, NEW t \in Threads, Open(t)
    PROVE  TableInv'
<1> DEFINE p == Top(t).p
<1>1. call[t] # <<>> /\ Top(t).at = "open" /\ Top(t).op = "open"
  BY TopFits, Stages DEF Open, At, Fit
<1>2. /\ call'[t] = <<>> /\ \A u \in Threads \ {t} : call'[u] = call[u]
      /\ \A s \in Slot : Saved(t, s)' = NoPort /\ Saved(t, s) = Top(t).save[s]
  BY <1>1, PopAlone DEF Open
<1>3. p \in OPorts /\ \A s \in Slot : Saved(t, s) = NoPort
  BY <1>1, <1>2, TopFits DEF Fit, PortFit, LockFit
<1>4. PICK s \in Slot : slots[s] = NoPort /\ slots' = [slots EXCEPT ![s] = p]
  BY DEF Open, LockInv, PortTypes
<1>5. slots'[s] = p /\ \A r \in Slot \ {s} : slots'[r] = slots[r]
  BY <1>4 DEF LockInv, PortTypes
<1>6. made' = made \cup {p} /\ UNCHANGED <<closed, dropped>>
  BY DEF Open
<1>7. p \notin made /\ \A u \in Threads : At(u, "open") /\ Top(u).p = p => u = t
  BY <1>1 DEF TableInv, OpenInv, At
<1>8. \A u \in Threads, r \in Slot : Saved(u, r)' = Saved(u, r)
  BY <1>2, <1>3, OthersSaved
<1> HIDE DEF p
<1>9. Registered'
  <2>1. \A x : Found(x) /\ x \in OPorts => Found(x)'
    BY <1>4, <1>5, <1>8, PortsAssumption DEF Found, AllPorts
  <2>2. \A x : x = p => Found(x)'
    BY <1>5 DEF Found
  <2> QED
    BY <1>6, <2>1, <2>2 DEF TableInv, Registered
<1>10. TakenInv'
  <2>1. \A r \in Slot : slots[r] = Taken => slots'[r] = Taken
    BY <1>4, <1>5, PortsAssumption
  <2>2. \A u \in Threads, r \in Slot : Saved(u, r) # NoPort => Saved(u, r) # p
    BY <1>7 DEF TableInv, TakenInv
  <2>3. \A r \in Slot : slots'[r] \in {p, slots[r]}
    BY <1>5
  <2> QED
    BY <1>6, <1>8, <2>1, <2>2, <2>3 DEF TableInv, TakenInv
<1>11. SlotsInv'
  <2>1. \A r \in Slot : slots[r] # p
    BY <1>3, <1>7 DEF TableInv, SlotsInv
  <2> QED
    BY <1>5, <1>6, <2>1 DEF TableInv, SlotsInv
<1>12. OpenInv'
  <2>1. \A u \in Threads : At(u, "open")' => u # t /\ At(u, "open") /\ Top(u)' = Top(u)
    BY <1>2, OthersSaved DEF At
  <2> QED
    BY <1>6, <1>7, <2>1 DEF TableInv, OpenInv
<1>13. SweepInv'
  <2>1. \A u \in Threads \ {t} : call'[u] = call[u] /\ Top(u)' = Top(u)
    BY <1>2, OthersSaved
  <2> QED
    BY <1>2, <2>1 DEF TableInv, SweepInv
<1> QED
  BY <1>9, <1>10, <1>11, <1>12, <1>13 DEF TableInv

\* The flusher, on the port that was taken last.
LEMMA TableSweep ==
    ASSUME LockInv, LockInv', TableInv, NEW t \in Threads, FlushAllRead(t) \/ FlushAllWrite(t) \/ FlushAllAdjust(t)
    PROVE  TableInv'
<1>1. call[t] # <<>> /\ Top(t).at \in {"fa-read", "fa-write", "fa-adjust"}
  BY DEF FlushAllRead, FlushAllWrite, FlushAllAdjust, At
<1>2. UNCHANGED <<slots, made, closed, dropped, held, dead>>
  BY DEF FlushAllRead, FlushAllWrite, FlushAllAdjust, tableVars
<1>3. PICK a \in {"flush-all", "fa-write", "fa-adjust"} : Advances(t, a)
  BY SweepStep
<1>4. /\ call'[t] # <<>> /\ Top(t)'.at = a /\ Top(t)'.save = Top(t).save
      /\ Top(t)'.p = Top(t).p /\ Top(t)'.n = Top(t).n
      /\ \A u \in Threads \ {t} : call'[u] = call[u]
  BY <1>1, <1>2, <1>3, AdvancesTop
<1>5. \A s \in Slot : Saved(t, s)' = Saved(t, s)
  BY <1>1, <1>4 DEF Saved
<1>6. Top(t).n \in Slot /\ Top(t).save[Top(t).n] = Top(t).p
  BY <1>1 DEF TableInv, SweepInv
<1>7. ~At(t, "open")'
  BY <1>3, <1>4 DEF At
<1> QED
  BY <1>2, <1>4, <1>5, <1>6, <1>7, TableStays

\* Scm_FlushAllPorts takes a slot, or is through with them.
LEMMA TableScan ==
    ASSUME LockInv, LockInv', TableInv, NEW t \in Threads, FlushAllScan(t)
    PROVE  TableInv'
<1>1. call[t] # <<>> /\ Top(t).at = "flush-all" /\ UNCHANGED <<made, closed, dropped, held, dead>>
  BY DEF FlushAllScan, At
<1>2. CASE Advances(t, "fa-restore") /\ slots' = slots
  <2>1. /\ call'[t] # <<>> /\ Top(t)'.at = "fa-restore" /\ Top(t)'.save = Top(t).save
        /\ \A u \in Threads \ {t} : call'[u] = call[u]
    BY <1>1, <1>2, AdvancesTop
  <2>2. \A s \in Slot : Saved(t, s)' = Saved(t, s)
    BY <1>1, <2>1 DEF Saved
  <2>3. ~At(t, "open")'
    BY <2>1 DEF At
  <2> QED
    BY <1>1, <1>2, <2>1, <2>2, <2>3, TableStays
<1>3. ASSUME NEW s \in Slot, slots[s] \in OPorts, slots' = TakeSlot(s), NEW f, Sweeps(t, s, f)
      PROVE  TableInv'
  <2>1. /\ call'[t] # <<>> /\ Top(t)' = f /\ \A u \in Threads \ {t} : call'[u] = call[u]
    <3>1. Set(t, f) /\ Fit(f) /\ f.op = Top(t).op /\ f.op # "lock!"
      BY <1>3, ScanStep DEF Sweeps
    <3> QED
      BY <1>1, <3>1, SetFrame
  <2>2. Top(t).save \in [Slot -> OPorts \cup {NoPort}]
    BY <1>1, TopFits DEF Fit, Frames
  <2>3. f.save[s] = slots[s] /\ \A r \in Slot \ {s} : f.save[r] = Top(t).save[r]
    BY <1>3, <2>2 DEF Sweeps
  <2>4. f.at = "fa-read" /\ f.p = slots[s] /\ f.n = s
    BY <1>3 DEF Sweeps
  <2>5. Saved(t, s)' = slots[s] /\ \A r \in Slot \ {s} : Saved(t, r)' = Saved(t, r)
    BY <1>1, <2>1, <2>3 DEF Saved
  <2>6. slots'[s] = Taken /\ \A r \in Slot \ {s} : slots'[r] = slots[r]
    BY <1>3 DEF TakeSlot, LockInv, PortTypes
  <2>7. \A u \in Threads \ {t}, r \in Slot : Saved(u, r)' = Saved(u, r)
    BY <2>1, OthersSaved
  <2>8. \A u \in Threads : Saved(u, s) = NoPort
    BY <1>3, PortsAssumption DEF TableInv, TakenInv, AllPorts
  <2>9. slots[s] \in made /\ slots[s] # NoPort /\ slots[s] # Taken
    BY <1>3, PortsAssumption DEF TableInv, SlotsInv, AllPorts
  <2>10. \A u \in Threads, r \in Slot : Saved(u, r) # slots[s]
    BY <2>9 DEF TableInv, TakenInv
  <2>11. Registered'
    <3>1. ASSUME NEW x \in OPorts, NEW r \in Slot, slots[r] = x
          PROVE  Found(x)'
      BY <2>5, <2>6, <3>1 DEF Found
    <3>2. ASSUME NEW x \in OPorts, NEW u \in Threads, NEW r \in Slot, Saved(u, r) = x
          PROVE  Found(x)'
      <4>1. r # s
        BY <2>8, <3>2, PortsAssumption DEF AllPorts
      <4>2. Saved(u, r)' = x
        BY <2>5, <2>7, <3>2, <4>1
      <4> QED
        BY <4>2 DEF Found
    <3>3. \A x \in OPorts : Found(x) => Found(x)'
      BY <3>1, <3>2 DEF Found
    <3> QED
      BY <1>1, <3>3 DEF TableInv, Registered
  <2>12. TakenInv'
    <3>1. \A u \in Threads, r \in Slot :
              Saved(u, r)' = IF u = t /\ r = s THEN slots[s] ELSE Saved(u, r)
      BY <2>5, <2>7
    <3>2. \A r \in Slot : slots'[r] # slots[s] /\ (slots[r] = Taken => slots'[r] = Taken)
      BY <1>3, <2>6, <2>9 DEF TableInv, SlotsInv
    <3>3. ASSUME NEW u \in Threads, NEW r \in Slot, Saved(u, r)' # NoPort, ~(u = t /\ r = s)
          PROVE  /\ slots'[r] = Taken /\ Saved(u, r)' \in made' /\ Saved(u, r)' \in OPorts
                 /\ \A v \in Threads : Saved(v, r)' # NoPort => v = u
                 /\ \A v \in Threads, x \in Slot : Saved(v, x)' = Saved(u, r)' => v = u /\ x = r
                 /\ \A x \in Slot : slots'[x] # Saved(u, r)'
      <4>1. Saved(u, r)' = Saved(u, r) /\ Saved(u, r) # slots[s] /\ r # s
        BY <2>8, <2>10, <3>1, <3>3
      <4>2. /\ slots[r] = Taken /\ Saved(u, r) \in made /\ Saved(u, r) \in OPorts
            /\ \A v \in Threads : Saved(v, r) # NoPort => v = u
            /\ \A v \in Threads, x \in Slot : Saved(v, x) = Saved(u, r) => v = u /\ x = r
            /\ \A x \in Slot : slots[x] # Saved(u, r)
        BY <3>3, <4>1 DEF TableInv, TakenInv
      <4>3. slots'[r] = Taken /\ Saved(u, r) \in made'
        BY <1>1, <3>2, <4>2
      <4>4. \A v \in Threads : Saved(v, r)' # NoPort => v = u
        BY <3>1, <4>1, <4>2
      <4>5. \A v \in Threads, x \in Slot : Saved(v, x)' = Saved(u, r) => v = u /\ x = r
        BY <3>1, <4>1, <4>2
      <4>6. \A x \in Slot : slots'[x] # Saved(u, r)
        BY <2>6, <4>2, PortsAssumption DEF AllPorts
      <4> QED
        BY <4>1, <4>2, <4>3, <4>4, <4>5, <4>6
    <3>4. /\ slots'[s] = Taken /\ Saved(t, s)' \in made' /\ Saved(t, s)' \in OPorts
          /\ \A v \in Threads : Saved(v, s)' # NoPort => v = t
          /\ \A v \in Threads, x \in Slot : Saved(v, x)' = Saved(t, s)' => v = t /\ x = s
          /\ \A x \in Slot : slots'[x] # Saved(t, s)'
      BY <1>1, <1>3, <2>6, <2>8, <2>9, <2>10, <3>1, <3>2
    <3> QED
      BY <3>3, <3>4 DEF TakenInv
  <2>13. SlotsInv'
    <3>1. \A r \in Slot : slots'[r] \in OPorts => slots'[r] = slots[r]
      BY <2>6, PortsAssumption DEF AllPorts
    <3> QED
      BY <1>1, <3>1 DEF TableInv, SlotsInv
  <2>14. OpenInv'
    <3>1. ~At(t, "open")'
      BY <2>1, <2>4 DEF At
    <3>2. \A u \in Threads : At(u, "open")' => u # t /\ At(u, "open") /\ Top(u)' = Top(u)
      BY <2>1, <3>1, OthersSaved
    <3> QED
      BY <1>1, <3>2 DEF TableInv, OpenInv
  <2>15. SweepInv'
    <3>1. \A u \in Threads \ {t} : call'[u] = call[u] /\ Top(u)' = Top(u)
      BY <2>1, OthersSaved
    <3>2. Top(t)'.n \in Slot /\ Top(t)'.save[Top(t)'.n] = Top(t)'.p
      BY <2>1, <2>3, <2>4
    <3> QED
      BY <3>1, <3>2 DEF TableInv, SweepInv
  <2> QED
    BY <2>11, <2>12, <2>13, <2>14, <2>15 DEF TableInv
<1> QED
  BY <1>2, <1>3, ScanStep

\* A flusher that fails: what has been taken is dropped.
LEMMA TableFails ==
    ASSUME LockInv, LockInv', TableInv, NEW t \in Threads, FlushAllFails(t)
    PROVE  TableInv'
<1>1. call[t] # <<>> /\ Top(t).op = "flush-all"
  BY PopMoves DEF FlushAllFails, At, Open, FlushSetFlag
<1>2. /\ call'[t] = <<>> /\ \A u \in Threads \ {t} : call'[u] = call[u]
      /\ \A s \in Slot : Saved(t, s)' = NoPort /\ Saved(t, s) = Top(t).save[s]
  BY <1>1, PopAlone DEF FlushAllFails
<1>3. /\ UNCHANGED <<slots, made, closed>>
      /\ dropped \subseteq dropped' /\ \A s \in Slot : Saved(t, s) # NoPort => Saved(t, s) \in dropped'
  BY <1>2 DEF FlushAllFails, LockInv, PortTypes
<1>4. \A u \in Threads \ {t}, s \in Slot : Saved(u, s)' = Saved(u, s)
  BY <1>2, OthersSaved
<1>5. Registered'
  BY <1>2, <1>3, <1>4, PortsAssumption DEF TableInv, Registered, Found, AllPorts
<1>6. TakenInv'
  <2>1. \A u \in Threads, s \in Slot : Saved(u, s)' # NoPort => u # t /\ Saved(u, s)' = Saved(u, s)
    BY <1>2, <1>4
  <2> QED
    BY <1>2, <1>3, <1>4, <2>1 DEF TableInv, TakenInv
<1>7. SlotsInv'
  BY <1>3 DEF TableInv, SlotsInv
<1>8. OpenInv'
  <2>1. \A u \in Threads : At(u, "open")' => u # t /\ At(u, "open") /\ Top(u)' = Top(u)
    BY <1>2, OthersSaved DEF At
  <2> QED
    BY <1>3, <2>1 DEF TableInv, OpenInv
<1>9. SweepInv'
  <2>1. \A u \in Threads \ {t} : call'[u] = call[u] /\ Top(u)' = Top(u)
    BY <1>2, OthersSaved
  <2> QED
    BY <1>2, <2>1 DEF TableInv, SweepInv
<1> QED
  BY <1>5, <1>6, <1>7, <1>8, <1>9 DEF TableInv

\* Scm_FlushAllPorts puts the ports back.
LEMMA TableRestore ==
    ASSUME LockInv, LockInv', TableInv, NEW t \in Threads, FlushAllRestore(t)
    PROVE  TableInv'
<1>1. call[t] # <<>> /\ Top(t).op = "flush-all"
  BY PopMoves DEF FlushAllRestore, At, Open, FlushSetFlag
<1>2. /\ call'[t] = <<>> /\ \A u \in Threads \ {t} : call'[u] = call[u]
      /\ \A s \in Slot : Saved(t, s)' = NoPort /\ Saved(t, s) = Top(t).save[s]
  BY <1>1, PopAlone DEF FlushAllRestore
<1>3. UNCHANGED <<made, closed, dropped>>
  BY DEF FlushAllRestore
<1>4. \A s \in Slot : slots'[s] = IF Saved(t, s) = NoPort THEN slots[s] ELSE Saved(t, s)
  BY <1>2 DEF FlushAllRestore, LockInv, PortTypes
<1>5. \A u \in Threads \ {t}, s \in Slot : Saved(u, s)' = Saved(u, s)
  BY <1>2, OthersSaved
<1>6. Registered'
  <2>1. \A x : Found(x) /\ x \in OPorts => Found(x)'
    <3>1. \A s \in Slot : slots[s] \in OPorts => slots'[s] = slots[s]
      BY <1>4, PortsAssumption DEF TableInv, TakenInv, AllPorts
    <3>2. \A s \in Slot : Saved(t, s) \in OPorts => slots'[s] = Saved(t, s)
      BY <1>4, PortsAssumption DEF AllPorts
    <3> QED
      BY <1>5, <3>1, <3>2 DEF Found
  <2> QED
    BY <1>3, <2>1 DEF TableInv, Registered
<1>7. TakenInv'
  <2>1. \A u \in Threads, s \in Slot : Saved(u, s)' # NoPort => u # t /\ Saved(u, s)' = Saved(u, s)
    BY <1>2, <1>5
  <2>2. ASSUME NEW u \in Threads, NEW s \in Slot, Saved(u, s)' # NoPort
        PROVE  slots'[s] = Taken /\ \A r \in Slot : slots'[r] # Saved(u, s)'
    <3>1. u # t /\ Saved(u, s)' = Saved(u, s) /\ Saved(u, s) # NoPort
      BY <2>1, <2>2
    <3>2. slots[s] = Taken /\ Saved(t, s) = NoPort
      BY <3>1 DEF TableInv, TakenInv
    <3>3. \A r \in Slot : slots[r] # Saved(u, s) /\ Saved(t, r) # Saved(u, s)
      BY <3>1 DEF TableInv, TakenInv
    <3> QED
      BY <1>4, <3>1, <3>2, <3>3
  <2>3. ASSUME NEW u \in Threads, NEW s \in Slot, Saved(u, s)' # NoPort
        PROVE  /\ Saved(u, s)' \in made' /\ Saved(u, s)' \in OPorts
               /\ \A v \in Threads : Saved(v, s)' # NoPort => v = u
               /\ \A v \in Threads, r \in Slot : Saved(v, r)' = Saved(u, s)' => v = u /\ r = s
    <3>1. Saved(u, s)' = Saved(u, s) /\ Saved(u, s) # NoPort
      BY <2>1, <2>3
    <3> QED
      BY <1>3, <2>1, <3>1 DEF TableInv, TakenInv
  <2> QED
    BY <2>2, <2>3 DEF TakenInv
<1>8. SlotsInv'
  <2>1. \A r, s \in Slot : slots'[r] = slots'[s] /\ slots'[r] \in OPorts => r = s
    BY <1>4 DEF TableInv, SlotsInv, TakenInv
  <2>2. \A s \in Slot : slots'[s] \in OPorts => slots'[s] \in made
    BY <1>4 DEF TableInv, SlotsInv, TakenInv
  <2> QED
    BY <1>3, <2>1, <2>2 DEF SlotsInv
<1>9. OpenInv'
  <2>1. \A u \in Threads : At(u, "open")' => u # t /\ At(u, "open") /\ Top(u)' = Top(u)
    BY <1>2, OthersSaved DEF At
  <2> QED
    BY <1>3, <2>1 DEF TableInv, OpenInv
<1>10. SweepInv'
  <2>1. \A u \in Threads \ {t} : call'[u] = call[u] /\ Top(u)' = Top(u)
    BY <1>2, OthersSaved
  <2> QED
    BY <1>2, <2>1 DEF TableInv, SweepInv
<1> QED
  BY <1>6, <1>7, <1>8, <1>9, <1>10 DEF TableInv

\* A call begins with nothing taken, and opens only a new port.
LEMMA TableCall ==
    ASSUME LockInv, TableInv, NEW t \in Threads, NEW c \in MayCall[t], Call(t, c[1], c[2])
    PROVE  TableInv'
<1>1. UNCHANGED <<slots, made, closed, dropped>> /\ call[t] = <<>>
  BY DEF Call, tableVars
<1>2. \A u \in Threads \ {t} : call'[u] = call[u]
  BY CallStep
<1>3. PICK f : call'[t] # <<>> /\ Top(t)' = f /\ Begins(f, c[1], c[2])
  BY CallStep
<1>4. /\ f.at \notin {"fa-read", "fa-write", "fa-adjust"} /\ \A s \in Slot : f.save[s] = NoPort
      /\ f.at = "open" => f.p \notin made /\ ~Opening(f.p)
  BY <1>3 DEF Begins
<1>5. \A u \in Threads, s \in Slot : Saved(u, s)' = Saved(u, s)
  <2>1. \A s \in Slot : Saved(t, s) = NoPort /\ Saved(t, s)' = NoPort
    BY <1>1, <1>3, <1>4 DEF Saved
  <2> QED
    BY <1>2, <2>1, OthersSaved
<1>6. Registered'
  BY <1>1, <1>5 DEF TableInv, Registered, Found
<1>7. TakenInv'
  BY <1>1, <1>5 DEF TableInv, TakenInv
<1>8. SlotsInv'
  BY <1>1 DEF TableInv, SlotsInv
<1>9. OpenInv'
  <2>1. \A u \in Threads \ {t} : At(u, "open")' => At(u, "open") /\ Top(u)' = Top(u)
    BY <1>2, OthersSaved
  <2>2. At(t, "open")' => f.at = "open" /\ Top(t)'.p = f.p
    BY <1>3 DEF At
  <2>3. At(t, "open")' => f.p \notin made /\ \A u \in Threads \ {t} : At(u, "open")' => Top(u)'.p # f.p
    BY <1>4, <2>1, <2>2 DEF Opening
  <2>4. \A u \in Threads \ {t} : At(u, "open")' =>
            Top(u)'.p \notin made /\ \A v \in Threads \ {t} : At(v, "open")' /\ Top(v)'.p = Top(u)'.p => v = u
    BY <2>1 DEF TableInv, OpenInv
  <2> QED
    BY <1>1, <2>2, <2>3, <2>4 DEF OpenInv
<1>10. SweepInv'
  <2>1. \A u \in Threads \ {t} : call'[u] = call[u] /\ Top(u)' = Top(u)
    BY <1>2, OthersSaved
  <2> QED
    BY <1>3, <1>4, <2>1 DEF TableInv, SweepInv
<1> QED
  BY <1>6, <1>7, <1>8, <1>9, <1>10 DEF TableInv

\* Steps that do not touch what TableInv is about.
LEMMA TableSame ==
    ASSUME TableInv, UNCHANGED <<slots, made, closed, dropped, call>>
    PROVE  TableInv'
<1>1. \A u \in Threads : /\ Top(u)' = Top(u) /\ (At(u, "open")' <=> At(u, "open"))
                         /\ \A s \in Slot : Saved(u, s)' = Saved(u, s)
  BY DEF Top, At, Saved
<1> QED
  BY <1>1 DEF TableInv, Registered, Found, TakenInv, SlotsInv, OpenInv, SweepInv

\* At the beginning the table has all ports there are.
LEMMA TableInit == Init => TableInv
<1> SUFFICES ASSUME Init PROVE TableInv
  OBVIOUS
<1>1. /\ \A t \in Threads : call[t] = <<>> /\ \A s \in Slot : Saved(t, s) = NoPort
      /\ slots = InitialSlots
      /\ \A s \in Slot : slots[s] # Taken
  BY PortsAssumption DEF Init, Saved, Slot, AllPorts
<1>2. \A p \in made \cap OPorts : \E s \in Slot : slots[s] = p
  BY <1>1, PortsAssumption DEF Init, Slot
<1>3. \A s \in Slot : slots[s] \in OPorts => slots[s] \in made
  BY <1>1, PortsAssumption DEF Init, Slot, AllPorts
<1>4. \A r, s \in Slot : slots[r] = slots[s] /\ slots[r] \in OPorts => r = s
  BY <1>1, PortsAssumption DEF Slot, AllPorts
<1>5. Registered
  BY <1>2 DEF Registered, Found
<1>6. TakenInv /\ OpenInv /\ SweepInv
  BY <1>1 DEF TakenInv, OpenInv, SweepInv, At
<1> QED
  BY <1>3, <1>4, <1>5, <1>6 DEF TableInv, SlotsInv

\* TableInv is kept by every step.
LEMMA TableStep == LockInv /\ LockInv' /\ TableInv /\ [Next]_vars => TableInv'
<1> SUFFICES ASSUME LockInv, LockInv', TableInv, [Next]_vars PROVE TableInv'
  OBVIOUS
<1>1. ASSUME NEW t \in Threads, Step(t)
      PROVE  TableInv'
  <2>1. CASE CalmStep(t)
    BY <2>1, TableCalm
  <2>2. CASE Closing(t)
    BY <2>2, TableClosing
  <2>3. CASE Open(t)
    BY <2>3, TableOpen
  <2>4. CASE FlushAllScan(t)
    BY <2>4, TableScan
  <2>5. CASE FlushAllRead(t) \/ FlushAllWrite(t) \/ FlushAllAdjust(t)
    BY <2>5, TableSweep
  <2>6. CASE FlushAllFails(t)
    BY <2>6, TableFails
  <2>7. CASE FlushAllRestore(t)
    BY <2>7, TableRestore
  <2> QED
    BY <1>1, <2>1, <2>2, <2>3, <2>4, <2>5, <2>6, <2>7 DEF Step, CalmStep
<1>2. ASSUME NEW t \in Threads, NEW c \in MayCall[t], Call(t, c[1], c[2])
      PROVE  TableInv'
  BY <1>2, TableCall
<1>3. ASSUME NEW t \in Threads, Terminate(t)
      PROVE  TableInv'
  BY <1>3, TableSame DEF Terminate, tableVars
<1>4. CASE UNCHANGED vars
  BY <1>4, TableSame DEF vars
<1> QED
  BY <1>1, <1>2, <1>3, <1>4 DEF Next

\* In every reachable state a slot of active_buffered_ports that flush-all-ports
\* has taken is its own, and a port is in one place only, in a slot or in the hands
\* of one flush-all-ports.
THEOREM TableInvariance == Spec => [](LockInv /\ TableInv)
<1>1. Init => LockInv /\ TableInv
  BY LockInvInit, TableInit
<1>2. (LockInv /\ TableInv) /\ [Next]_vars => (LockInv /\ TableInv)'
  <2>1. LockInv /\ [Next]_vars => LockInv'
    BY LockInvStep
  <2> QED
    BY <2>1, TableStep
<1> QED
  BY <1>1, <1>2, PTL DEF Spec

\* An open output port is in active_buffered_ports, or in the hands of a
\* flush-all-ports that will put it back, so it is flushed when the process exits:
\* however many threads open, close and flush-all-ports at the same time, unless a
\* failing flush-all-ports has dropped it.
THEOREM NothingForgotten == Spec => []NoPortForgotten
<1>1. LockInv /\ TableInv => NoPortForgotten
  <2> SUFFICES ASSUME LockInv, TableInv, NEW p \in (made \cap OPorts) \ (closed \cup dropped)
               PROVE  \/ \E s \in DOMAIN slots : slots[s] = p
                      \/ \E t \in Threads : \E k \in 1..Len(call[t]) :
                            \E s \in DOMAIN slots : call[t][k].save[s] = p
    BY DEF NoPortForgotten
  <2>1. DOMAIN slots = Slot /\ Found(p)
    BY DEF LockInv, PortTypes, TableInv, Registered
  <2>2. ASSUME NEW t \in Threads, NEW s \in Slot, Saved(t, s) = p
        PROVE  \E k \in 1..Len(call[t]) : call[t][k].save[s] = p
    <3>1. call[t] # <<>>
      BY <2>2, PortsAssumption DEF Saved, AllPorts
    <3>2. call[t][1].save[s] = p
      BY <2>2, <3>1 DEF Saved, Top
    <3>3. 1 \in 1..Len(call[t])
      BY <3>1, TopFacts
    <3> QED
      BY <3>2, <3>3
  <2> QED
    BY <2>1, <2>2 DEF Found
<1> QED
  BY <1>1, TableInvariance, PTL
-----------------------------------------------------------------------------
(* Who works on an output port.                                                *)

\* t is past the lock of p, which it has taken or had already.
Inside(t, p) == call[t] # <<>> /\ Top(t).op \in LockOps /\ Top(t).at \notin {"lock", "flushed"} /\ Top(t).p = p

\* t works on no output port.
Outside(t) == \A p \in OPorts : ~Inside(t, p)

HoldInv == \A t \in Threads, p \in OPorts : Inside(t, p) => Top(t).locked \/ p \in held[t]

\* Who is inside has the lock.
LEMMA InsideOwns ==
    ASSUME LockInv, HoldInv, NEW t \in Threads, NEW p \in OPorts, Inside(t, p)
    PROVE  lock[p].owner = t /\ t \notin dead
<1>1. call[t] # <<>> /\ t \notin dead /\ Top(t) = call[t][1] /\ Top(t).p = p
  BY TopFacts DEF Inside, Top
<1>2. p \notin leaked /\ p \in AllPorts
  BY PortsAssumption DEF LockInv, PortTypes, AllPorts
<1>3. Times(call[t], held[t], p) = IF lock[p].owner = t THEN lock[p].count ELSE 0
  BY <1>1, <1>2 DEF LockInv, LockRight
<1>4. (call[t] # <<>> /\ Owns(call[t][1], p)) \/ p \in held[t]
  BY <1>1 DEF HoldInv, Owns
<1>5. Times(call[t], held[t], p) # 0
  BY <1>4 DEF Times, One
<1> QED
  BY <1>1, <1>3, <1>5

\* So there is one thread inside.
LEMMA InsideAlone ==
    ASSUME LockInv, HoldInv, NEW t \in Threads, NEW u \in Threads, NEW p \in OPorts, Inside(t, p), Inside(u, p)
    PROVE  t = u
  BY InsideOwns

\* What the others are doing does not change.
LEMMA OthersInside ==
    ASSUME NEW t, \A u \in Threads \ {t} : call'[u] = call[u]
    PROVE  \A u \in Threads \ {t} : Top(u)' = Top(u) /\ \A p : Inside(u, p)' <=> Inside(u, p)
  BY DEF Inside, Top

\* The steps that go on with the work on an output port, or begin it.
WorkStep(t) ==
    \/ Lock(t) \/ Flush(t, TRUE) \/ Flush(t, FALSE) \/ Put(t) \/ Putc(t) \/ Write(t) \/ Store(t)
    \/ FlushPort(t) \/ Close(t) \/ Closing(t)

\* After the other steps of its own t is outside.
LeaveStep(t) ==
    \/ Unlock(t) \/ FlushFails(t) \/ ClosedError(t) \/ PeekbClosedError(t)
    \/ FlushRelease(t) \/ FlushSetFlag(t) \/ FlushLinked(t) \/ Read(t)
    \/ LinkPorts(t) \/ LinkPorts2(t) \/ LinkPorts3(t) \/ LockHeld(t) \/ (\E p \in AllPorts : UnlockHeld(t, p))
    \/ Open(t) \/ FlushAllScan(t) \/ FlushAllRead(t) \/ FlushAllWrite(t) \/ FlushAllAdjust(t)
    \/ FlushAllFails(t) \/ FlushAllRestore(t)

\* flush-all-ports is not inside anything.
LEMMA SweepOutside ==
    ASSUME NEW t, call[t] # <<>> => Top(t).op = "flush-all"
    PROVE  Outside(t)
  BY DEF Outside, Inside, LockOps, Reads

\* Where a step of flush-all-ports leads.
LEMMA SweepTop ==
    ASSUME LockInv, NEW t \in Threads,
           FlushAllScan(t) \/ FlushAllRead(t) \/ FlushAllWrite(t) \/ FlushAllAdjust(t)
    PROVE  /\ call[t] # <<>> /\ Top(t).op = "flush-all" /\ call'[t] # <<>> /\ Top(t)'.op = "flush-all"
           /\ \A u \in Threads \ {t} : call'[u] = call[u]
<1>1. CASE FlushAllScan(t)
  <2>1. call[t] # <<>> /\ Top(t).op = "flush-all" /\ UNCHANGED <<held, dead>>
    BY <1>1, ScanStep DEF FlushAllScan
  <2>2. CASE Advances(t, "fa-restore")
    <3>1. call'[t] # <<>> /\ Top(t)'.op = Top(t).op /\ \A u \in Threads \ {t} : call'[u] = call[u]
      BY <2>1, <2>2, AdvancesTop
    <3> QED
      BY <2>1, <3>1
  <2>3. ASSUME NEW s \in Slot, NEW f, Sweeps(t, s, f)
        PROVE  call'[t] # <<>> /\ Top(t)'.op = "flush-all" /\ \A u \in Threads \ {t} : call'[u] = call[u]
    <3>1. Set(t, f) /\ Fit(f) /\ f.op = Top(t).op /\ f.op = "flush-all"
      BY <2>1, <2>3 DEF Sweeps
    <3>2. call'[t] # <<>> /\ Top(t)' = f /\ \A u \in Threads \ {t} : call'[u] = call[u]
      BY <2>1, <3>1, SetFrame
    <3> QED
      BY <3>1, <3>2
  <2> QED
    BY <1>1, <2>1, <2>2, <2>3, ScanStep
<1>2. CASE FlushAllRead(t) \/ FlushAllWrite(t) \/ FlushAllAdjust(t)
  <2>1. call[t] # <<>> /\ Top(t).op = "flush-all" /\ UNCHANGED <<held, dead>>
    BY <1>2, SweepStep DEF FlushAllRead, FlushAllWrite, FlushAllAdjust, At
  <2>2. PICK a : Advances(t, a)
    BY <1>2, SweepStep
  <2>3. call'[t] # <<>> /\ Top(t)'.op = Top(t).op /\ \A u \in Threads \ {t} : call'[u] = call[u]
    BY <2>1, <2>2, AdvancesTop
  <2> QED
    BY <2>1, <2>3
<1> QED
  BY <1>1, <1>2

\* After these steps t is outside.
LEMMA LeaveOutside ==
    ASSUME LockInv, LockInv', NEW t \in Threads, LeaveStep(t) \/ \E c \in MayCall[t] : Call(t, c[1], c[2])
    PROVE  Outside(t)' /\ \A u \in Threads \ {t} : call'[u] = call[u] /\ held'[u] = held[u]
<1>1. \A u \in Threads \ {t} : call'[u] = call[u] /\ held'[u] = held[u]
  BY NextMoves DEF LeaveStep, Step, Moves
<1>2. /\ call'[t] = <<>> => Outside(t)'
      /\ Top(t)'.p \in IPorts => Outside(t)'
      /\ Top(t)'.op \notin LockOps => Outside(t)'
      /\ Top(t)'.at \in {"lock", "flushed"} => Outside(t)'
  BY PortsAssumption DEF Outside, Inside
<1>3. CASE FlushFails(t) \/ ClosedError(t) \/ PeekbClosedError(t)
  <2>1. call' = [call EXCEPT ![t] = <<>>]
    BY <1>3 DEF FlushFails, ClosedError, PeekbClosedError, Fail
  <2>2. call'[t] = <<>>
    BY <2>1 DEF LockInv
  <2> QED
    BY <1>1, <1>2, <2>2
<1>4. CASE \E p \in AllPorts : UnlockHeld(t, p)
  BY <1>2, <1>4 DEF UnlockHeld
<1>5. CASE Open(t) \/ FlushAllFails(t) \/ FlushAllRestore(t)
  <2>1. call[t] # <<>> /\ call' = [call EXCEPT ![t] = Tail(@)] /\ dead' = dead
    BY <1>5 DEF Open, FlushAllFails, FlushAllRestore, At
  <2>2. Top(t).op # "flush-port"
    <3>1. Top(t).at \in {"open", "fa-write", "fa-restore"}
      BY <1>5 DEF Open, FlushAllFails, FlushAllRestore, At
    <3> QED
      BY <2>1, <3>1, TopFits, Stages DEF Fit
  <2> QED
    BY <1>1, <1>2, <2>1, <2>2, PopAlone
<1>6. CASE Unlock(t) \/ FlushSetFlag(t) \/ LockHeld(t) \/ LinkPorts3(t)
  <2>1. call[t] # <<>> /\ call' = [call EXCEPT ![t] = Tail(@)] /\ dead' = dead
    BY <1>6 DEF Unlock, FlushSetFlag, LockHeld, LinkPorts3, At
  <2> QED
    BY <1>1, <1>2, <2>1, PopTop
<1>7. CASE FlushRelease(t)
  <2>1. call[t] # <<>> /\ UNCHANGED <<held, dead>>
    BY <1>7 DEF FlushRelease, At
  <2>2. PICK f : Set(t, f) /\ Fit(f) /\ f.op = Top(t).op /\ f.p = Top(t).p /\ f.at = "flushed"
    BY <1>7, ReleaseStep
  <2>3. Top(t)' = f
    BY <2>1, <2>2, SetFrame
  <2> QED
    BY <1>1, <1>2, <2>2, <2>3
<1>8. CASE LinkPorts(t) \/ LinkPorts2(t)
  <2>1. call[t] # <<>> /\ UNCHANGED <<held, dead>>
    BY <1>8 DEF LinkPorts, LinkPorts2, At
  <2>2. PICK f : Set(t, f) /\ Fit(f) /\ f.op = Top(t).op /\ f.p = Top(t).p
    BY <1>8, LinkStep
  <2>3. Top(t)' = f
    BY <2>1, <2>2, SetFrame
  <2>4. Top(t).p \in IPorts
    BY <1>8, LinkStep
  <2> QED
    BY <1>1, <1>2, <2>2, <2>3, <2>4
<1>9. CASE Read(t)
  <2>1. call[t] # <<>> /\ UNCHANGED <<held, dead>> /\ Top(t).op \in Reads /\ Advances(t, "unlock")
    BY <1>9, ReadStep DEF Read, At
  <2>2. Top(t)'.p = Top(t).p /\ Top(t).p \in IPorts
    BY <2>1, AdvancesTop, TopFits DEF Fit, PortFit
  <2> QED
    BY <1>1, <1>2, <2>2
<1>10. CASE FlushLinked(t)
  <2>1. call[t] # <<>> /\ UNCHANGED <<held, dead>> /\ Top(t).op \in Reads
    BY <1>10, LinkedStep DEF FlushLinked, At
  <2>2. CASE Advances(t, "read")
    <3>1. Top(t)'.p = Top(t).p /\ Top(t).p \in IPorts
      BY <2>1, <2>2, AdvancesTop, TopFits DEF Fit, PortFit
    <3> QED
      BY <1>1, <1>2, <3>1
  <2>3. CASE \E h, f : Pushes(t, h, f)
    BY <1>1, <1>2, <2>3 DEF Pushes
  <2> QED
    BY <1>10, <2>2, <2>3, LinkedStep
<1>11. CASE FlushAllScan(t) \/ FlushAllRead(t) \/ FlushAllWrite(t) \/ FlushAllAdjust(t)
  <2>1. Top(t)'.op \notin LockOps
    BY <1>11, SweepTop DEF LockOps, Reads
  <2> QED
    BY <1>1, <1>2, <2>1
<1>12. ASSUME NEW c \in MayCall[t], Call(t, c[1], c[2])
       PROVE  Outside(t)'
  <2>1. PICK f : Top(t)' = f /\ Begins(f, c[1], c[2])
    BY <1>12, CallStep
  <2>2. Fit(f) /\ f.at \in {"lock", "open", "flush-all", "link-1"}
    BY <2>1 DEF Begins
  <2>3. f.at = "lock" \/ f.op \notin LockOps
    <3>1. f.at = "lock" \/ f.op \in {"open", "flush-all", "link", "unlink"}
      BY <2>2, Stages DEF Fit
    <3> QED
      BY <3>1 DEF LockOps, Reads
  <2> QED
    BY <1>1, <1>2, <2>1, <2>3
<1> QED
  BY <1>1, <1>3, <1>4, <1>5, <1>6, <1>7, <1>8, <1>9, <1>10, <1>11, <1>12 DEF LeaveStep

\* The frame on top after a step inside.
LEMMA WorkTop ==
    ASSUME LockInv, NEW t \in Threads, WorkStep(t)
    PROVE  /\ call[t] # <<>> /\ call'[t] # <<>> /\ Top(t)'.op = Top(t).op /\ Top(t)'.p = Top(t).p
           /\ Top(t).op \in LockOps /\ \A u \in Threads \ {t} : call'[u] = call[u]
           /\ UNCHANGED <<held, dead>>
           /\ Lock(t) => Top(t)'.at = Top(t)'.op
           /\ ~Lock(t) => Top(t).at \notin {"lock", "flushed"} /\ Top(t)'.locked = Top(t).locked
<1>1. UNCHANGED <<held, dead>> /\ call[t] # <<>>
  BY DEF WorkStep, Lock, Flush, Put, Putc, Write, Store, FlushPort, Close, Closing, At
<1>2. ASSUME NEW f, Turns(t, f), Top(t).op \in LockOps, Top(t).at \notin {"lock", "flushed"}
      PROVE  /\ call'[t] # <<>> /\ Top(t)'.op = Top(t).op /\ Top(t)'.p = Top(t).p
             /\ Top(t).op \in LockOps /\ \A u \in Threads \ {t} : call'[u] = call[u]
             /\ Top(t).at \notin {"lock", "flushed"} /\ Top(t)'.locked = Top(t).locked
  <2>1. call'[t] # <<>> /\ Top(t)' = f /\ \A u \in Threads \ {t} : call'[u] = call[u]
    BY <1>1, <1>2, TurnsTop
  <2> QED
    BY <1>2, <2>1 DEF Turns, Keeps
<1>3. CASE Lock(t)
  <2>1. At(t, "lock") /\ Top(t).at = "lock"
    BY <1>3 DEF Lock, At
  <2>2. CASE lock[Top(t).p].owner = t /\ Top(t).op \notin {"close", "lock!"}
    <3>1. lock' = lock
      BY <1>3, <2>2 DEF Lock
    <3>2. Top(t).op \in LockOps /\ Advances(t, Top(t).op)
      BY <1>3, <2>2, <3>1, ShortcutStep
    <3>3. /\ call'[t] # <<>> /\ Top(t)'.op = Top(t).op /\ Top(t)'.p = Top(t).p /\ Top(t)'.at = Top(t).op
          /\ \A u \in Threads \ {t} : call'[u] = call[u]
      BY <1>1, <3>2, AdvancesTop
    <3> QED
      BY <1>1, <1>3, <3>2, <3>3
  <2>3. CASE ~(lock[Top(t).p].owner = t /\ Top(t).op \notin {"close", "lock!"})
    <3>1. Top(t).op \in LockOps
      BY <1>3, <2>3, LockStep
    <3>2. PICK f : Set(t, f) /\ Fit(f) /\ f.op = Top(t).op /\ f.p = Top(t).p /\ f.at = f.op
      BY <1>3, <2>3, LockStep
    <3>3. call'[t] # <<>> /\ Top(t)' = f /\ \A u \in Threads \ {t} : call'[u] = call[u]
      BY <1>1, <3>2, SetFrame
    <3> QED
      BY <1>1, <1>3, <3>1, <3>2, <3>3
  <2> QED
    BY <2>2, <2>3
<1>4. CASE Flush(t, TRUE) \/ Flush(t, FALSE)
  <2>1. Top(t).at \in {"force", "flush"}
    BY <1>4 DEF Flush, At
  <2>2. Top(t).op \in LockOps /\ \E f : Turns(t, f)
    BY <1>4, FlushStep DEF Advances
  <2> QED
    BY <1>1, <1>2, <2>1, <2>2 DEF Lock, At
<1>5. CASE Put(t) \/ Putc(t) \/ Write(t) \/ Store(t)
  <2>1. Top(t).at \in {"put", "putc", "write", "store"}
    BY <1>5 DEF Put, Putc, Write, Store, At
  <2>2. Top(t).op \in {"put", "putc"} /\ \E f : Turns(t, f)
    BY <1>5, PutStep, PutcStep, WriteStep, StoreStep
  <2> QED
    BY <1>1, <1>2, <2>1, <2>2 DEF Lock, At, LockOps
<1>6. CASE FlushPort(t) \/ Close(t) \/ Closing(t)
  <2>1. Top(t).at \in {"flush-port", "close", "closing"}
    BY <1>6 DEF FlushPort, Close, Closing, At
  <2>2. Top(t).op \in {"flush-port", "close"} /\ \E f : Turns(t, f)
    BY <1>6, FlushPortStep, CloseStep, ClosingStep DEF Advances
  <2> QED
    BY <1>1, <1>2, <2>1, <2>2 DEF Lock, At, LockOps
<1> QED
  BY <1>3, <1>4, <1>5, <1>6 DEF WorkStep

\* SHORTCUT skips the lock of an output port only inside with-port-locking.
LEMMA ShortcutHeld ==
    ASSUME LockInv, NEW t \in Threads, call[t] # <<>>, Top(t).at = "lock", NEW p \in OPorts,
           Top(t).p = p, lock[p].owner = t
    PROVE  p \in held[t]
<1>1. p \in AllPorts /\ p \notin leaked /\ p \notin IPorts
  BY PortsAssumption DEF LockInv, PortTypes, AllPorts
<1>2. lock[p].count # 0 /\ t \notin dead
  BY <1>1, TopFacts, PortsAssumption DEF LockInv, LockRight
<1>3. Times(call[t], held[t], p) # 0
  BY <1>1, <1>2 DEF LockInv, LockRight
<1>4. Fit(Top(t)) /\ Stack(call[t])
  BY TopFacts DEF Stacks
<1>5. ~Owns(call[t][1], p)
  BY <1>4 DEF Fit, LockFit, Owns, Top
<1>6. Len(call[t]) = 2 => ~Owns(call[t][2], p)
  <2>1. SUFFICES ASSUME Len(call[t]) = 2 PROVE ~Owns(call[t][2], p)
    OBVIOUS
  <2>2. Fit(call[t][2]) /\ call[t][2].at = "read"
    BY <1>4, <2>1 DEF Stack
  <2>3. call[t][2].op \in Reads
    BY <2>2, Stages DEF Fit
  <2>4. call[t][2].p \in IPorts
    BY <2>2, <2>3 DEF Fit, PortFit
  <2> QED
    BY <1>1, <2>2, <2>4 DEF Owns
<1> QED
  BY <1>3, <1>5, <1>6 DEF Times, One

\* HoldInv is kept by the steps inside.
LEMMA HoldWork ==
    ASSUME LockInv, HoldInv, NEW t \in Threads, WorkStep(t)
    PROVE  HoldInv'
<1>1. /\ call[t] # <<>> /\ Top(t)'.op = Top(t).op /\ Top(t)'.p = Top(t).p
      /\ Top(t).op \in LockOps /\ (\A u \in Threads \ {t} : call'[u] = call[u]) /\ held' = held
      /\ ~Lock(t) => Top(t).at \notin {"lock", "flushed"} /\ Top(t)'.locked = Top(t).locked
  BY WorkTop
<1>2. \A u \in Threads \ {t} : Top(u)' = Top(u) /\ \A p : Inside(u, p)' <=> Inside(u, p)
  BY <1>1, OthersInside
<1>3. ASSUME NEW p \in OPorts, Inside(t, p)'
      PROVE  Top(t)'.locked \/ p \in held[t]
  <2>1. Top(t).p = p
    BY <1>1, <1>3 DEF Inside
  <2>2. CASE ~Lock(t)
    <3>1. Inside(t, p)
      BY <1>1, <2>1, <2>2 DEF Inside
    <3> QED
      BY <1>1, <2>2, <3>1 DEF HoldInv
  <2>3. CASE Lock(t)
    <3>1. Top(t).at = "lock" /\ UNCHANGED <<held, dead>>
      BY <2>3 DEF Lock, At
    <3>2. CASE lock[Top(t).p].owner = t
      BY <1>1, <2>1, <3>1, <3>2, ShortcutHeld
    <3>3. CASE lock[Top(t).p].owner # t
      <4>1. PICK f : Set(t, f) /\ Fit(f) /\ f.op = Top(t).op /\ f.p = Top(t).p /\ f.locked = TRUE
        BY <2>3, <3>3, LockStep
      <4>2. Top(t)' = f
        BY <1>1, <3>1, <4>1, SetFrame
      <4> QED
        BY <4>1, <4>2
    <3> QED
      BY <3>2, <3>3
  <2> QED
    BY <2>2, <2>3
<1> QED
  BY <1>1, <1>2, <1>3 DEF HoldInv

\* A thread that is outside holds what it likes.
LEMMA HoldLeave ==
    ASSUME LockInv, LockInv', HoldInv, NEW t \in Threads,
           LeaveStep(t) \/ \E c \in MayCall[t] : Call(t, c[1], c[2])
    PROVE  HoldInv'
<1>1. Outside(t)' /\ \A u \in Threads \ {t} : call'[u] = call[u] /\ held'[u] = held[u]
  BY LeaveOutside
<1>2. \A u \in Threads \ {t} : Top(u)' = Top(u) /\ \A p : Inside(u, p)' <=> Inside(u, p)
  BY <1>1, OthersInside
<1>3. \A p \in OPorts : ~Inside(t, p)'
  BY <1>1 DEF Outside
<1> QED
  BY <1>1, <1>2, <1>3 DEF HoldInv

\* A step of t works on a port, or leaves t outside.
LEMMA StepKinds ==
    ASSUME NEW t \in Threads, Step(t)
    PROVE  WorkStep(t) \/ LeaveStep(t)
  BY DEF Step, WorkStep, LeaveStep

\* HoldInv is kept by every step,
LEMMA HoldStep == LockInv /\ LockInv' /\ HoldInv /\ [Next]_vars => HoldInv'
<1> SUFFICES ASSUME LockInv, LockInv', HoldInv, [Next]_vars PROVE HoldInv'
  OBVIOUS
<1>1. ASSUME NEW t \in Threads, Step(t) \/ \E c \in MayCall[t] : Call(t, c[1], c[2])
      PROVE  HoldInv'
  BY <1>1, StepKinds, HoldWork, HoldLeave
<1>2. CASE UNCHANGED <<call, held>>
  BY <1>2 DEF HoldInv, Inside, Top
<1>3. ASSUME NEW t \in Threads, Terminate(t)
      PROVE  UNCHANGED <<call, held>>
  BY <1>3 DEF Terminate
<1>4. UNCHANGED vars => UNCHANGED <<call, held>>
  BY DEF vars
<1> QED
  BY <1>1, <1>2, <1>3, <1>4 DEF Next

\* and holds at the beginning.
LEMMA HoldInit == Init => HoldInv
  BY DEF Init, HoldInv, Inside
-----------------------------------------------------------------------------
(* What is put into the buffers.                                               *)

\* Equal bytes are next to each other; if q is there, it is the last.
Runs(e) == \A i, j, k \in 1..Len(e) : i < j /\ j < k /\ e[i] = e[k] => e[j] = e[i]
Ends(e, q) == \A i \in 1..Len(e) : e[i] = q => e[Len(e)] = q

\* t is in the middle of a put to p.
Writing(t, p) ==
    Inside(t, p) /\ \/ Top(t).at \in {"write", "store"}
                    \/ Top(t).at = "flush" /\ Top(t).next \in {"write", "store"}

Numbered == \A p \in OPorts : \A i \in 1..Len(entered[p]) : entered[p][i] \in 1..puts
RunInv == \A p \in OPorts : Runs(entered[p])
EndInv == \A t \in Threads, p \in OPorts : Writing(t, p) => Top(t).q \in 1..puts /\ Ends(entered[p], Top(t).q)

PutInv == Numbered /\ RunInv /\ EndInv

\* Bytes q at the end, after bytes that end in q if they have any.
LEMMA RunsGrow ==
    ASSUME NEW e \in Seq(Tags), NEW b \in Seq(Tags), NEW q, \A i \in 1..Len(b) : b[i] = q, Runs(e), Ends(e, q)
    PROVE  /\ Runs(e \o b) /\ Ends(e \o b, q)
           /\ \A i \in 1..Len(e \o b) : (i \in 1..Len(e) /\ (e \o b)[i] = e[i]) \/ (e \o b)[i] = q
<1> DEFINE g == e \o b
<1>1. /\ Len(g) = Len(e) + Len(b) /\ Len(e) \in Nat /\ Len(b) \in Nat
      /\ \A i \in 1..Len(g) : g[i] = IF i <= Len(e) THEN e[i] ELSE b[i - Len(e)]
  BY ConcatProperties, LenProperties
<1>2. /\ \A i \in 1..Len(e) : i \in 1..Len(g) /\ g[i] = e[i]
      /\ \A i \in 1..Len(g) : i \notin 1..Len(e) => g[i] = q
      /\ \A i \in 1..Len(g) : i \in 1..Len(e) \/ i > Len(e)
  BY <1>1
<1> HIDE DEF g
<1>3. ASSUME NEW i \in 1..Len(g), NEW j \in 1..Len(g), NEW k \in 1..Len(g), i < j, j < k, g[i] = g[k]
      PROVE  g[j] = g[i]
  <2>1. CASE k \in 1..Len(e)
    <3>1. i \in 1..Len(e) /\ j \in 1..Len(e)
      BY <1>1, <1>3, <2>1
    <3> QED
      BY <1>2, <1>3, <2>1, <3>1 DEF Runs
  <2>2. CASE k \notin 1..Len(e) /\ i \notin 1..Len(e)
    <3>1. j \notin 1..Len(e)
      BY <1>1, <1>3, <2>2
    <3> QED
      BY <1>2, <2>2, <3>1
  <2>3. CASE k \notin 1..Len(e) /\ i \in 1..Len(e)
    <3>1. e[i] = q /\ e[Len(e)] = q
      BY <1>2, <1>3, <2>3 DEF Ends
    <3>2. CASE j \notin 1..Len(e)
      BY <1>2, <2>3, <3>1, <3>2
    <3>3. CASE j = Len(e)
      BY <1>2, <2>3, <3>1, <3>3, <1>1
    <3>4. CASE j \in 1..Len(e) /\ j < Len(e)
      <4>1. Len(e) \in 1..Len(e)
        BY <1>1, <2>3
      <4>2. e[j] = e[i]
        BY <1>3, <2>3, <3>1, <3>4, <4>1 DEF Runs
      <4> QED
        BY <1>2, <2>3, <3>1, <3>4, <4>2
    <3>5. j \notin 1..Len(e) \/ j = Len(e) \/ (j \in 1..Len(e) /\ j < Len(e))
      BY <1>1
    <3> QED
      BY <3>2, <3>3, <3>4, <3>5
  <2> QED
    BY <2>1, <2>2, <2>3
<1>4. ASSUME NEW i \in 1..Len(g), g[i] = q
      PROVE  g[Len(g)] = q
  <2>1. Len(g) \in 1..Len(g)
    BY <1>1
  <2>2. CASE Len(b) = 0
    <3>1. Len(g) = Len(e) /\ i \in 1..Len(e)
      BY <1>1, <2>2
    <3> QED
      BY <1>2, <1>4, <2>1, <3>1 DEF Ends
  <2>3. CASE Len(b) # 0
    <3>1. Len(g) \notin 1..Len(e)
      BY <1>1, <2>3
    <3> QED
      BY <1>2, <2>1, <3>1
  <2> QED
    BY <2>2, <2>3
<1>5. Runs(g) /\ Ends(g, q)
  BY <1>3, <1>4 DEF Runs, Ends
<1> QED
  BY <1>2, <1>5 DEF g

\* Who begins nothing new, and puts nothing.
LEMMA PutSame ==
    ASSUME PutInv, UNCHANGED <<entered, puts>>,
           \A u \in Threads, p \in OPorts : Writing(u, p)' => Writing(u, p) /\ Top(u)'.q = Top(u).q
    PROVE  PutInv'
<1>1. Numbered'
  BY DEF PutInv, Numbered
<1>2. RunInv'
  BY DEF PutInv, RunInv
<1>3. EndInv'
  BY DEF PutInv, EndInv
<1> QED
  BY <1>1, <1>2, <1>3 DEF PutInv

\* The others go on as they are.
LEMMA OthersWriting ==
    ASSUME NEW t, \A u \in Threads \ {t} : call'[u] = call[u]
    PROVE  \A u \in Threads \ {t}, p \in OPorts : Writing(u, p)' => Writing(u, p) /\ Top(u)'.q = Top(u).q
<1>1. \A u \in Threads \ {t} : Top(u)' = Top(u) /\ \A p : Inside(u, p)' <=> Inside(u, p)
  BY OthersInside
<1> QED
  BY <1>1 DEF Writing

\* A thread that is outside is not in the middle of a put.
LEMMA PutLeave ==
    ASSUME LockInv, LockInv', PutInv, NEW t \in Threads,
           LeaveStep(t) \/ \E c \in MayCall[t] : Call(t, c[1], c[2])
    PROVE  PutInv'
<1>1. Outside(t)' /\ \A u \in Threads \ {t} : call'[u] = call[u]
  BY LeaveOutside
<1>2. \A u \in Threads \ {t}, p \in OPorts : Writing(u, p)' => Writing(u, p) /\ Top(u)'.q = Top(u).q
  BY <1>1, OthersWriting
<1>3. \A p \in OPorts : ~Writing(t, p)'
  BY <1>1 DEF Outside, Writing
<1>4. UNCHANGED <<entered, puts>>
  <2>1. CASE Unlock(t) \/ FlushFails(t) \/ ClosedError(t) \/ PeekbClosedError(t) \/ FlushRelease(t) \/ FlushSetFlag(t)
    BY <2>1 DEF Unlock, FlushFails, ClosedError, PeekbClosedError, FlushRelease, FlushSetFlag, streamVars
  <2>2. CASE \/ FlushLinked(t) \/ Read(t) \/ LinkPorts(t) \/ LinkPorts2(t) \/ LinkPorts3(t) \/ LockHeld(t)
             \/ \E p \in AllPorts : UnlockHeld(t, p)
    BY <2>2 DEF FlushLinked, Read, LinkPorts, LinkPorts2, LinkPorts3, LockHeld, UnlockHeld, streamVars
  <2>3. CASE \/ Open(t) \/ FlushAllScan(t) \/ FlushAllRead(t) \/ FlushAllWrite(t) \/ FlushAllAdjust(t)
             \/ FlushAllFails(t) \/ FlushAllRestore(t)
    BY <2>3 DEF Open, FlushAllScan, FlushAllRead, FlushAllWrite, FlushAllAdjust, FlushAllFails, FlushAllRestore,
                streamVars
  <2>4. CASE \E c \in MayCall[t] : Call(t, c[1], c[2])
    BY <2>4 DEF Call, streamVars
  <2> QED
    BY <2>1, <2>2, <2>3, <2>4 DEF LeaveStep
<1> QED
  BY <1>2, <1>3, <1>4, PutSame

\* Locking, flushing and closing puts nothing.
LEMMA PutIdle ==
    ASSUME LockInv, PutInv, NEW t \in Threads,
           Lock(t) \/ Flush(t, TRUE) \/ Flush(t, FALSE) \/ FlushPort(t) \/ Close(t) \/ Closing(t)
    PROVE  PutInv'
<1>1. /\ call[t] # <<>> /\ Top(t)'.op = Top(t).op /\ Top(t)'.p = Top(t).p /\ Top(t).op \in LockOps
      /\ (\A u \in Threads \ {t} : call'[u] = call[u]) /\ UNCHANGED <<held, dead>>
      /\ Lock(t) => Top(t)'.at = Top(t)'.op
  BY WorkTop DEF WorkStep
<1>2. \A u \in Threads \ {t}, p \in OPorts : Writing(u, p)' => Writing(u, p) /\ Top(u)'.q = Top(u).q
  BY <1>1, OthersWriting
<1>3. UNCHANGED <<entered, puts>>
  BY DEF Lock, Flush, FlushPort, Close, Closing, streamVars
<1>4. ASSUME NEW p \in OPorts, Writing(t, p)'
      PROVE  Writing(t, p) /\ Top(t)'.q = Top(t).q
  <2>1. Top(t)'.at \in {"write", "store", "flush"} /\ Top(t)'.p = p /\ Top(t)'.op \in LockOps
    BY <1>4 DEF Writing, Inside
  <2>2. CASE Lock(t)
    BY <1>1, <2>1, <2>2 DEF LockOps, Reads
  <2>3. CASE Flush(t, TRUE) \/ Flush(t, FALSE)
    <3>1. Top(t).at \in {"force", "flush"} /\ Advances(t, Top(t).next)
      BY <2>3, FlushStep
    <3>2. Top(t)'.at = Top(t).next /\ Top(t)'.q = Top(t).q
      BY <1>1, <3>1, AdvancesTop
    <3>3. /\ Top(t).at = "flush" => Top(t).next \in {"write", "store", "unlock"}
          /\ Top(t).at = "force" => Top(t).next \in {"unlock", "release", "closing"}
      BY <1>1, TopFits, Stages DEF Fit
    <3>4. Top(t).at = "flush" /\ Top(t).next \in {"write", "store"}
      BY <2>1, <3>1, <3>2, <3>3
    <3> QED
      BY <1>1, <2>1, <3>2, <3>4 DEF Writing, Inside
  <2>4. CASE FlushPort(t) \/ Close(t) \/ Closing(t)
    <3>1. PICK f : Turns(t, f) /\ f.at \in {"unlock", "force", "closing"}
      BY <2>4, FlushPortStep, CloseStep, ClosingStep DEF Advances
    <3>2. Top(t)' = f
      BY <1>1, <3>1, TurnsTop
    <3> QED
      BY <2>1, <3>1, <3>2
  <2> QED
    BY <2>2, <2>3, <2>4
<1> QED
  BY <1>2, <1>3, <1>4, PutSame

\* A put begins, with a number that no byte has.
LEMMA PutBegins ==
    ASSUME LockInv, PutInv, NEW t \in Threads, Put(t) \/ Putc(t)
    PROVE  PutInv'
<1>1. call[t] # <<>> /\ (\A u \in Threads \ {t} : call'[u] = call[u]) /\ UNCHANGED <<held, dead>>
  BY WorkTop DEF WorkStep
<1>2. \A u \in Threads \ {t}, p \in OPorts : Writing(u, p)' => Writing(u, p) /\ Top(u)'.q = Top(u).q
  BY <1>1, OthersWriting
<1>3. entered' = entered /\ puts' = puts + 1 /\ puts \in Nat
  BY DEF Put, Putc, LockInv, PortTypes
<1>4. Top(t)'.q = puts + 1
  <2>1. PICK f : Turns(t, f) /\ f.q = puts + 1
    BY PutStep, PutcStep
  <2>2. Top(t)' = f
    BY <1>1, <2>1, TurnsTop
  <2> QED
    BY <2>1, <2>2
<1>5. 1..puts \subseteq 1..puts' /\ puts + 1 \in 1..puts' /\ puts + 1 \notin 1..puts
  BY <1>3
<1>6. Numbered'
  BY <1>3, <1>5 DEF PutInv, Numbered
<1>7. RunInv'
  BY <1>3 DEF PutInv, RunInv
<1>8. EndInv'
  <2>1. \A u \in Threads \ {t}, p \in OPorts : Writing(u, p)' =>
            Top(u)'.q \in 1..puts' /\ Ends(entered'[p], Top(u)'.q)
    BY <1>2, <1>3, <1>5 DEF PutInv, EndInv
  <2>2. \A p \in OPorts : Ends(entered'[p], puts + 1)
    BY <1>3, <1>5 DEF PutInv, Numbered, Ends
  <2> QED
    BY <1>4, <1>5, <2>1, <2>2 DEF EndInv
<1> QED
  BY <1>6, <1>7, <1>8 DEF PutInv

\* Bytes of a put go into the buffer: nobody else is in the middle of one.
LEMMA PutWrites ==
    ASSUME LockInv, HoldInv, PutInv, NEW t \in Threads, Write(t) \/ Store(t)
    PROVE  PutInv'
<1> DEFINE p == Top(t).p
           q == Top(t).q
<1>1. /\ call[t] # <<>> /\ Top(t)'.op = Top(t).op /\ Top(t)'.p = Top(t).p /\ Top(t).op \in LockOps
      /\ (\A u \in Threads \ {t} : call'[u] = call[u]) /\ UNCHANGED <<held, dead>>
  BY WorkTop DEF WorkStep
<1>2. \A u \in Threads \ {t}, r \in OPorts : Writing(u, r)' => Writing(u, r) /\ Top(u)'.q = Top(u).q
  BY <1>1, OthersWriting
<1>3. p \in OPorts /\ Top(t)'.q = q /\ puts' = puts
  <2>1. p \in OPorts
    BY WriteStep, StoreStep
  <2>2. PICK f : Turns(t, f) /\ f.q = q
    BY WriteStep, StoreStep
  <2>3. Top(t)' = f
    BY <1>1, <2>2, TurnsTop
  <2> QED
    BY <2>1, <2>2, <2>3 DEF Write, Store
<1>4. Top(t).at \in {"write", "store"}
  BY DEF Write, Store, At
<1>5. Inside(t, p) /\ Writing(t, p)
  BY <1>1, <1>4 DEF Inside, Writing
<1>6. PICK b \in Seq(Tags) : (\A i \in 1..Len(b) : b[i] = q) /\ entered' = [entered EXCEPT ![p] = @ \o b]
  <2>1. CASE Write(t)
    <3>1. Fitting(t) \in Seq(Tags) /\ \A i \in 1..Len(Fitting(t)) : Fitting(t)[i] = q
      BY <1>1, <1>3, FittingSeq
    <3>2. entered' = [entered EXCEPT ![p] = @ \o Fitting(t)]
      BY <2>1 DEF Write, PutInto
    <3> QED
      BY <3>1, <3>2
  <2>2. CASE Store(t)
    <3>1. Top(t).n \in Int /\ q \in Tags
      BY <1>1, TopFacts DEF Frames
    <3>2. PutBytes(Top(t).n, q) \in Seq(Tags) /\ \A i \in 1..Len(PutBytes(Top(t).n, q)) : PutBytes(Top(t).n, q)[i] = q
      BY <3>1, BytesSeq
    <3>3. entered' = [entered EXCEPT ![p] = @ \o PutBytes(Top(t).n, q)]
      BY <2>2 DEF Store, PutInto
    <3> QED
      BY <3>2, <3>3
  <2> QED
    BY <2>1, <2>2
<1>7. q \in 1..puts /\ Ends(entered[p], q) /\ Runs(entered[p]) /\ entered[p] \in Seq(Tags)
  BY <1>3, <1>5 DEF PutInv, EndInv, RunInv, LockInv, StreamTypes
<1>8. /\ entered'[p] = entered[p] \o b
      /\ \A r \in OPorts \ {p} : entered'[r] = entered[r]
  BY <1>3, <1>6 DEF LockInv, StreamTypes
<1>9. \A u \in Threads \ {t} : ~Writing(u, p)
  BY <1>3, <1>5, InsideAlone DEF Writing
<1> HIDE DEF p, q
<1>10. /\ Runs(entered'[p]) /\ Ends(entered'[p], q)
       /\ \A i \in 1..Len(entered'[p]) :
             (i \in 1..Len(entered[p]) /\ entered'[p][i] = entered[p][i]) \/ entered'[p][i] = q
  BY <1>6, <1>7, <1>8, RunsGrow
<1>11. Numbered'
  <2>1. \A i \in 1..Len(entered'[p]) : entered'[p][i] \in 1..puts
    BY <1>3, <1>7, <1>10 DEF PutInv, Numbered
  <2> QED
    BY <1>3, <1>8, <2>1 DEF PutInv, Numbered
<1>12. RunInv'
  BY <1>8, <1>10 DEF PutInv, RunInv
<1>13. EndInv'
  <2>1. ASSUME NEW r \in OPorts, Writing(t, r)'
        PROVE  Top(t)'.q \in 1..puts' /\ Ends(entered'[r], Top(t)'.q)
    <3>1. r = p
      BY <1>1, <2>1 DEF Writing, Inside, p
    <3> QED
      BY <1>3, <1>7, <1>10, <3>1
  <2>2. ASSUME NEW u \in Threads \ {t}, NEW r \in OPorts, Writing(u, r)'
        PROVE  Top(u)'.q \in 1..puts' /\ Ends(entered'[r], Top(u)'.q)
    <3>1. Writing(u, r) /\ Top(u)'.q = Top(u).q /\ r # p
      BY <1>2, <1>9, <2>2
    <3> QED
      BY <1>3, <1>8, <3>1 DEF PutInv, EndInv
  <2> QED
    BY <2>1, <2>2 DEF EndInv
<1> QED
  BY <1>11, <1>12, <1>13 DEF PutInv

\* PutInv is kept by every step,
LEMMA PutStays == LockInv /\ LockInv' /\ HoldInv /\ PutInv /\ [Next]_vars => PutInv'
<1> SUFFICES ASSUME LockInv, LockInv', HoldInv, PutInv, [Next]_vars PROVE PutInv'
  OBVIOUS
<1>1. ASSUME NEW t \in Threads, WorkStep(t)
      PROVE  PutInv'
  BY <1>1, PutIdle, PutBegins, PutWrites DEF WorkStep
<1>2. ASSUME NEW t \in Threads, LeaveStep(t) \/ \E c \in MayCall[t] : Call(t, c[1], c[2])
      PROVE  PutInv'
  BY <1>2, PutLeave
<1>3. CASE UNCHANGED <<call, entered, puts>>
  BY <1>3, PutSame DEF Writing, Inside, Top
<1>4. ASSUME NEW t \in Threads, Terminate(t)
      PROVE  UNCHANGED <<call, entered, puts>>
  BY <1>4 DEF Terminate, streamVars
<1>5. UNCHANGED vars => UNCHANGED <<call, entered, puts>>
  BY DEF vars
<1> QED
  BY <1>1, <1>2, <1>3, <1>4, <1>5, StepKinds DEF Next

\* and holds at the beginning.
LEMMA PutInit == Init => PutInv
<1> SUFFICES ASSUME Init PROVE PutInv
  OBVIOUS
<1>1. \A p \in OPorts : entered[p] = <<>> /\ Len(entered[p]) = 0
  BY DEF Init
<1>2. \A t \in Threads, p \in OPorts : ~Writing(t, p)
  BY DEF Init, Writing, Inside
<1>3. 1..0 = {}
  OBVIOUS
<1> QED
  BY <1>1, <1>2, <1>3 DEF PutInv, Numbered, RunInv, EndInv, Runs

\* In every reachable state who is past the lock of an output port has locked it,
\* or is inside with-port-locking, and the bytes of one put are together.
THEOREM PutInvariance == Spec => [](LockInv /\ HoldInv /\ PutInv)
<1>1. Init => LockInv /\ HoldInv /\ PutInv
  BY LockInvInit, HoldInit, PutInit
<1>2. (LockInv /\ HoldInv /\ PutInv) /\ [Next]_vars => (LockInv /\ HoldInv /\ PutInv)'
  <2>1. LockInv /\ [Next]_vars => LockInv'
    BY LockInvStep
  <2> QED
    BY <2>1, HoldStep, PutStays
<1> QED
  BY <1>1, <1>2, PTL DEF Spec

\* The bytes of one put are not torn apart by those of other threads, however often
\* the buffer is full in the middle of it and has to be flushed, and whatever
\* flush-all-ports does to the port without its lock.
THEOREM PutsStayTogether == Spec => []PutsContiguous
<1>1. PutInv => PutsContiguous
  BY DEF PutInv, RunInv, Runs, PutsContiguous
<1> QED
  BY <1>1, PutInvariance, PTL
-----------------------------------------------------------------------------
(* What has been written.                                                      *)

\* flush-all-ports has p in its hands, and in its flusher.
Handling(t, p) == call[t] # <<>> /\ Top(t).at \in {"fa-read", "fa-write", "fa-adjust"} /\ Top(t).p = p
Sweeping(t, p) == call[t] # <<>> /\ Top(t).at \in {"fa-write", "fa-adjust"} /\ Top(t).p = p
Adjusting(p) == \E t \in Threads : At(t, "fa-adjust") /\ Top(t).p = p

\* What was put is on the device or in the buffer.
WholeInv ==
    \A p \in OPorts \ spoilt :
        /\ Adjusting(p) => device[p] = entered[p]
        /\ ~Adjusting(p) => device[p] \o buf[p] = entered[p]

\* flush-all-ports is alone with the port, and the port is open.
AloneInv ==
    \A p \in OPorts \ spoilt, t \in Threads : Sweeping(t, p) => p \notin closed /\ \A u \in Threads : ~Inside(u, p)

\* A port without an error has been flushed when it is closed,
ClosingInv ==
    \A p \in OPorts \ spoilt, t \in Threads :
        Inside(t, p) /\ Top(t).at = "closing" => p \in error \/ device[p] = entered[p]

\* and who writes has seen that it is open.
OpenedInv ==
    \A p \in OPorts, t \in Threads :
        Inside(t, p) /\ Top(t).at \in {"write", "store", "flush", "force"} => p \notin closed

StreamInv == WholeInv /\ AloneInv /\ ClosingInv /\ OpenedInv /\ ClosedIsComplete

\* A port is in the hands of one flush-all-ports.
LEMMA HandlingAlone ==
    ASSUME TableInv, NEW t \in Threads, NEW u \in Threads, NEW p \in OPorts, Handling(t, p), Handling(u, p)
    PROVE  t = u
<1>1. /\ Top(t).n \in Slot /\ Saved(t, Top(t).n) = p
      /\ Top(u).n \in Slot /\ Saved(u, Top(u).n) = p
  BY DEF Handling, TableInv, SweepInv, Saved
<1>2. p # NoPort
  BY PortsAssumption DEF AllPorts
<1> QED
  BY <1>1, <1>2 DEF TableInv, TakenInv

\* flush-all-ports of the others goes on as it is.
LEMMA OthersSweeping ==
    ASSUME NEW t, \A u \in Threads \ {t} : call'[u] = call[u]
    PROVE  \A u \in Threads \ {t} :
               /\ At(u, "fa-adjust")' <=> At(u, "fa-adjust")
               /\ \A p : Sweeping(u, p)' <=> Sweeping(u, p)
  BY DEF Sweeping, At, Top

\* Steps of t that write nothing, except to a spoilt port.
LEMMA StreamQuiet ==
    ASSUME StreamInv, NEW t \in Threads, \A u \in Threads \ {t} : call'[u] = call[u],
           UNCHANGED <<buf, entered, closed>>, \A p \in OPorts \ spoilt' : device'[p] = device[p],
           spoilt \subseteq spoilt', error \subseteq error',
           ~At(t, "fa-adjust"), ~At(t, "fa-adjust")', ~At(t, "fa-write")',
           \A p \in OPorts : Inside(t, p)' => p \in spoilt' \/ Inside(t, p) \/ \A u \in Threads : ~Sweeping(u, p),
           \A p \in OPorts : Inside(t, p)' /\ Top(t)'.at = "closing" => p \in error',
           \A p \in OPorts : Inside(t, p)' /\ Top(t)'.at \in {"write", "store", "flush", "force"} => p \notin closed
    PROVE  StreamInv'
<1>1. \A u \in Threads \ {t} : Top(u)' = Top(u) /\ \A p : Inside(u, p)' <=> Inside(u, p)
  BY OthersInside
<1>2. \A u \in Threads \ {t} : /\ At(u, "fa-adjust")' <=> At(u, "fa-adjust")
                               /\ \A p : Sweeping(u, p)' <=> Sweeping(u, p)
  BY OthersSweeping
<1>3. \A p : ~Sweeping(t, p)'
  BY DEF Sweeping, At
<1>4. \A p : Adjusting(p)' <=> Adjusting(p)
  BY <1>1, <1>2 DEF Adjusting
<1>5. WholeInv'
  BY <1>4 DEF StreamInv, WholeInv
<1>6. AloneInv'
  <2> SUFFICES ASSUME NEW p \in OPorts \ spoilt', NEW u \in Threads, Sweeping(u, p)', NEW v \in Threads
               PROVE  p \notin closed' /\ ~Inside(v, p)'
    BY DEF AloneInv
  <2>1. Sweeping(u, p) /\ p \notin spoilt
    BY <1>2, <1>3
  <2>2. p \notin closed /\ \A w \in Threads : ~Inside(w, p)
    BY <2>1 DEF StreamInv, AloneInv
  <2> QED
    BY <1>1, <2>1, <2>2
<1>7. ClosingInv'
  BY <1>1 DEF StreamInv, ClosingInv
<1>8. OpenedInv'
  BY <1>1 DEF StreamInv, OpenedInv
<1>9. ClosedIsComplete'
  BY DEF StreamInv, ClosedIsComplete
<1> QED
  BY <1>5, <1>6, <1>7, <1>8, <1>9 DEF StreamInv

\* Steps of t that write to, or from, the buffer of an open port that t has locked.
LEMMA StreamWork ==
    ASSUME LockInv, HoldInv, StreamInv, NEW t \in Threads, \A u \in Threads \ {t} : call'[u] = call[u],
           NEW p \in OPorts, Inside(t, p), p \notin closed,
           \A r \in OPorts \ {p} : device'[r] = device[r] /\ buf'[r] = buf[r] /\ entered'[r] = entered[r],
           closed' = closed, spoilt \subseteq spoilt', error \subseteq error',
           p \notin spoilt' /\ device[p] \o buf[p] = entered[p] => device'[p] \o buf'[p] = entered'[p],
           \A r \in OPorts : Inside(t, r)' => r = p,
           call'[t] # <<>> => Top(t)'.at \notin {"fa-write", "fa-adjust"},
           call'[t] # <<>> /\ Top(t)'.at = "closing" /\ p \notin spoilt' /\ device[p] \o buf[p] = entered[p] =>
               device'[p] = entered'[p]
    PROVE  StreamInv'
<1>1. \A u \in Threads \ {t} : Top(u)' = Top(u) /\ \A r : Inside(u, r)' <=> Inside(u, r)
  BY OthersInside
<1>2. \A u \in Threads \ {t} : /\ At(u, "fa-adjust")' <=> At(u, "fa-adjust")
                               /\ \A r : Sweeping(u, r)' <=> Sweeping(u, r)
  BY OthersSweeping
<1>3. ~At(t, "fa-adjust")' /\ ~At(t, "fa-adjust") /\ \A r : ~Sweeping(t, r)' /\ ~Sweeping(t, r)
  <2>1. call[t] # <<>> /\ Top(t).op \in LockOps
    BY DEF Inside
  <2>2. Top(t).at \notin {"fa-write", "fa-adjust"}
    <3>1. Top(t).op # "flush-all"
      BY <2>1 DEF LockOps, Reads
    <3> QED
      BY <2>1, <3>1, TopFits, Stages DEF Fit
  <2> QED
    BY <2>2 DEF At, Sweeping
<1>4. \A r : Adjusting(r)' <=> Adjusting(r)
  BY <1>1, <1>2, <1>3 DEF Adjusting
<1>5. p \notin spoilt => ~Adjusting(p) /\ device[p] \o buf[p] = entered[p]
  <2>1. p \notin spoilt => \A u \in Threads : ~Sweeping(u, p)
    BY DEF StreamInv, AloneInv
  <2>2. p \notin spoilt => ~Adjusting(p)
    BY <2>1 DEF Adjusting, Sweeping, At
  <2> QED
    BY <2>2 DEF StreamInv, WholeInv
<1>6. \A u \in Threads \ {t} : ~Inside(u, p)
  BY InsideAlone
<1>7. WholeInv'
  <2>1. p \notin spoilt' => ~Adjusting(p)' /\ device'[p] \o buf'[p] = entered'[p]
    BY <1>4, <1>5
  <2> QED
    BY <1>4, <2>1 DEF StreamInv, WholeInv
<1>8. AloneInv'
  <2> SUFFICES ASSUME NEW r \in OPorts \ spoilt', NEW u \in Threads, Sweeping(u, r)', NEW v \in Threads
               PROVE  r \notin closed' /\ ~Inside(v, r)'
    BY DEF AloneInv
  <2>1. Sweeping(u, r) /\ r \notin spoilt
    BY <1>2, <1>3
  <2>2. r \notin closed /\ \A w \in Threads : ~Inside(w, r)
    BY <2>1 DEF StreamInv, AloneInv
  <2>3. r # p
    BY <2>2
  <2> QED
    BY <1>1, <2>2, <2>3
<1>9. ClosingInv'
  <2> SUFFICES ASSUME NEW r \in OPorts \ spoilt', NEW u \in Threads, Inside(u, r)', Top(u)'.at = "closing"
               PROVE  r \in error' \/ device'[r] = entered'[r]
    BY DEF ClosingInv
  <2>1. CASE u = t
    <3>1. r = p /\ call'[t] # <<>>
      BY <2>1 DEF Inside
    <3> QED
      BY <1>5, <2>1, <3>1
  <2>2. CASE u # t
    <3>1. Inside(u, r) /\ Top(u).at = "closing" /\ r # p
      BY <1>1, <1>6, <2>2
    <3>2. r \in error \/ device[r] = entered[r]
      BY <3>1 DEF StreamInv, ClosingInv
    <3> QED
      BY <3>1, <3>2
  <2> QED
    BY <2>1, <2>2
<1>10. OpenedInv'
  BY <1>1 DEF StreamInv, OpenedInv
<1>11. ClosedIsComplete'
  BY DEF StreamInv, ClosedIsComplete
<1> QED
  BY <1>7, <1>8, <1>9, <1>10, <1>11 DEF StreamInv

\* Taking the lock: a port that flush-all-ports is writing is spoilt.
LEMMA StreamLock ==
    ASSUME LockInv, StreamInv, NEW t \in Threads, Lock(t)
    PROVE  StreamInv'
<1>1. /\ call[t] # <<>> /\ Top(t)'.op = Top(t).op /\ Top(t)'.p = Top(t).p /\ Top(t).op \in LockOps
      /\ (\A u \in Threads \ {t} : call'[u] = call[u]) /\ Top(t)'.at = Top(t)'.op
  BY WorkTop DEF WorkStep
<1>2. UNCHANGED <<device, buf, entered, closed, error>> /\ spoilt \subseteq spoilt' /\ Top(t).at = "lock"
  BY DEF Lock, At
<1>3. Top(t)'.at \notin {"fa-adjust", "fa-write", "closing", "write", "store", "flush", "force"}
  BY <1>1 DEF LockOps, Reads
<1>4. ASSUME NEW p \in OPorts, Inside(t, p)', NEW u \in Threads, Sweeping(u, p)
      PROVE  p \in spoilt'
  <2>1. p = Top(t).p
    BY <1>1, <1>4 DEF Inside
  <2>2. call[u] # <<>> /\ Top(u).at \in {"fa-write", "fa-adjust"} /\ Top(u).p = p
    BY <1>4 DEF Sweeping
  <2>3. u # t /\ Top(u).op = "flush-all"
    BY <1>2, <2>2, TopFits, Stages DEF Fit
  <2>4. FlushingUnlocked(t, Top(t).p)
    BY <2>1, <2>2, <2>3 DEF FlushingUnlocked
  <2> QED
    BY <2>1, <2>4 DEF Lock
<1>5. ~At(t, "fa-adjust") /\ ~At(t, "fa-adjust")' /\ ~At(t, "fa-write")'
  BY <1>2, <1>3 DEF At
<1> QED
  BY <1>1, <1>2, <1>3, <1>4, <1>5, StreamQuiet

\* A put begins, a flush or the closing: only of a port that is open, or that has
\* an error.
LEMMA StreamBegin ==
    ASSUME LockInv, StreamInv, NEW t \in Threads, Put(t) \/ Putc(t) \/ FlushPort(t) \/ Close(t)
    PROVE  StreamInv'
<1>1. /\ call[t] # <<>> /\ Top(t)'.op = Top(t).op /\ Top(t)'.p = Top(t).p /\ Top(t).op \in LockOps
      /\ (\A u \in Threads \ {t} : call'[u] = call[u]) /\ UNCHANGED <<held, dead>>
      /\ Top(t).at \in {"put", "putc", "flush-port", "close"}
  BY WorkTop DEF WorkStep, Put, Putc, FlushPort, Close, At
<1>2. UNCHANGED <<device, buf, entered, closed, error, spoilt>>
  BY DEF Put, Putc, FlushPort, Close, streamVars
<1>3. /\ Top(t)'.at \in {"write", "flush", "store", "force", "closing", "unlock"}
      /\ Top(t)'.at \in {"write", "store", "flush", "force"} => Top(t).p \notin closed
      /\ Top(t)'.at = "closing" /\ Top(t).p \in OPorts => Top(t).p \in error
  <2>1. CASE Put(t) \/ Putc(t)
    <3>1. PICK f : Turns(t, f) /\ f.at \in {"write", "flush", "store"}
      BY <2>1, PutStep, PutcStep
    <3>2. Top(t)' = f /\ Top(t).p \notin closed
      BY <1>1, <2>1, <3>1, TurnsTop DEF Put, Putc
    <3> QED
      BY <3>1, <3>2
  <2>2. CASE FlushPort(t)
    <3>1. PICK f : Turns(t, f) /\ (f.at = "unlock" \/ (f.at = "force" /\ Top(t).p \notin closed))
      BY <2>2, FlushPortStep
    <3>2. Top(t)' = f
      BY <1>1, <3>1, TurnsTop
    <3> QED
      BY <3>1, <3>2
  <2>3. CASE Close(t)
    <3>1. PICK f : /\ Turns(t, f)
                   /\ \/ f.at = "unlock"
                      \/ f.at = "force" /\ Top(t).p \in OPorts /\ Top(t).p \notin closed
                      \/ f.at = "closing" /\ (Top(t).p \in OPorts => Top(t).p \in error)
      BY <2>3, CloseStep
    <3>2. Top(t)' = f
      BY <1>1, <3>1, TurnsTop
    <3> QED
      BY <3>1, <3>2
  <2> QED
    BY <2>1, <2>2, <2>3
<1>4. \A p : Inside(t, p)' => p = Top(t).p /\ Inside(t, p)
  BY <1>1 DEF Inside
<1>5. ~At(t, "fa-adjust") /\ ~At(t, "fa-adjust")' /\ ~At(t, "fa-write")'
  BY <1>1, <1>3 DEF At
<1> QED
  BY <1>1, <1>2, <1>3, <1>4, <1>5, StreamQuiet

\* The steps that leave, and those of flush-all-ports that do not write, or fail to.
QuietStep(t) ==
    \/ Unlock(t) \/ ClosedError(t) \/ PeekbClosedError(t) \/ FlushRelease(t) \/ FlushSetFlag(t)
    \/ FlushLinked(t) \/ Read(t) \/ LinkPorts(t) \/ LinkPorts2(t) \/ LinkPorts3(t)
    \/ LockHeld(t) \/ (\E p \in AllPorts : UnlockHeld(t, p))
    \/ Open(t) \/ FlushAllScan(t) \/ FlushAllFails(t) \/ FlushAllRestore(t)

\* They are not steps of the flusher of flush-all-ports, nor lead to one.
LEMMA QuietTop ==
    ASSUME LockInv, LockInv', NEW t \in Threads, QuietStep(t) \/ \E c \in MayCall[t] : Call(t, c[1], c[2])
    PROVE  ~At(t, "fa-adjust") /\ ~At(t, "fa-adjust")' /\ ~At(t, "fa-write")'
<1>1. CASE FlushAllScan(t)
  <2>1. call[t] # <<>> /\ Top(t).at = "flush-all" /\ Top(t).op = "flush-all" /\ UNCHANGED <<held, dead>>
    BY <1>1, ScanStep DEF FlushAllScan, At
  <2>2. CASE Advances(t, "fa-restore")
    <3>1. Top(t)'.at = "fa-restore"
      BY <2>1, <2>2, AdvancesTop
    <3> QED
      BY <2>1, <3>1 DEF At
  <2>3. ASSUME NEW s \in Slot, NEW f, Sweeps(t, s, f)
        PROVE  ~At(t, "fa-adjust") /\ ~At(t, "fa-adjust")' /\ ~At(t, "fa-write")'
    <3>1. Set(t, f) /\ Fit(f) /\ f.op = Top(t).op /\ f.op = "flush-all" /\ f.at = "fa-read"
      BY <2>1, <2>3 DEF Sweeps
    <3>2. Top(t)' = f
      BY <2>1, <3>1, SetFrame
    <3> QED
      BY <2>1, <3>1, <3>2 DEF At
  <2> QED
    BY <1>1, <2>2, <2>3, ScanStep
<1>2. CASE Open(t) \/ FlushAllFails(t) \/ FlushAllRestore(t)
  <2>1. /\ call[t] # <<>> /\ call' = [call EXCEPT ![t] = Tail(@)] /\ dead' = dead
        /\ Top(t).at \in {"open", "fa-write", "fa-restore"}
    BY <1>2 DEF Open, FlushAllFails, FlushAllRestore, At
  <2>2. Top(t).op # "flush-port"
    BY <2>1, TopFits, Stages DEF Fit
  <2>3. call'[t] = <<>>
    BY <2>1, <2>2, PopAlone
  <2> QED
    BY <2>1, <2>3 DEF At
<1>3. ASSUME NEW c \in MayCall[t], Call(t, c[1], c[2])
      PROVE  ~At(t, "fa-adjust") /\ ~At(t, "fa-adjust")' /\ ~At(t, "fa-write")'
  <2>1. call[t] = <<>> /\ \E f : Top(t)' = f /\ f.at \in {"lock", "open", "flush-all", "link-1"}
    BY <1>3, CallStep DEF Begins
  <2> QED
    BY <2>1 DEF At
<1>4. CASE CalmStep(t)
  <2>1. Calm(t) /\ Calm(t)'
    BY <1>4, CalmTop
  <2>2. /\ call[t] # <<>> => Top(t).at \notin {"fa-write", "fa-adjust"}
        /\ call'[t] # <<>> => Top(t)'.at \notin {"fa-write", "fa-adjust"}
    BY <2>1, CalmSaves, CalmSavesAfter
  <2> QED
    BY <2>2 DEF At
<1> QED
  BY <1>1, <1>2, <1>3, <1>4 DEF QuietStep, CalmStep

\* The flusher of flush-all-ports fails: before any byte was written, or the port is spoilt.
LEMMA AllFailsSpoils ==
    ASSUME LockInv, NEW t \in Threads, FlushAllFails(t)
    PROVE  /\ UNCHANGED <<buf, entered, closed>> /\ spoilt \subseteq spoilt' /\ error \subseteq error'
           /\ \A p \in OPorts \ spoilt' : device'[p] = device[p]
<1>1. PICK k \in Int : 0 <= k /\ WriteFails(Top(t).p, k)
  BY DEF FlushAllFails
<1>2. UNCHANGED <<buf, entered, closed>> /\ spoilt \subseteq spoilt' /\ error \subseteq error'
  BY <1>1 DEF FlushAllFails, WriteFails
<1>3. ASSUME NEW p \in OPorts \ spoilt'
      PROVE  device'[p] = device[p]
  <2>1. buf[p] \in Seq(Tags) /\ device[p] \in Seq(Tags)
    BY DEF LockInv, StreamTypes
  <2>2. p # Top(t).p => device'[p] = device[p]
    BY <1>1 DEF WriteFails, LockInv, StreamTypes
  <2>3. p = Top(t).p => k = 0
    BY <1>1 DEF WriteFails
  <2>4. device' = [device EXCEPT ![Top(t).p] = @ \o SubSeq(buf[Top(t).p], 1, k)] /\ DOMAIN device = OPorts
    BY <1>1 DEF WriteFails, LockInv, StreamTypes
  <2>5. p = Top(t).p => device'[p] = device[p] \o SubSeq(buf[p], 1, k)
    BY <2>4
  <2>6. SubSeq(buf[p], 1, 0) = <<>> /\ device[p] \o <<>> = device[p]
    BY <2>1, SubSeqEmpty, ConcatEmptySeq
  <2> QED
    BY <2>2, <2>3, <2>5, <2>6
<1> QED
  BY <1>2, <1>3

\* They write nothing but to a spoilt port, and t is outside afterwards.
LEMMA StreamLeave ==
    ASSUME LockInv, LockInv', StreamInv, NEW t \in Threads,
           QuietStep(t) \/ \E c \in MayCall[t] : Call(t, c[1], c[2])
    PROVE  StreamInv'
<1>1. Outside(t)' /\ \A u \in Threads \ {t} : call'[u] = call[u]
  BY LeaveOutside DEF QuietStep, LeaveStep
<1>2. ~At(t, "fa-adjust") /\ ~At(t, "fa-adjust")' /\ ~At(t, "fa-write")'
  BY QuietTop
<1>3. /\ UNCHANGED <<buf, entered, closed>> /\ spoilt \subseteq spoilt' /\ error \subseteq error'
      /\ \A p \in OPorts \ spoilt' : device'[p] = device[p]
  <2>1. CASE Unlock(t) \/ ClosedError(t) \/ PeekbClosedError(t) \/ FlushRelease(t) \/ FlushSetFlag(t)
    BY <2>1 DEF Unlock, ClosedError, PeekbClosedError, FlushRelease, FlushSetFlag, streamVars
  <2>2. CASE \/ FlushLinked(t) \/ Read(t) \/ LinkPorts(t) \/ LinkPorts2(t) \/ LinkPorts3(t) \/ LockHeld(t)
             \/ \E p \in AllPorts : UnlockHeld(t, p)
    BY <2>2 DEF FlushLinked, Read, LinkPorts, LinkPorts2, LinkPorts3, LockHeld, UnlockHeld, streamVars
  <2>3. CASE Open(t) \/ FlushAllScan(t) \/ FlushAllRestore(t)
    BY <2>3 DEF Open, FlushAllScan, FlushAllRestore, streamVars
  <2>4. CASE \E c \in MayCall[t] : Call(t, c[1], c[2])
    BY <2>4 DEF Call, streamVars
  <2>5. CASE FlushAllFails(t)
    BY <2>5, AllFailsSpoils
  <2> QED
    BY <2>1, <2>2, <2>3, <2>4, <2>5 DEF QuietStep
<1>4. \A p \in OPorts : ~Inside(t, p)'
  BY <1>1 DEF Outside
<1> QED
  BY <1>1, <1>2, <1>3, <1>4, StreamQuiet

\* unregister_buffered_port, and the closed flag: nobody else is inside.
LEMMA StreamClosing ==
    ASSUME LockInv, HoldInv, StreamInv, NEW t \in Threads, Closing(t)
    PROVE  StreamInv'
<1> DEFINE p == Top(t).p
<1>1. /\ call[t] # <<>> /\ call'[t] # <<>> /\ Top(t)'.op = Top(t).op /\ Top(t)'.p = p /\ Top(t).op \in LockOps
      /\ (\A u \in Threads \ {t} : call'[u] = call[u]) /\ UNCHANGED <<held, dead>> /\ Top(t).at = "closing"
  BY WorkTop DEF WorkStep, Closing, At
<1>2. UNCHANGED <<device, buf, entered, error, spoilt>> /\ closed' = closed \cup {p}
  BY DEF Closing, streamVars
<1>3. Top(t)'.at = "unlock"
  BY <1>1, ClosingStep, AdvancesTop
<1>4. Inside(t, p)
  BY <1>1 DEF Inside
<1> HIDE DEF p
<1>5. p \in OPorts => \A u \in Threads \ {t} : ~Inside(u, p)
  BY <1>4, InsideAlone
<1>6. \A u \in Threads \ {t} : Top(u)' = Top(u) /\ \A r : Inside(u, r)' <=> Inside(u, r)
  BY <1>1, OthersInside
<1>7. \A u \in Threads \ {t} : /\ At(u, "fa-adjust")' <=> At(u, "fa-adjust")
                               /\ \A r : Sweeping(u, r)' <=> Sweeping(u, r)
  BY <1>1, OthersSweeping
<1>8. ~At(t, "fa-adjust") /\ ~At(t, "fa-adjust")' /\ \A r : ~Sweeping(t, r)'
  BY <1>1, <1>3 DEF At, Sweeping
<1>9. \A r : Adjusting(r)' <=> Adjusting(r)
  BY <1>6, <1>7, <1>8 DEF Adjusting
<1>10. \A r : Inside(t, r)' => r = p
  BY <1>1 DEF Inside
<1>11. WholeInv'
  BY <1>2, <1>9 DEF StreamInv, WholeInv
<1>12. AloneInv'
  <2> SUFFICES ASSUME NEW r \in OPorts \ spoilt', NEW u \in Threads, Sweeping(u, r)', NEW v \in Threads
               PROVE  r \notin closed' /\ ~Inside(v, r)'
    BY DEF AloneInv
  <2>1. Sweeping(u, r) /\ r \notin spoilt
    BY <1>2, <1>7, <1>8
  <2>2. r \notin closed /\ \A w \in Threads : ~Inside(w, r)
    BY <2>1 DEF StreamInv, AloneInv
  <2>3. r # p
    BY <1>4, <2>2
  <2> QED
    BY <1>2, <1>6, <1>10, <2>2, <2>3
<1>13. ClosingInv'
  BY <1>2, <1>3, <1>6 DEF StreamInv, ClosingInv
<1>14. OpenedInv'
  <2> SUFFICES ASSUME NEW r \in OPorts, NEW u \in Threads, Inside(u, r)',
                      Top(u)'.at \in {"write", "store", "flush", "force"}
               PROVE  r \notin closed'
    BY DEF OpenedInv
  <2>1. u # t
    BY <1>3
  <2>2. Inside(u, r) /\ r # p /\ Top(u).at \in {"write", "store", "flush", "force"}
    BY <1>5, <1>6, <2>1
  <2> QED
    BY <1>2, <2>2 DEF StreamInv, OpenedInv
<1>15. ClosedIsComplete'
  <2>1. p \in OPorts \ (error \cup spoilt) => device[p] = entered[p]
    BY <1>1, <1>4 DEF StreamInv, ClosingInv
  <2> QED
    BY <1>2, <2>1 DEF StreamInv, ClosedIsComplete
<1> QED
  BY <1>11, <1>12, <1>13, <1>14, <1>15 DEF StreamInv

\* Bytes one after the other.
LEMMA Joined == \A a, b, c \in Seq(Tags) : (a \o b) \o c = a \o (b \o c)
<1>1. ASSUME NEW a \in Seq(Tags), NEW b \in Seq(Tags), NEW c \in Seq(Tags)
      PROVE  (a \o b) \o c = a \o (b \o c)
  BY <1>1, ConcatAssociative
<1> QED
  BY <1>1

\* What adds nothing is empty.
LEMMA JoinedEmpty == \A a, b \in Seq(Tags) : a \o b = a => b = <<>>
<1>1. ASSUME NEW a \in Seq(Tags), NEW b \in Seq(Tags)
      PROVE  a \o b = a <=> b = <<>>
  BY ConcatEqualIffEmpty
<1> QED
  BY <1>1

\* A flush, of all there is or of a part.
LEMMA StreamFlush ==
    ASSUME LockInv, HoldInv, StreamInv, NEW t \in Threads, NEW forcep \in BOOLEAN, Flush(t, forcep)
    PROVE  StreamInv'
<1> DEFINE p == Top(t).p
<1>1. /\ call[t] # <<>> /\ call'[t] # <<>> /\ Top(t)'.p = p /\ Top(t).op \in LockOps
      /\ (\A u \in Threads \ {t} : call'[u] = call[u]) /\ UNCHANGED <<held, dead>>
  <2>1. WorkStep(t)
    BY DEF WorkStep
  <2> QED
    BY <2>1, WorkTop
<1>2. /\ p \in OPorts /\ Advances(t, Top(t).next) /\ Top(t).at = IF forcep THEN "force" ELSE "flush"
  BY FlushStep
<1>3. Inside(t, p) /\ p \notin closed
  BY <1>1, <1>2 DEF Inside, StreamInv, OpenedInv
<1>4. UNCHANGED <<entered, closed, spoilt, error>>
  BY DEF Flush
<1>5. PICK k \in Written(p, forcep) : FlushDone(t, p, k)
  BY DEF Flush
<1>6. Top(t)'.at = Top(t).next /\ Top(t).next \notin {"fa-write", "fa-adjust"} /\ (Top(t).next = "closing" => forcep)
  <2>1. Top(t)'.at = Top(t).next
    BY <1>1, <1>2, AdvancesTop
  <2>2. /\ Top(t).at = "flush" => Top(t).next \in {"write", "store", "unlock"}
        /\ Top(t).at = "force" => Top(t).next \in {"unlock", "release", "closing"}
    BY <1>1, TopFits, Stages DEF Fit
  <2> QED
    BY <1>2, <2>1, <2>2
<1>7. \A r \in OPorts : Inside(t, r)' => r = p
  BY <1>1 DEF Inside
<1>8. buf[p] \in Seq(Tags) /\ device[p] \in Seq(Tags) /\ entered[p] \in Seq(Tags)
  BY <1>2 DEF LockInv, StreamTypes
<1>9. k \in 0..Len(buf[p]) /\ Len(buf[p]) \in Nat
  BY <1>2, <1>5, <1>8, WrittenPart, LenProperties
<1>10. /\ device'[p] = device[p] \o SubSeq(buf[p], 1, k) /\ buf'[p] = SubSeq(buf[p], k + 1, Len(buf[p]))
       /\ \A r \in OPorts \ {p} : device'[r] = device[r] /\ buf'[r] = buf[r]
  BY <1>2, <1>5 DEF FlushDone, LockInv, StreamTypes
<1> HIDE DEF p
<1>11. device'[p] \o buf'[p] = device[p] \o buf[p]
  <2>1. SubSeq(buf[p], 1, k) \in Seq(Tags) /\ SubSeq(buf[p], k + 1, Len(buf[p])) \in Seq(Tags)
    BY <1>8, <1>9, Parts
  <2>2. SubSeq(buf[p], 1, k) \o SubSeq(buf[p], k + 1, Len(buf[p])) = buf[p]
    <3>1. 1 \in 1..Len(buf[p]) + 1 /\ k \in (1 - 1)..Len(buf[p]) /\ Len(buf[p]) \in k..Len(buf[p])
      BY <1>9
    <3>2. SubSeq(buf[p], 1, k) \o SubSeq(buf[p], k + 1, Len(buf[p])) = SubSeq(buf[p], 1, Len(buf[p]))
      BY <1>8, <3>1, ConcatAdjacentSubSeq
    <3> QED
      BY <1>8, <3>2, SubSeqFull
  <2>3. (device[p] \o SubSeq(buf[p], 1, k)) \o SubSeq(buf[p], k + 1, Len(buf[p]))
            = device[p] \o (SubSeq(buf[p], 1, k) \o SubSeq(buf[p], k + 1, Len(buf[p])))
    BY <1>8, <2>1, Joined, Zenon
  <2> QED
    BY <1>10, <2>2, <2>3
<1>12. Top(t)'.at = "closing" => device'[p] = device[p] \o buf[p]
  <2> SUFFICES ASSUME Top(t)'.at = "closing" PROVE device'[p] = device[p] \o buf[p]
    OBVIOUS
  <2>1. k = Len(buf[p])
    BY <1>5, <1>6 DEF Written
  <2>2. SubSeq(buf[p], 1, k) = buf[p]
    BY <1>8, <2>1, SubSeqFull
  <2> QED
    BY <1>10, <2>2
<1> QED
  BY <1>1, <1>2, <1>3, <1>4, <1>6, <1>7, <1>10, <1>11, <1>12, StreamWork

\* Bytes go into the buffer.
LEMMA StreamStore ==
    ASSUME LockInv, HoldInv, StreamInv, NEW t \in Threads, Write(t) \/ Store(t)
    PROVE  StreamInv'
<1> DEFINE p == Top(t).p
<1>1. /\ call[t] # <<>> /\ call'[t] # <<>> /\ Top(t)'.p = p /\ Top(t).op \in LockOps
      /\ (\A u \in Threads \ {t} : call'[u] = call[u]) /\ UNCHANGED <<held, dead>>
  BY WorkTop DEF WorkStep
<1>2. p \in OPorts /\ Top(t).at \in {"write", "store"} /\ Top(t)'.at \in {"flush", "force", "unlock"}
  <2>1. p \in OPorts
    BY WriteStep, StoreStep
  <2>2. PICK f : Turns(t, f) /\ f.at \in {"flush", "force", "unlock"}
    BY WriteStep, StoreStep
  <2>3. Top(t)' = f
    BY <1>1, <2>2, TurnsTop
  <2> QED
    BY <2>1, <2>2, <2>3 DEF Write, Store, At
<1>3. Inside(t, p) /\ p \notin closed
  BY <1>1, <1>2 DEF Inside, StreamInv, OpenedInv
<1>4. UNCHANGED <<device, closed, spoilt, error>>
  BY DEF Write, Store
<1>5. PICK b \in Seq(Tags) : PutInto(p, b)
  <2>1. CASE Write(t)
    <3>1. Fitting(t) \in Seq(Tags)
      BY <1>1, <1>2, FittingSeq
    <3> QED
      BY <2>1, <3>1 DEF Write
  <2>2. CASE Store(t)
    <3>1. Top(t).n \in Int /\ Top(t).q \in Tags
      BY <1>1, TopFacts DEF Frames
    <3>2. PutBytes(Top(t).n, Top(t).q) \in Seq(Tags)
      BY <3>1, BytesSeq
    <3> QED
      BY <2>2, <3>2 DEF Store
  <2> QED
    BY <2>1, <2>2
<1>6. \A r \in OPorts : Inside(t, r)' => r = p
  BY <1>1 DEF Inside
<1>7. buf[p] \in Seq(Tags) /\ device[p] \in Seq(Tags) /\ entered[p] \in Seq(Tags)
  BY <1>2 DEF LockInv, StreamTypes
<1>8. /\ buf'[p] = buf[p] \o b /\ entered'[p] = entered[p] \o b
      /\ \A r \in OPorts \ {p} : entered'[r] = entered[r] /\ buf'[r] = buf[r]
  BY <1>2, <1>5 DEF PutInto, LockInv, StreamTypes
<1> HIDE DEF p
<1>9. device[p] \o buf[p] = entered[p] => device'[p] \o buf'[p] = entered'[p]
  <2>1. (device[p] \o buf[p]) \o b = device[p] \o (buf[p] \o b)
    BY <1>5, <1>7, Joined, Zenon
  <2> QED
    BY <1>4, <1>8, <2>1
<1> QED
  BY <1>1, <1>2, <1>3, <1>4, <1>6, <1>8, <1>9, StreamWork

\* write(2) fails: before any byte was written, or the port is spoilt.
LEMMA StreamFails ==
    ASSUME LockInv, LockInv', HoldInv, StreamInv, NEW t \in Threads, FlushFails(t)
    PROVE  StreamInv'
<1> DEFINE p == Top(t).p
<1>1. /\ call[t] # <<>> /\ Top(t).op \in LockOps /\ p \in OPorts /\ Top(t).at \in {"force", "flush"}
      /\ call' = [call EXCEPT ![t] = <<>>]
  BY ErrorMoves DEF Fail
<1>2. call'[t] = <<>> /\ \A u \in Threads \ {t} : call'[u] = call[u]
  BY <1>1 DEF LockInv
<1>3. Inside(t, p) /\ p \notin closed
  BY <1>1 DEF Inside, StreamInv, OpenedInv
<1>4. UNCHANGED <<buf, entered, closed>> /\ spoilt \subseteq spoilt' /\ error \subseteq error'
  BY DEF FlushFails, WriteFails
<1>5. PICK k \in 0..(Len(buf[p]) - 1) : /\ device' = [device EXCEPT ![p] = @ \o SubSeq(buf[p], 1, k)]
                                        /\ spoilt' = IF k > 0 THEN spoilt \cup {p} ELSE spoilt
  BY DEF FlushFails, WriteFails
<1>6. buf[p] \in Seq(Tags) /\ device[p] \in Seq(Tags)
  BY <1>1 DEF LockInv, StreamTypes
<1>7. /\ device'[p] = device[p] \o SubSeq(buf[p], 1, k)
      /\ \A r \in OPorts \ {p} : device'[r] = device[r]
  BY <1>1, <1>5 DEF LockInv, StreamTypes
<1> HIDE DEF p
<1>8. p \notin spoilt' => device'[p] = device[p]
  <2> SUFFICES ASSUME p \notin spoilt' PROVE device'[p] = device[p]
    OBVIOUS
  <2>1. k = 0
    BY <1>5
  <2>2. SubSeq(buf[p], 1, k) = <<>>
    BY <2>1, SubSeqEmpty
  <2>3. device[p] \o <<>> = device[p]
    BY <1>6, ConcatEmptySeq
  <2> QED
    BY <1>7, <2>2, <2>3
<1>9. \A r \in OPorts : ~Inside(t, r)'
  BY <1>2 DEF Inside
<1> QED
  BY <1>1, <1>2, <1>3, <1>4, <1>7, <1>8, <1>9, StreamWork

\* flush-all-ports looks at a port, and goes on with its flusher only if there is
\* something in the buffer: then the port is not closed.
LEMMA StreamRead ==
    ASSUME LockInv, LockInv', TableInv, HoldInv, StreamInv, NEW t \in Threads, FlushAllRead(t)
    PROVE  StreamInv'
<1> DEFINE p == Top(t).p
<1>1. /\ call[t] # <<>> /\ Top(t).at = "fa-read" /\ Top(t).op = "flush-all" /\ p \in OPorts
      /\ UNCHANGED <<held, dead>>
  BY SweepStep DEF FlushAllRead, At
<1>2. UNCHANGED <<device, buf, entered, closed, error>> /\ spoilt \subseteq spoilt'
  BY DEF FlushAllRead
<1>3. Outside(t)' /\ \A u \in Threads \ {t} : call'[u] = call[u]
  BY LeaveOutside DEF LeaveStep
<1>4. PICK a \in {"flush-all", "fa-write"} : Advances(t, a)
  BY SweepStep
<1>5. call'[t] # <<>> /\ Top(t)'.at = a /\ Top(t)'.p = p
  BY <1>1, <1>4, AdvancesTop
<1>6. CASE a = "flush-all"
  <2>1. ~At(t, "fa-adjust") /\ ~At(t, "fa-adjust")' /\ ~At(t, "fa-write")'
    BY <1>1, <1>5, <1>6 DEF At
  <2>2. \A r \in OPorts : ~Inside(t, r)'
    BY <1>3 DEF Outside
  <2> QED
    BY <1>2, <1>3, <2>1, <2>2, StreamQuiet
<1>7. CASE a = "fa-write"
  <2>1. /\ p \notin error /\ buf[p] # <<>>
        /\ spoilt' = IF lock[p].owner \in {NoThread, t} \cup dead THEN spoilt ELSE spoilt \cup {p}
    <3>1. p \in error \/ buf[p] = <<>> => Goto(t, "flush-all")
      BY DEF FlushAllRead
    <3>2. Goto(t, "flush-all") => Top(t)'.at = "flush-all"
      BY <1>1, TopFacts DEF Goto, Set, Top, LockInv, Frames
    <3> QED
      BY <1>5, <1>7, <3>1, <3>2 DEF FlushAllRead
  <2> HIDE DEF p
  <2>2. \A u \in Threads \ {t} : Top(u)' = Top(u) /\ \A r : Inside(u, r)' <=> Inside(u, r)
    BY <1>3, OthersInside
  <2>3. \A u \in Threads \ {t} : /\ At(u, "fa-adjust")' <=> At(u, "fa-adjust")
                                 /\ \A r : Sweeping(u, r)' <=> Sweeping(u, r)
    BY <1>3, OthersSweeping
  <2>4. ~At(t, "fa-adjust") /\ ~At(t, "fa-adjust")' /\ \A r : Sweeping(t, r)' => r = p
    BY <1>1, <1>5, <1>7 DEF At, Sweeping
  <2>5. \A r : Adjusting(r)' <=> Adjusting(r)
    BY <2>2, <2>3, <2>4 DEF Adjusting
  <2>6. p \notin spoilt' => \A u \in Threads : ~Inside(u, p)
    <3> SUFFICES ASSUME p \notin spoilt', NEW u \in Threads, Inside(u, p) PROVE FALSE
      OBVIOUS
    <3>1. lock[p].owner = u /\ u \notin dead
      BY <1>1, InsideOwns
    <3>2. u # t
      BY <1>1 DEF Inside, LockOps, Reads
    <3>3. lock[p].owner \in {NoThread, t} \cup dead
      BY <2>1
    <3> QED
      BY <3>1, <3>2, <3>3, PortsAssumption
  <2>7. p \notin spoilt' => p \notin closed
    <3> SUFFICES ASSUME p \notin spoilt', p \in closed PROVE FALSE
      OBVIOUS
    <3>1. p \notin spoilt /\ device[p] = entered[p]
      BY <1>1, <1>2, <2>1 DEF StreamInv, ClosedIsComplete
    <3>2. ~Adjusting(p)
      <4>1. Handling(t, p)
        BY <1>1 DEF Handling, p
      <4>2. \A u \in Threads : At(u, "fa-adjust") /\ Top(u).p = p => Handling(u, p) /\ u # t
        BY <2>4 DEF Handling, At
      <4> QED
        BY <1>1, <4>1, <4>2, HandlingAlone DEF Adjusting
    <3>3. device[p] \o buf[p] = device[p]
      BY <1>1, <3>1, <3>2 DEF StreamInv, WholeInv
    <3>4. device[p] \in Seq(Tags) /\ buf[p] \in Seq(Tags)
      BY <1>1 DEF LockInv, StreamTypes
    <3> QED
      BY <2>1, <3>3, <3>4, JoinedEmpty
  <2>8. WholeInv'
    BY <1>2, <2>5 DEF StreamInv, WholeInv
  <2>9. AloneInv'
    <3> SUFFICES ASSUME NEW r \in OPorts \ spoilt', NEW u \in Threads, Sweeping(u, r)'
                 PROVE  r \notin closed' /\ \A v \in Threads : ~Inside(v, r)'
      BY DEF AloneInv
    <3>1. r \notin closed /\ \A v \in Threads : ~Inside(v, r)
      <4>1. CASE u = t
        BY <2>4, <2>6, <2>7, <4>1
      <4>2. CASE u # t
        BY <1>2, <2>3, <4>2 DEF StreamInv, AloneInv
      <4> QED
        BY <4>1, <4>2
    <3>2. \A v \in Threads : Inside(v, r)' => Inside(v, r)
      BY <1>3, <2>2 DEF Outside
    <3> QED
      BY <1>2, <3>1, <3>2
  <2>10. ClosingInv'
    BY <1>2, <1>3, <2>2 DEF StreamInv, ClosingInv, Outside
  <2>11. OpenedInv'
    BY <1>2, <1>3, <2>2 DEF StreamInv, OpenedInv, Outside
  <2>12. ClosedIsComplete'
    BY <1>2 DEF StreamInv, ClosedIsComplete
  <2> QED
    BY <2>8, <2>9, <2>10, <2>11, <2>12 DEF StreamInv
<1> QED
  BY <1>4, <1>6, <1>7

\* The flusher writes the buffer out, and then the buffer is emptied.
LEMMA StreamSweep ==
    ASSUME LockInv, LockInv', TableInv, HoldInv, StreamInv, NEW t \in Threads, FlushAllWrite(t) \/ FlushAllAdjust(t)
    PROVE  StreamInv'
<1> DEFINE p == Top(t).p
<1>1. /\ call[t] # <<>> /\ p \in OPorts /\ UNCHANGED <<held, dead>>
      /\ Top(t).at = IF FlushAllWrite(t) THEN "fa-write" ELSE "fa-adjust"
  BY SweepStep DEF FlushAllWrite, FlushAllAdjust, At
<1>2. UNCHANGED <<entered, closed, error, spoilt>>
  BY DEF FlushAllWrite, FlushAllAdjust
<1>3. Outside(t)' /\ \A u \in Threads \ {t} : call'[u] = call[u]
  BY LeaveOutside DEF LeaveStep
<1>4. /\ call'[t] # <<>> /\ Top(t)'.p = p
      /\ Top(t)'.at = IF FlushAllWrite(t) THEN "fa-adjust" ELSE "flush-all"
  BY <1>1, SweepStep, AdvancesTop
<1>5. /\ \A r \in OPorts \ {p} : device'[r] = device[r] /\ buf'[r] = buf[r]
      /\ FlushAllWrite(t) => device'[p] = device[p] \o buf[p]
      /\ ~FlushAllWrite(t) => device'[p] = device[p] /\ buf'[p] = <<>>
  BY <1>1 DEF FlushAllWrite, FlushAllAdjust, LockInv, StreamTypes
<1>6. Sweeping(t, p) /\ Handling(t, p)
  BY <1>1 DEF Sweeping, Handling
<1> HIDE DEF p
<1>7. \A u \in Threads : At(u, "fa-adjust") /\ Top(u).p = p => u = t
  BY <1>1, <1>6, HandlingAlone DEF Handling, At
<1>8. \A u \in Threads \ {t} : Top(u)' = Top(u) /\ \A r : Inside(u, r)' <=> Inside(u, r)
  BY <1>3, OthersInside
<1>9. \A u \in Threads \ {t} : /\ At(u, "fa-adjust")' <=> At(u, "fa-adjust")
                               /\ \A r : Sweeping(u, r)' <=> Sweeping(u, r)
  BY <1>3, OthersSweeping
<1>10. \A r : Sweeping(t, r)' => r = p
  BY <1>4 DEF Sweeping
<1>11. At(t, "fa-adjust")' <=> FlushAllWrite(t)
  BY <1>4 DEF At
<1>12. At(t, "fa-adjust") <=> ~FlushAllWrite(t)
  BY <1>1 DEF At
<1>13. Top(t).p = p /\ Top(t)'.p = p
  BY <1>4 DEF p
<1>14. \A r : r # p => (Adjusting(r)' <=> Adjusting(r))
  BY <1>8, <1>9, <1>13 DEF Adjusting
<1>15. (\A r : r = p => (Adjusting(r)' <=> FlushAllWrite(t))) /\ (Adjusting(p) <=> ~FlushAllWrite(t))
  BY <1>7, <1>8, <1>9, <1>11, <1>12, <1>13 DEF Adjusting
<1>16. p \notin spoilt => p \notin closed /\ \A u \in Threads : ~Inside(u, p)
  BY <1>1, <1>6 DEF StreamInv, AloneInv
<1>17. WholeInv'
  <2>1. ASSUME NEW r \in OPorts \ spoilt', r = p
        PROVE  /\ Adjusting(r)' => device'[r] = entered'[r]
               /\ ~Adjusting(r)' => device'[r] \o buf'[r] = entered'[r]
    <3>1. CASE FlushAllWrite(t)
      <4>1. device[p] \o buf[p] = entered[p]
        BY <1>1, <1>2, <1>15, <2>1, <3>1 DEF StreamInv, WholeInv
      <4> QED
        BY <1>2, <1>5, <1>15, <2>1, <3>1, <4>1
    <3>2. CASE ~FlushAllWrite(t)
      <4>1. device[p] = entered[p]
        BY <1>1, <1>2, <1>15, <2>1, <3>2 DEF StreamInv, WholeInv
      <4>2. device[p] \in Seq(Tags)
        BY <1>1 DEF LockInv, StreamTypes
      <4>3. device[p] \o <<>> = device[p]
        BY <4>2, ConcatEmptySeq
      <4> QED
        BY <1>2, <1>5, <1>15, <2>1, <3>2, <4>1, <4>3
    <3> QED
      BY <3>1, <3>2
  <2>2. ASSUME NEW r \in OPorts \ spoilt', r # p
        PROVE  /\ Adjusting(r)' => device'[r] = entered'[r]
               /\ ~Adjusting(r)' => device'[r] \o buf'[r] = entered'[r]
    BY <1>2, <1>5, <1>14, <2>2 DEF StreamInv, WholeInv
  <2> QED
    BY <2>1, <2>2 DEF WholeInv
<1>18. AloneInv'
  <2> SUFFICES ASSUME NEW r \in OPorts \ spoilt', NEW u \in Threads, Sweeping(u, r)'
               PROVE  r \notin closed' /\ \A v \in Threads : ~Inside(v, r)'
    BY DEF AloneInv
  <2>1. r \notin closed /\ \A v \in Threads : ~Inside(v, r)
    <3>1. CASE u = t
      BY <1>2, <1>10, <1>16, <3>1
    <3>2. CASE u # t
      BY <1>2, <1>9, <3>2 DEF StreamInv, AloneInv
    <3> QED
      BY <3>1, <3>2
  <2>2. \A v \in Threads : Inside(v, r)' => Inside(v, r)
    BY <1>3, <1>8 DEF Outside
  <2> QED
    BY <1>2, <2>1, <2>2
<1>19. ClosingInv'
  <2> SUFFICES ASSUME NEW r \in OPorts \ spoilt', NEW u \in Threads, Inside(u, r)', Top(u)'.at = "closing"
               PROVE  r \in error' \/ device'[r] = entered'[r]
    BY DEF ClosingInv
  <2>1. u # t
    BY <1>3 DEF Outside
  <2>2. Inside(u, r) /\ Top(u).at = "closing"
    BY <1>8, <2>1
  <2>3. r # p
    BY <1>2, <1>16, <2>2
  <2> QED
    BY <1>2, <1>5, <2>2, <2>3 DEF StreamInv, ClosingInv
<1>20. OpenedInv'
  BY <1>2, <1>3, <1>8 DEF StreamInv, OpenedInv, Outside
<1>21. ClosedIsComplete'
  BY <1>2, <1>5, <1>16 DEF StreamInv, ClosedIsComplete
<1> QED
  BY <1>17, <1>18, <1>19, <1>20, <1>21 DEF StreamInv

\* StreamInv is kept by every step.
LEMMA StreamStep == LockInv /\ LockInv' /\ TableInv /\ HoldInv /\ StreamInv /\ [Next]_vars => StreamInv'
<1> SUFFICES ASSUME LockInv, LockInv', TableInv, HoldInv, StreamInv, [Next]_vars PROVE StreamInv'
  OBVIOUS
<1>1. ASSUME NEW t \in Threads, WorkStep(t)
      PROVE  StreamInv'
  <2>1. CASE Lock(t)
    BY <2>1, StreamLock
  <2>2. CASE Flush(t, TRUE) \/ Flush(t, FALSE)
    BY <2>2, StreamFlush
  <2>3. CASE Put(t) \/ Putc(t) \/ FlushPort(t) \/ Close(t)
    BY <2>3, StreamBegin
  <2>4. CASE Write(t) \/ Store(t)
    BY <2>4, StreamStore
  <2>5. CASE Closing(t)
    BY <2>5, StreamClosing
  <2> QED
    BY <1>1, <2>1, <2>2, <2>3, <2>4, <2>5 DEF WorkStep
<1>2. ASSUME NEW t \in Threads, LeaveStep(t) \/ \E c \in MayCall[t] : Call(t, c[1], c[2])
      PROVE  StreamInv'
  <2>1. CASE QuietStep(t) \/ \E c \in MayCall[t] : Call(t, c[1], c[2])
    BY <2>1, StreamLeave
  <2>2. CASE FlushFails(t)
    BY <2>2, StreamFails
  <2>3. CASE FlushAllRead(t)
    BY <2>3, StreamRead
  <2>4. CASE FlushAllWrite(t) \/ FlushAllAdjust(t)
    BY <2>4, StreamSweep
  <2> QED
    BY <1>2, <2>1, <2>2, <2>3, <2>4 DEF LeaveStep, QuietStep
<1>3. CASE UNCHANGED <<call, device, buf, entered, closed, error, spoilt>>
  BY <1>3 DEF StreamInv, WholeInv, AloneInv, ClosingInv, OpenedInv, ClosedIsComplete,
              Adjusting, Sweeping, Inside, At, Top
<1>4. ASSUME NEW t \in Threads, Terminate(t)
      PROVE  UNCHANGED <<call, device, buf, entered, closed, error, spoilt>>
  BY <1>4 DEF Terminate, streamVars
<1>5. UNCHANGED vars => UNCHANGED <<call, device, buf, entered, closed, error, spoilt>>
  BY DEF vars
<1> QED
  BY <1>1, <1>2, <1>3, <1>4, <1>5, StepKinds DEF Next

\* It holds at the beginning, when nothing has been written.
LEMMA StreamInit == Init => StreamInv
<1> SUFFICES ASSUME Init PROVE StreamInv
  OBVIOUS
<1>1. /\ \A p \in OPorts : device[p] = <<>> /\ buf[p] = <<>> /\ entered[p] = <<>>
      /\ \A t \in Threads : call[t] = <<>>
      /\ closed = {}
  BY DEF Init
<1>2. <<>> \o <<>> = <<>>
  BY ConcatEmptySeq
<1>3. WholeInv
  BY <1>1, <1>2 DEF WholeInv
<1>4. AloneInv /\ ClosingInv /\ OpenedInv /\ ClosedIsComplete
  BY <1>1 DEF AloneInv, ClosingInv, OpenedInv, ClosedIsComplete, Sweeping, Inside
<1> QED
  BY <1>3, <1>4 DEF StreamInv

\* In every reachable state flush-all-ports is alone with an open port while it
\* writes its buffer, or the port is spoilt; who writes to a port has it locked, and
\* it is open.
THEOREM StreamInvariance == Spec => [](LockInv /\ TableInv /\ HoldInv /\ StreamInv)
<1>1. Init => LockInv /\ TableInv /\ HoldInv /\ StreamInv
  BY LockInvInit, TableInit, HoldInit, StreamInit
<1>2. (LockInv /\ TableInv /\ HoldInv /\ StreamInv) /\ [Next]_vars => (LockInv /\ TableInv /\ HoldInv /\ StreamInv)'
  <2>1. LockInv /\ [Next]_vars => LockInv'
    BY LockInvStep
  <2> QED
    BY <2>1, TableStep, HoldStep, StreamStep
<1> QED
  BY <1>1, <1>2, PTL DEF Spec

\* Everything that was put into the buffer of an output port is on the device or
\* still in the buffer, in order and once, and on the device once the port is closed,
\* through short writes, errors, closing and other threads: except for a port that
\* flush-all-ports has flushed while another thread was using it, or whose device
\* failed between two writes of one flush.
THEOREM StreamsAreExact == Spec => []StreamExact
<1>1. StreamInv => StreamExact
  BY DEF StreamInv, WholeInv, Adjusting, StreamExact
<1> QED
  BY <1>1, StreamInvariance, PTL

-----------------------------------------------------------------------------
(* Reading.                                                                    *)

\* What an input port may be like.
Byte == 1..Len(Follows)
Inputs == [pos : 0..Len(Follows), buf : Seq(Byte), scratch : Seq(Byte), ungotten : Seq(Byte),
           eof : BOOLEAN, got : Seq(Byte), mangled : BOOLEAN]
Sized(ip) == ip \in Inputs /\ Len(ip.buf) <= InputSize

\* Nothing is pushed back; there is one place where something is.
Bare(ip) == ip.scratch = <<>> /\ ip.ungotten = <<>>
Clean(ip) == ip.scratch = <<>> \/ ip.ungotten = <<>>

\* The bytes of the device after the first m, up to n.
Span(m, n) == [j \in 1..(n - m) |-> m + j]

\* From port a, with the bytes x in hand, to port b with y: nothing is lost, and what
\* is new comes from the device.
Reach(a, x, b, y) ==
    /\ Sized(b) /\ y \in Seq(Byte) /\ b.got = a.got /\ b.mangled = a.mangled /\ a.pos <= b.pos
    /\ y \o Pending(b) = (x \o Pending(a)) \o Span(a.pos, b.pos)

\* The device.
LEMMA DeviceFacts ==
    /\ Len(Follows) \in Nat /\ InputSize \in Nat /\ InputSize > 0
    /\ \A k \in Byte : Follows[k] \in 0..5
  BY InputAssumption, ElementOfSeq DEF Byte

\* Sequences of bytes.
LEMMA ByteSeqs ==
    /\ <<>> \in Seq(Byte)
    /\ \A a \in Seq(Byte) : Len(a) \in Nat /\ a \o <<>> = a /\ <<>> \o a = a
    /\ \A a, b \in Seq(Byte) : a \o b \in Seq(Byte)
    /\ \A a, b, c \in Seq(Byte) : (a \o b) \o c = a \o (b \o c)
<1>1. ASSUME NEW a \in Seq(Byte), NEW b \in Seq(Byte), NEW c \in Seq(Byte)
      PROVE  (a \o b) \o c = a \o (b \o c)
  BY <1>1, ConcatAssociative
<1>2. ASSUME NEW a \in Seq(Byte)
      PROVE  Len(a) \in Nat /\ a \o <<>> = a /\ <<>> \o a = a
  BY <1>2, ConcatEmptySeq, LenProperties
<1>3. ASSUME NEW a \in Seq(Byte), NEW b \in Seq(Byte)
      PROVE  a \o b \in Seq(Byte)
  BY <1>3, ConcatProperties
<1>4. <<>> \in Seq(Byte)
  BY EmptySeq
<1> QED
  BY <1>1, <1>2, <1>3, <1>4

\* Concatenation is associative.
LEMMA ByteAssoc ==
    ASSUME NEW a \in Seq(Byte), NEW b \in Seq(Byte), NEW c \in Seq(Byte)
    PROVE  (a \o b) \o c = a \o (b \o c)
  BY ByteSeqs, Zenon

\* A sequence of bytes taken apart.
LEMMA ByteParts ==
    ASSUME NEW s \in Seq(Byte)
    PROVE  /\ \A n \in 0..Len(s) : /\ SubSeq(s, 1, n) \in Seq(Byte) /\ Drop(s, n) \in Seq(Byte)
                                   /\ SubSeq(s, 1, n) \o Drop(s, n) = s
                                   /\ Len(SubSeq(s, 1, n)) = n /\ Len(Drop(s, n)) = Len(s) - n
           /\ s # <<>> => /\ Head(s) \in Byte /\ Tail(s) \in Seq(Byte) /\ <<Head(s)>> \in Seq(Byte)
                          /\ <<Head(s)>> \o Tail(s) = s /\ Len(Tail(s)) = Len(s) - 1 /\ Len(s) > 0
<1>0. Len(s) \in Nat /\ \A i \in 1..Len(s) : s[i] \in Byte
  BY ElementOfSeq, LenProperties
<1>1. ASSUME NEW n \in 0..Len(s)
      PROVE  /\ SubSeq(s, 1, n) \in Seq(Byte) /\ Drop(s, n) \in Seq(Byte)
             /\ SubSeq(s, 1, n) \o Drop(s, n) = s
             /\ Len(SubSeq(s, 1, n)) = n /\ Len(Drop(s, n)) = Len(s) - n
  <2>1. SubSeq(s, 1, n) \in Seq(Byte) /\ Len(SubSeq(s, 1, n)) = n
    <3>1. 1 \in Int /\ n \in Int /\ \A i \in 1..n : s[i] \in Byte
      BY <1>0, <1>1
    <3>2. SubSeq(s, 1, n) \in Seq(Byte) /\ Len(SubSeq(s, 1, n)) = IF 1 <= n THEN n - 1 + 1 ELSE 0
      BY <3>1, SubSeqProperties
    <3> QED
      BY <1>0, <1>1, <3>2
  <2>2. SubSeq(s, n + 1, Len(s)) \in Seq(Byte) /\ Len(SubSeq(s, n + 1, Len(s))) = Len(s) - n
    <3>1. n + 1 \in Int /\ Len(s) \in Int /\ \A i \in (n + 1)..Len(s) : s[i] \in Byte
      BY <1>0, <1>1
    <3>2. /\ SubSeq(s, n + 1, Len(s)) \in Seq(Byte)
          /\ Len(SubSeq(s, n + 1, Len(s))) = IF n + 1 <= Len(s) THEN Len(s) - (n + 1) + 1 ELSE 0
      BY <3>1, SubSeqProperties
    <3> QED
      BY <1>0, <1>1, <3>2
  <2>3. SubSeq(s, 1, n) \o SubSeq(s, n + 1, Len(s)) = s
    <3>1. 1 \in 1..Len(s) + 1 /\ n \in (1 - 1)..Len(s) /\ Len(s) \in n..Len(s)
      BY <1>0, <1>1
    <3>2. SubSeq(s, 1, n) \o SubSeq(s, n + 1, Len(s)) = SubSeq(s, 1, Len(s))
      BY <3>1, ConcatAdjacentSubSeq
    <3> QED
      BY <3>2, SubSeqFull
  <2> QED
    BY <2>1, <2>2, <2>3 DEF Drop
<1>2. ASSUME s # <<>>
      PROVE  /\ Head(s) \in Byte /\ Tail(s) \in Seq(Byte) /\ <<Head(s)>> \in Seq(Byte)
             /\ <<Head(s)>> \o Tail(s) = s /\ Len(Tail(s)) = Len(s) - 1 /\ Len(s) > 0
  <2>1. Head(s) \in Byte /\ Tail(s) \in Seq(Byte) /\ Len(Tail(s)) = Len(s) - 1 /\ \A i \in 1..Len(Tail(s)) : Tail(s)[i] = s[i + 1]
    BY <1>2, HeadTailProperties
  <2>2. Len(s) > 0
    BY <1>0, <1>2, EmptySeq
  <2>3. <<Head(s)>> \in Seq(Byte) /\ Len(<<Head(s)>>) = 1 /\ <<Head(s)>>[1] = s[1]
    BY <1>2, <2>1
  <2>4. <<Head(s)>> \o Tail(s) = s
    <3> DEFINE h == <<Head(s)>>
               c == h \o Tail(s)
    <3>1. /\ c \in Seq(Byte) /\ Len(c) = Len(s)
          /\ \A i \in 1..Len(s) : c[i] = IF i <= 1 THEN h[i] ELSE Tail(s)[i - 1]
      BY <1>0, <2>1, <2>3, ConcatProperties
    <3>2. \A i \in 1..Len(s) : c[i] = s[i]
      BY <1>0, <2>1, <2>2, <2>3, <3>1
    <3> HIDE DEF c
    <3>3. c = s
      BY <3>1, <3>2, SeqEqual
    <3> QED
      BY <3>3 DEF c
  <2> QED
    BY <2>1, <2>2, <2>3, <2>4
<1> QED
  BY <1>1, <1>2

\* Spans.
LEMMA Spans ==
    ASSUME NEW m \in 0..Len(Follows), NEW n \in 0..Len(Follows), m <= n
    PROVE  /\ Span(m, n) \in Seq(Byte) /\ Len(Span(m, n)) = n - m /\ Span(m, m) = <<>>
           /\ \A k \in 0..Len(Follows) : n <= k => Span(m, n) \o Span(n, k) = Span(m, k)
<1>1. ASSUME NEW a \in 0..Len(Follows), NEW b \in 0..Len(Follows), a <= b
      PROVE  Span(a, b) \in Seq(Byte) /\ Len(Span(a, b)) = b - a /\ \A j \in 1..(b - a) : Span(a, b)[j] = a + j
  <2>1. b - a \in Nat /\ \A j \in 1..(b - a) : a + j \in Byte
    BY <1>1, DeviceFacts DEF Byte
  <2>2. Span(a, b) \in [1..(b - a) -> Byte]
    BY <2>1 DEF Span
  <2>3. Span(a, b) \in Seq(Byte) /\ Len(Span(a, b)) = b - a
    BY <2>1, <2>2, IsASeq, LenProperties
  <2> QED
    BY <2>3 DEF Span
<1>2. Span(m, m) = <<>>
  <2>1. Span(m, m) \in Seq(Byte) /\ Len(Span(m, m)) = 0
    BY <1>1, DeviceFacts
  <2> QED
    BY <2>1, EmptySeq
<1>3. ASSUME NEW k \in 0..Len(Follows), n <= k
      PROVE  Span(m, n) \o Span(n, k) = Span(m, k)
  <2> DEFINE c == Span(m, n) \o Span(n, k)
  <2>0. m \in Nat /\ n \in Nat /\ k \in Nat /\ m <= k
    BY <1>3, DeviceFacts
  <2>1. /\ Span(m, n) \in Seq(Byte) /\ Len(Span(m, n)) = n - m /\ \A j \in 1..(n - m) : Span(m, n)[j] = m + j
        /\ Span(n, k) \in Seq(Byte) /\ Len(Span(n, k)) = k - n /\ \A j \in 1..(k - n) : Span(n, k)[j] = n + j
        /\ Span(m, k) \in Seq(Byte) /\ Len(Span(m, k)) = k - m /\ \A j \in 1..(k - m) : Span(m, k)[j] = m + j
    BY <1>1, <1>3, <2>0
  <2>2. /\ c \in Seq(Byte) /\ Len(c) = Len(Span(m, n)) + Len(Span(n, k))
        /\ \A i \in 1..(Len(Span(m, n)) + Len(Span(n, k))) :
               c[i] = IF i <= Len(Span(m, n)) THEN Span(m, n)[i] ELSE Span(n, k)[i - Len(Span(m, n))]
    <3> HIDE DEF Span
    <3> QED
      BY <2>1, ConcatProperties
  <2> HIDE DEF c
  <2>3. Len(c) = k - m /\ \A i \in 1..(k - m) : c[i] = m + i
    <3> HIDE DEF Span
    <3>1. Len(c) = k - m
      BY <2>0, <2>1, <2>2
    <3>2. ASSUME NEW i \in 1..(k - m) PROVE c[i] = m + i
      <4>1. c[i] = IF i <= n - m THEN Span(m, n)[i] ELSE Span(n, k)[i - (n - m)]
        BY <2>0, <2>1, <2>2, <3>2
      <4>2. CASE i <= n - m
        BY <2>0, <2>1, <3>2, <4>1, <4>2
      <4>3. CASE ~(i <= n - m)
        <5>1. i - (n - m) \in 1..(k - n)
          BY <2>0, <3>2, <4>3
        <5>2. c[i] = n + (i - (n - m))
          BY <2>1, <4>1, <4>3, <5>1
        <5> QED
          BY <2>0, <3>2, <5>2
      <4> QED
        BY <4>2, <4>3
    <3> QED
      BY <3>1, <3>2
  <2>4. c = Span(m, k)
    BY <2>1, <2>2, <2>3, SeqEqual
  <2> QED
    BY <2>4 DEF c
<1> QED
  BY <1>1, <1>2, <1>3

\* The parts of a port.
LEMMA InputParts ==
    ASSUME NEW a, Sized(a)
    PROVE  /\ a.pos \in 0..Len(Follows) /\ a.pos \in Nat /\ a.buf \in Seq(Byte) /\ a.scratch \in Seq(Byte)
           /\ a.ungotten \in Seq(Byte) /\ a.got \in Seq(Byte) /\ a.eof \in BOOLEAN /\ a.mangled \in BOOLEAN
           /\ Pending(a) \in Seq(Byte) /\ Len(a.buf) \in Nat /\ Len(a.buf) <= InputSize
<1>1. /\ a.pos \in 0..Len(Follows) /\ a.buf \in Seq(Byte) /\ a.scratch \in Seq(Byte)
      /\ a.ungotten \in Seq(Byte) /\ a.got \in Seq(Byte) /\ a.eof \in BOOLEAN /\ a.mangled \in BOOLEAN
      /\ Len(a.buf) <= InputSize
  BY DEF Sized, Inputs
<1>2. Pending(a) \in Seq(Byte)
  BY <1>1, ByteSeqs DEF Pending
<1> QED
  BY <1>1, <1>2, ByteSeqs, DeviceFacts

\* Nothing happens.
LEMMA ReachSame ==
    ASSUME NEW a, Sized(a), NEW x \in Seq(Byte)
    PROVE  Reach(a, x, a, x)
<1>1. Span(a.pos, a.pos) = <<>>
  BY InputParts, Spans
<1>2. x \o Pending(a) \in Seq(Byte)
  BY InputParts, ByteSeqs
<1>3. (x \o Pending(a)) \o Span(a.pos, a.pos) = x \o Pending(a)
  BY <1>1, <1>2, ByteSeqs
<1> QED
  BY <1>3, InputParts DEF Reach

\* One thing after the other.
LEMMA ReachTrans ==
    ASSUME NEW a, NEW b, NEW c, NEW x \in Seq(Byte), NEW y, NEW z,
           Sized(a), Reach(a, x, b, y), Reach(b, y, c, z)
    PROVE  Reach(a, x, c, z)
<1>1. /\ a.pos \in 0..Len(Follows) /\ b.pos \in 0..Len(Follows) /\ c.pos \in 0..Len(Follows)
      /\ a.pos <= b.pos /\ b.pos <= c.pos /\ a.pos <= c.pos /\ Sized(b) /\ Sized(c)
  <2>1. Sized(b) /\ Sized(c) /\ a.pos <= b.pos /\ b.pos <= c.pos
    BY DEF Reach
  <2>2. /\ a.pos \in 0..Len(Follows) /\ b.pos \in 0..Len(Follows) /\ c.pos \in 0..Len(Follows)
        /\ a.pos \in Nat /\ b.pos \in Nat /\ c.pos \in Nat
    BY <2>1, InputParts
  <2> QED
    BY <2>1, <2>2
<1>2. /\ Span(a.pos, b.pos) \in Seq(Byte) /\ Span(b.pos, c.pos) \in Seq(Byte)
      /\ Span(a.pos, b.pos) \o Span(b.pos, c.pos) = Span(a.pos, c.pos)
  BY <1>1, Spans
<1>3. x \o Pending(a) \in Seq(Byte)
  BY InputParts, ByteSeqs
<1>4. z \o Pending(c) = ((x \o Pending(a)) \o Span(a.pos, b.pos)) \o Span(b.pos, c.pos)
  BY DEF Reach
<1>5. z \o Pending(c) = (x \o Pending(a)) \o Span(a.pos, c.pos)
  <2> DEFINE u == x \o Pending(a)
             v == Span(a.pos, b.pos)
             w == Span(b.pos, c.pos)
  <2>1. u \in Seq(Byte) /\ v \in Seq(Byte) /\ w \in Seq(Byte)
    BY <1>2, <1>3
  <2>2. (u \o v) \o w = u \o (v \o w)
    <3> HIDE DEF u, v, w
    <3> QED
      BY <2>1, ByteAssoc
  <2> QED
    BY <1>2, <1>4, <2>2
<1> QED
  BY <1>1, <1>5 DEF Reach

\* bufport_fill adds to the buffer what comes next on the device.
LEMMA Filled ==
    ASSUME NEW a, Sized(a), NEW min \in Nat, NEW less \in BOOLEAN, NEW f \in Fill(a, min, less)
    PROVE  /\ f.scratch = a.scratch /\ f.ungotten = a.ungotten /\ f.eof = a.eof
           /\ \A x \in Seq(Byte) : Reach(a, x, f, x)
<1> DEFINE most  == AtMost(InputSize - Len(a.buf), Rest(a))
           least == AtMost(most, IF less THEN 1 ELSE min)
<1>0. /\ a.pos \in 0..Len(Follows) /\ a.pos \in Nat /\ a.buf \in Seq(Byte) /\ a.scratch \in Seq(Byte)
      /\ a.ungotten \in Seq(Byte) /\ Pending(a) \in Seq(Byte) /\ Len(a.buf) \in Nat /\ Len(a.buf) <= InputSize
      /\ Len(Follows) \in Nat /\ InputSize \in Nat /\ a \in Inputs
  BY InputParts, DeviceFacts DEF Sized
<1>1. most \in Nat /\ most <= InputSize - Len(a.buf) /\ most <= Len(Follows) - a.pos /\ least \in Nat
  <2> DEFINE i == InputSize - Len(a.buf)
             j == Len(Follows) - a.pos
  <2>1. i \in Nat /\ j \in Nat
    BY <1>0
  <2>2. most = (IF i < j THEN i ELSE j) /\ least = IF most < (IF less THEN 1 ELSE min) THEN most ELSE IF less THEN 1 ELSE min
    BY DEF AtMost, Rest
  <2> HIDE DEF i, j, most, least
  <2>3. most \in Nat /\ most <= i /\ most <= j /\ least \in Nat
    BY <2>1, <2>2
  <2> QED
    BY <2>3 DEF i, j
<1>2. PICK k \in least..most : f = [a EXCEPT !.pos = a.pos + k, !.buf = a.buf \o [j \in 1..k |-> a.pos + j]]
  BY DEF Fill
<1> HIDE DEF most, least
<1>3. k \in Nat /\ Len(a.buf) + k <= InputSize /\ a.pos + k <= Len(Follows) /\ a.pos + k \in 0..Len(Follows)
      /\ a.pos <= a.pos + k
  <2>1. k \in Nat /\ k <= most
    BY <1>1, <1>2
  <2>2. Len(a.buf) + k <= InputSize
    BY <1>0, <1>1, <2>1
  <2>3. a.pos + k <= Len(Follows)
    BY <1>0, <1>1, <2>1
  <2>4. a.pos + k \in Nat /\ a.pos <= a.pos + k
    BY <1>0, <2>1
  <2> QED
    BY <1>0, <2>1, <2>2, <2>3, <2>4
<1> DEFINE n == a.pos + k
           s == Span(a.pos, n)
<1>4. [j \in 1..k |-> a.pos + j] = s
  BY <1>0, <1>3 DEF Span
<1>5. s \in Seq(Byte) /\ Len(s) = k
  <2>1. Span(a.pos, n) \in Seq(Byte) /\ Len(Span(a.pos, n)) = n - a.pos
    BY <1>0, <1>3, Spans
  <2> QED
    BY <1>0, <1>3, <2>1
<1> HIDE DEF s
<1>6. a.buf \o s \in Seq(Byte) /\ Len(a.buf \o s) = Len(a.buf) + k
  BY <1>0, <1>5, ConcatProperties
<1>7. f = [a EXCEPT !.pos = n, !.buf = a.buf \o s]
  BY <1>2, <1>4
<1>8. /\ f \in Inputs /\ f.pos = n /\ f.buf = a.buf \o s /\ f.scratch = a.scratch /\ f.ungotten = a.ungotten
      /\ f.eof = a.eof /\ f.got = a.got /\ f.mangled = a.mangled
  BY <1>0, <1>3, <1>6, <1>7 DEF Inputs
<1>9. Sized(f)
  BY <1>3, <1>6, <1>8 DEF Sized
<1>10. Pending(f) = Pending(a) \o s
  <2> DEFINE u == a.scratch \o a.ungotten
  <2>1. u \in Seq(Byte)
    BY <1>0, ByteSeqs
  <2>2. (u \o a.buf) \o s = u \o (a.buf \o s)
    <3> HIDE DEF u
    <3> QED
      BY <1>0, <1>5, <2>1, ByteAssoc
  <2> QED
    BY <1>8, <2>2 DEF Pending
<1>11. ASSUME NEW x \in Seq(Byte) PROVE Reach(a, x, f, x)
  <2>1. x \o (Pending(a) \o s) = (x \o Pending(a)) \o s
    <3> DEFINE u == Pending(a)
    <3>1. u \in Seq(Byte)
      BY <1>0
    <3>2. s \in Seq(Byte)
      BY <1>5
    <3> HIDE DEF u
    <3>3. (x \o u) \o s = x \o (u \o s)
      BY <3>1, <3>2, ByteAssoc
    <3> QED
      BY <3>3 DEF u
  <2> QED
    BY <1>3, <1>8, <1>9, <1>10, <2>1 DEF Reach, s
<1> QED
  BY <1>8, <1>11

\* The bytes that are taken from the buffer of a port with nothing pushed back come next.
LEMMA TakenBytes ==
    ASSUME NEW a, Sized(a), Bare(a), NEW x \in Seq(Byte), NEW h \in Seq(Byte), NEW d \in Seq(Byte),
           h \o d = a.buf, Len(d) <= Len(a.buf)
    PROVE  Reach(a, x, [a EXCEPT !.buf = d], x \o h) /\ Bare([a EXCEPT !.buf = d])
<1> DEFINE b == [a EXCEPT !.buf = d]
<1>0. /\ a.pos \in 0..Len(Follows) /\ a.pos \in Nat /\ a.buf \in Seq(Byte) /\ Len(a.buf) \in Nat /\ Len(a.buf) <= InputSize
      /\ a.scratch = <<>> /\ a.ungotten = <<>> /\ a \in Inputs /\ InputSize \in Nat /\ Len(d) \in Nat
  BY InputParts, DeviceFacts, ByteSeqs DEF Sized, Bare
<1>2. /\ b \in Inputs /\ b.pos = a.pos /\ b.buf = d /\ b.scratch = <<>> /\ b.ungotten = <<>>
      /\ b.got = a.got /\ b.mangled = a.mangled
  BY <1>0 DEF Inputs
<1> HIDE DEF b
<1>3. Sized(b) /\ Bare(b)
  BY <1>0, <1>2 DEF Sized, Bare
<1>4. Pending(a) = a.buf /\ Pending(b) = d
  BY <1>0, <1>2, ByteSeqs DEF Pending
<1>5. (x \o h) \o d = x \o a.buf /\ x \o h \in Seq(Byte)
  <2>1. (x \o h) \o d = x \o (h \o d)
    BY ByteAssoc
  <2> QED
    BY <2>1, ByteSeqs
<1>6. Reach(a, x, a, x)
  BY ReachSame
<1>7. Reach(a, x, b, x \o h)
  BY <1>0, <1>2, <1>3, <1>4, <1>5, <1>6 DEF Reach
<1> QED
  BY <1>3, <1>7 DEF b

-----------------------------------------------------------------------------
(* Repetition: what every step keeps is kept by all, and the functions that    *)
(* are defined by recursion exist.                                             *)

\* A set of natural numbers that is not empty has a smallest element.
LEMMA LeastNumber ==
    ASSUME NEW T, T \subseteq Nat, T # {}
    PROVE  \E x \in T : \A y \in T : x <= y
<1>1. PICK x \in T : \A y \in T : ~ (<<y, x>> \in OpToRel(<, Nat))
  BY NatLessThanWellFounded, WFMin
<1>2. ASSUME NEW y \in T, y < x PROVE FALSE
  <2>1. <<y, x>> \in Nat \X Nat
    OBVIOUS
  <2>2. <<y, x>> \in OpToRel(<, Nat)
    BY <1>2, <2>1, Zenon DEF OpToRel
  <2> QED
    BY <1>1, <2>2
<1>3. \A y \in T : x <= y
  BY <1>2
<1> QED
  BY <1>3

\* What holds of the first set and is handed on by every step holds of all of them.
LEMMA HandedOn ==
    ASSUME NEW D, NEW f, NEW n \in Nat, f[0] \in SUBSET D,
           \A k \in 1..n : f[k - 1] \in SUBSET D => f[k] \in SUBSET D
    PROVE  \A k \in 0..n : f[k] \in SUBSET D
<1> DEFINE T == {k \in 0..n : f[k] \notin SUBSET D}
<1>1. SUFFICES ASSUME T # {} PROVE FALSE
  OBVIOUS
<1>2. PICK m \in T : \A k \in T : m <= k
  <2>1. T \subseteq Nat
    OBVIOUS
  <2> HIDE DEF T
  <2> QED
    BY <1>1, <2>1, LeastNumber
<1>3. m \in 1..n /\ m - 1 \in 0..n
  <2>1. m # 0
    BY <1>2
  <2> QED
    BY <1>2, <2>1
<1>4. m - 1 \notin T
  BY <1>2, <1>3
<1>5. f[m - 1] \in SUBSET D
  BY <1>3, <1>4
<1> QED
  BY <1>2, <1>3, <1>5

\* From A on, every value of g is what F makes of the one before it.
Iterates(g, A, F, n) == g = [k \in 0..n |-> IF k = 0 THEN A ELSE F[g[k - 1]]]

\* A function can be defined by its first value and by how every other one follows
\* from the one before it.
LEMMA Recursion ==
    ASSUME NEW D, NEW A \in SUBSET D, NEW F \in [SUBSET D -> SUBSET D], NEW n \in Nat
    PROVE  \E g : Iterates(g, A, F, n) /\ g \in [0..n -> SUBSET D]
<1> DEFINE Made(m, g) == g \in [0..m -> SUBSET D] /\ g[0] = A /\ \A k \in 1..m : g[k] = F[g[k - 1]]
           T == {m \in Nat : ~ \E g : Made(m, g)}
<1>1. \A m \in Nat : \E g : Made(m, g)
  <2>1. SUFFICES ASSUME T # {} PROVE FALSE
    OBVIOUS
  <2>2. PICK m \in T : \A k \in T : m <= k
    <3>1. T \subseteq Nat
      OBVIOUS
    <3> HIDE DEF T
    <3> QED
      BY <2>1, <3>1, LeastNumber
  <2>3. m # 0
    <3>1. \E g : Made(0, g)
      <4>1. Made(0, [k \in 0..0 |-> A])
        OBVIOUS
      <4> HIDE DEF Made
      <4> QED
        BY <4>1
    <3>2. ~ \E g : Made(m, g)
      <4> HIDE DEF Made
      <4> QED
        BY <2>2
    <3> HIDE DEF Made
    <3> QED
      BY <3>1, <3>2
  <2>4. m \in Nat /\ m - 1 \in Nat /\ m - 1 \notin T
    <3>1. m \in Nat /\ \A k \in T : m <= k
      BY <2>2
    <3>2. m - 1 \in Nat /\ ~(m <= m - 1)
      BY <2>3, <3>1
    <3> HIDE DEF T
    <3> QED
      BY <3>1, <3>2
  <2>5. PICK g : Made(m - 1, g)
    BY <2>4
  <2> DEFINE h == [k \in 0..m |-> IF k = m THEN F[g[m - 1]] ELSE g[k]]
  <2>6. g \in [0..(m - 1) -> SUBSET D] /\ g[m - 1] \in SUBSET D /\ F[g[m - 1]] \in SUBSET D
    BY <2>4, <2>5
  <2>7. h \in [0..m -> SUBSET D]
    <3>1. ASSUME NEW k \in 0..m, k # m PROVE g[k] \in SUBSET D
      <4>1. k \in 0..(m - 1)
        BY <2>4, <3>1
      <4> QED
        BY <2>6, <4>1
    <3> QED
      BY <2>6, <3>1
  <2>8. h[0] = A
    BY <2>3, <2>4, <2>5
  <2>9. ASSUME NEW k \in 1..m PROVE h[k] = F[h[k - 1]]
    <3>1. k \in 0..m /\ k - 1 \in 0..m /\ k - 1 # m
      BY <2>4, <2>9
    <3>2. h[k - 1] = g[k - 1]
      BY <3>1
    <3>3. CASE k = m
      BY <3>1, <3>2, <3>3
    <3>4. CASE k # m
      <4>1. k \in 1..(m - 1)
        BY <2>4, <2>9, <3>4
      <4>2. g[k] = F[g[k - 1]]
        BY <2>5, <4>1
      <4>3. h[k] = g[k]
        BY <3>1, <3>4
      <4> QED
        BY <3>2, <4>2, <4>3
    <3> QED
      BY <3>3, <3>4
  <2>10. Made(m, h)
    <3> HIDE DEF h
    <3> QED
      BY <2>7, <2>8, <2>9
  <2> QED
    BY <2>2, <2>10
<1>2. PICK g : Made(n, g)
  <2> HIDE DEF Made
  <2> QED
    BY <1>1
<1>3. g \in [0..n -> SUBSET D] /\ g[0] = A /\ \A k \in 1..n : g[k] = F[g[k - 1]]
  BY <1>2
<1>4. \A k \in 0..n : g[k] = IF k = 0 THEN A ELSE F[g[k - 1]]
  BY <1>3
<1>5. g = [k \in 0..n |-> IF k = 0 THEN A ELSE F[g[k - 1]]]
  BY <1>3, <1>4
<1> QED
  BY <1>3, <1>5 DEF Iterates

-----------------------------------------------------------------------------
(* Bytes from the buffer, in several rounds.                                   *)

\* Where the rounds that begin at port a, with the bytes x in hand, may be.
RoundStates(a, x) ==
    {r \in [ip : Inputs, have : Seq(Byte), rest : Nat] : Reach(a, x, r.ip, r.have) /\ Bare(r.ip)}

\* Taking what there is.
LEMMA TakeStays ==
    ASSUME NEW a, NEW x \in Seq(Byte), Sized(a), NEW r \in RoundStates(a, x)
    PROVE  Take(r) \in RoundStates(a, x)
<1>1. /\ r.ip \in Inputs /\ r.have \in Seq(Byte) /\ r.rest \in Nat /\ Reach(a, x, r.ip, r.have)
      /\ Bare(r.ip) /\ Sized(r.ip)
  BY DEF RoundStates, Reach
<1> DEFINE n == AtMost(r.rest, Len(r.ip.buf))
           b == [r.ip EXCEPT !.buf = Drop(r.ip.buf, n)]
           y == r.have \o SubSeq(r.ip.buf, 1, n)
<1>2. n \in 0..Len(r.ip.buf) /\ r.rest - n \in Nat
  <2>1. Len(r.ip.buf) \in Nat
    BY <1>1, InputParts
  <2> DEFINE l == Len(r.ip.buf)
  <2>2. l \in Nat /\ r.rest \in Nat /\ n = IF r.rest < l THEN r.rest ELSE l
    BY <1>1, <2>1 DEF AtMost
  <2> HIDE DEF l, n
  <2>3. n \in 0..l /\ r.rest - n \in Nat
    BY <2>2
  <2> QED
    BY <2>3 DEF l
<1>3. Take(r) = [ip |-> b, have |-> y, rest |-> r.rest - n]
  BY DEF Take
<1> HIDE DEF n
<1>4. Reach(r.ip, r.have, b, y) /\ Bare(b)
  <2> DEFINE h == SubSeq(r.ip.buf, 1, n)
             d == Drop(r.ip.buf, n)
  <2>1. h \in Seq(Byte) /\ d \in Seq(Byte) /\ h \o d = r.ip.buf /\ Len(d) <= Len(r.ip.buf)
    <3>1. r.ip.buf \in Seq(Byte) /\ Len(r.ip.buf) \in Nat
      BY <1>1, InputParts
    <3>2. h \in Seq(Byte) /\ d \in Seq(Byte) /\ h \o d = r.ip.buf /\ Len(d) = Len(r.ip.buf) - n
      BY <1>2, <3>1, ByteParts
    <3> HIDE DEF h, d
    <3> QED
      BY <1>2, <3>1, <3>2
  <2> HIDE DEF h, d
  <2>2. Reach(r.ip, r.have, [r.ip EXCEPT !.buf = d], r.have \o h) /\ Bare([r.ip EXCEPT !.buf = d])
    BY <1>1, <2>1, TakenBytes
  <2> QED
    BY <2>2 DEF h, d
<1> HIDE DEF b, y
<1>5. Reach(a, x, b, y)
  BY <1>1, <1>4, ReachTrans
<1>6. b \in Inputs /\ y \in Seq(Byte)
  BY <1>5 DEF Reach, Sized
<1> QED
  BY <1>2, <1>3, <1>4, <1>5, <1>6 DEF RoundStates

\* One round.
LEMMA RoundStays ==
    ASSUME NEW a, NEW x \in Seq(Byte), Sized(a), NEW less \in BOOLEAN, NEW r \in RoundStates(a, x)
    PROVE  Round(r, less) \in SUBSET RoundStates(a, x)
<1>1. /\ r \in [ip : Inputs, have : Seq(Byte), rest : Nat]
      /\ r.ip \in Inputs /\ r.have \in Seq(Byte) /\ r.rest \in Nat /\ Reach(a, x, r.ip, r.have)
      /\ Bare(r.ip) /\ Sized(r.ip)
  BY DEF RoundStates, Reach
<1>2. ASSUME NEW f \in Fill(r.ip, r.rest, less)
      PROVE  Take([r EXCEPT !.ip = f]) \in RoundStates(a, x)
  <2>1. Reach(r.ip, r.have, f, r.have) /\ Bare(f)
    BY <1>1, Filled DEF Bare
  <2>2. Reach(a, x, f, r.have) /\ f \in Inputs
    <3>1. Reach(a, x, f, r.have)
      BY <1>1, <2>1, ReachTrans
    <3> QED
      BY <3>1 DEF Reach, Sized
  <2>3. [r EXCEPT !.ip = f] \in RoundStates(a, x)
    BY <1>1, <2>1, <2>2 DEF RoundStates
  <2> QED
    BY <2>3, TakeStays
<1> QED
  BY <1>2 DEF Round

\* All of them.
LEMMA RoundsReach ==
    ASSUME NEW a, NEW x \in Seq(Byte), Sized(a), NEW less \in BOOLEAN, NEW s \in RoundStates(a, x),
           NEW r \in Rounds(s, less)
    PROVE  Reach(a, x, r[1], r[2]) /\ Bare(r[1])
<1> DEFINE D == RoundStates(a, x)
           n == s.rest
           Goes(g) == g = [k \in 0..n |-> IF k = 0 THEN {s} ELSE UNION {Round(q, less) : q \in g[k - 1]}]
           after == CHOOSE g : Goes(g)
           F == [S \in SUBSET D |-> UNION {Round(q, less) : q \in S}]
<1>1. n \in Nat
  BY DEF RoundStates
<1>2. F \in [SUBSET D -> SUBSET D]
  BY RoundStays
<1>3. {s} \in SUBSET D
  OBVIOUS
<1>4. PICK g : g = [k \in 0..n |-> IF k = 0 THEN {s} ELSE F[g[k - 1]]] /\ g \in [0..n -> SUBSET D]
  <2> DEFINE A == {s}
  <2>1. A \in SUBSET D
    BY <1>3
  <2>2. \E g : Iterates(g, A, F, n) /\ g \in [0..n -> SUBSET D]
    <3> HIDE DEF A, F, D, n
    <3> QED
      BY <1>1, <1>2, <2>1, Recursion
  <2> HIDE DEF F, D, n
  <2> QED
    BY <2>2 DEF Iterates
<1>5. Goes(g)
  <2> HIDE DEF D, n
  <2>1. ASSUME NEW k \in 0..n, k # 0 PROVE F[g[k - 1]] = UNION {Round(q, less) : q \in g[k - 1]}
    <3>1. k - 1 \in 0..n
      BY <1>1, <2>1
    <3> QED
      BY <1>4, <3>1
  <2> HIDE DEF F
  <2> QED
    BY <1>4, <2>1
<1>6. Goes(after)
  <2> HIDE DEF Goes
  <2> QED
    BY <1>5
<1>7. Rounds(s, less) = {<<q.ip, q.have>> : q \in after[s.rest]}
  BY DEF Rounds
<1> HIDE DEF after
<1>8. after[0] \in SUBSET D /\ \A k \in 1..n : after[k - 1] \in SUBSET D => after[k] \in SUBSET D
  <2>1. after[0] = {s}
    BY <1>1, <1>6
  <2>2. ASSUME NEW k \in 1..n, after[k - 1] \in SUBSET D PROVE after[k] \in SUBSET D
    <3>1. after[k] = UNION {Round(q, less) : q \in after[k - 1]}
      <4>1. k \in 0..n /\ k # 0
        BY <1>1, <2>2
      <4> HIDE DEF D, n
      <4> QED
        BY <1>6, <4>1
    <3> QED
      BY <2>2, <3>1, RoundStays
  <2> QED
    BY <1>3, <2>1, <2>2
<1>9. after[n] \in SUBSET D
  <2> HIDE DEF D, n
  <2>1. \A k \in 0..n : after[k] \in SUBSET D
    BY <1>1, <1>8, HandedOn
  <2> QED
    BY <1>1, <2>1
<1>10. PICK q \in D : r = <<q.ip, q.have>>
  BY <1>7, <1>9
<1> QED
  BY <1>10 DEF RoundStates

-----------------------------------------------------------------------------
(* Bytes and characters.                                                       *)

\* The bytes y are taken from what has been pushed back.
LEMMA FromFront ==
    ASSUME NEW a, Sized(a), NEW b \in Inputs, NEW x \in Seq(Byte), NEW y \in Seq(Byte),
           b.pos = a.pos, b.buf = a.buf, b.got = a.got, b.mangled = a.mangled,
           y \o (b.scratch \o b.ungotten) = a.scratch \o a.ungotten
    PROVE  Reach(a, x, b, x \o y)
<1>1. Sized(b)
  BY DEF Sized
<1>2. /\ b.buf \in Seq(Byte) /\ b.scratch \in Seq(Byte) /\ b.ungotten \in Seq(Byte) /\ Pending(b) \in Seq(Byte)
      /\ a.pos \in 0..Len(Follows) /\ a.pos \in Nat
  BY <1>1, InputParts
<1> DEFINE u == b.scratch \o b.ungotten
<1>3. u \in Seq(Byte) /\ x \o y \in Seq(Byte)
  BY <1>2, ByteSeqs
<1>4. (y \o u) \o b.buf = y \o (u \o b.buf)
  <2> HIDE DEF u
  <2> QED
    BY <1>2, <1>3, ByteAssoc
<1>5. Pending(a) = y \o Pending(b)
  BY <1>4 DEF Pending
<1>6. (x \o y) \o Pending(b) = x \o (y \o Pending(b))
  BY <1>2, ByteAssoc
<1>7. Reach(a, x, a, x)
  BY ReachSame
<1> QED
  BY <1>1, <1>2, <1>3, <1>5, <1>6, <1>7 DEF Reach

\* Scm_Getb.
LEMMA GetbReach ==
    ASSUME NEW a, Sized(a), NEW x \in Seq(Byte), NEW g \in Getb(a)
    PROVE  /\ g[2] \in Seq(Byte) /\ Reach(a, x, g[1], x \o g[2])
           /\ Clean(a) => Clean(g[1])
           /\ Bare(a) => Bare(g[1])
           /\ a.scratch = <<>> /\ g[2] # <<>> => g[1].ungotten = <<>>
<1>0. /\ a.buf \in Seq(Byte) /\ a.scratch \in Seq(Byte) /\ a.ungotten \in Seq(Byte) /\ a \in Inputs
      /\ a.eof \in BOOLEAN /\ <<>> \in Seq(Byte)
  BY InputParts, ByteSeqs DEF Sized
<1>1. CASE a.scratch # <<>>
  <2> DEFINE b == [a EXCEPT !.scratch = Tail(a.scratch)]
             y == <<Head(a.scratch)>>
  <2>1. g = <<b, y>>
    BY <1>1 DEF Getb
  <2>2. y \in Seq(Byte) /\ Tail(a.scratch) \in Seq(Byte) /\ y \o Tail(a.scratch) = a.scratch
    BY <1>0, <1>1, ByteParts
  <2>3. /\ b \in Inputs /\ b.pos = a.pos /\ b.buf = a.buf /\ b.got = a.got /\ b.mangled = a.mangled
        /\ b.scratch = Tail(a.scratch) /\ b.ungotten = a.ungotten
    BY <1>0, <2>2 DEF Inputs
  <2> HIDE DEF b, y
  <2>4. y \o (b.scratch \o b.ungotten) = (y \o b.scratch) \o b.ungotten
    <3>1. b.scratch \in Seq(Byte) /\ b.ungotten \in Seq(Byte)
      BY <1>0, <2>2, <2>3
    <3> QED
      BY <2>2, <3>1, ByteAssoc
  <2>5. Reach(a, x, b, x \o y)
    BY <2>2, <2>3, <2>4, FromFront
  <2> QED
    BY <1>1, <2>1, <2>2, <2>3, <2>5 DEF Clean, Bare
<1>2. CASE a.scratch = <<>> /\ a.eof
  <2> DEFINE b == [a EXCEPT !.eof = FALSE]
  <2>1. g = <<b, <<>>>>
    BY <1>2 DEF Getb
  <2>2. /\ b \in Inputs /\ b.pos = a.pos /\ b.buf = a.buf /\ b.got = a.got /\ b.mangled = a.mangled
        /\ b.scratch = a.scratch /\ b.ungotten = a.ungotten
    BY <1>0 DEF Inputs
  <2> HIDE DEF b
  <2>3. <<>> \o (b.scratch \o b.ungotten) = a.scratch \o a.ungotten
    BY <1>0, <2>2, ByteSeqs
  <2>4. Reach(a, x, b, x \o <<>>)
    BY <1>0, <2>2, <2>3, FromFront
  <2> QED
    BY <1>0, <2>1, <2>2, <2>4 DEF Clean, Bare
<1>3. CASE a.scratch = <<>> /\ ~a.eof /\ a.ungotten # <<>>
  <2> DEFINE b == [a EXCEPT !.scratch = Tail(a.ungotten), !.ungotten = <<>>]
             y == <<Head(a.ungotten)>>
  <2>1. g = <<b, y>>
    BY <1>3 DEF Getb
  <2>2. y \in Seq(Byte) /\ Tail(a.ungotten) \in Seq(Byte) /\ y \o Tail(a.ungotten) = a.ungotten
    BY <1>0, <1>3, ByteParts
  <2>3. /\ b \in Inputs /\ b.pos = a.pos /\ b.buf = a.buf /\ b.got = a.got /\ b.mangled = a.mangled
        /\ b.scratch = Tail(a.ungotten) /\ b.ungotten = <<>>
    BY <1>0, <2>2 DEF Inputs
  <2> HIDE DEF b, y
  <2>4. y \o (b.scratch \o b.ungotten) = a.scratch \o a.ungotten
    BY <1>0, <1>3, <2>2, <2>3, ByteSeqs
  <2>5. Reach(a, x, b, x \o y)
    BY <2>2, <2>3, <2>4, FromFront
  <2> QED
    BY <1>3, <2>1, <2>2, <2>3, <2>5 DEF Clean, Bare
<1>4. CASE a.scratch = <<>> /\ ~a.eof /\ a.ungotten = <<>>
  <2>1. PICK f \in IF a.buf # <<>> THEN {a} ELSE Fill(a, 1, FALSE) :
            g = IF f.buf = <<>> THEN <<f, <<>>>> ELSE <<[f EXCEPT !.buf = Tail(f.buf)], <<Head(f.buf)>>>>
    BY <1>4 DEF Getb
  <2>2. Reach(a, x, f, x) /\ Bare(f)
    <3>1. CASE f = a
      BY <1>4, <3>1, ReachSame DEF Bare
    <3>2. CASE f \in Fill(a, 1, FALSE)
      BY <1>4, <3>2, Filled DEF Bare
    <3> QED
      BY <2>1, <3>1, <3>2
  <2>3. Sized(f) /\ f \in Inputs
    BY <2>2 DEF Reach, Sized
  <2>4. CASE f.buf = <<>>
    BY <1>0, <2>1, <2>2, <2>4, ByteSeqs DEF Bare, Clean
  <2>5. CASE f.buf # <<>>
    <3> DEFINE b == [f EXCEPT !.buf = Tail(f.buf)]
               y == <<Head(f.buf)>>
    <3>1. g = <<b, y>>
      BY <2>1, <2>5
    <3>2. y \in Seq(Byte) /\ Tail(f.buf) \in Seq(Byte) /\ y \o Tail(f.buf) = f.buf /\ Len(Tail(f.buf)) <= Len(f.buf)
      <4>1. f.buf \in Seq(Byte) /\ Len(f.buf) \in Nat
        BY <2>3, InputParts
      <4> QED
        BY <2>5, <4>1, ByteParts
    <3>4. Reach(f, x, b, x \o y) /\ Bare(b)
      <4> HIDE DEF y
      <4> QED
        BY <2>2, <2>3, <3>2, TakenBytes
    <3> HIDE DEF b, y
    <3>5. Reach(a, x, b, x \o y)
      BY <2>2, <3>4, ReachTrans
    <3> QED
      BY <3>1, <3>2, <3>4, <3>5 DEF Bare, Clean
  <2> QED
    BY <2>4, <2>5
<1> QED
  BY <1>0, <1>1, <1>2, <1>3, <1>4

\* getc_scratch.
LEMMA GetcScratchReach ==
    ASSUME NEW a, Sized(a), NEW x \in Seq(Byte), NEW n \in Int, NEW r \in GetcScratch(a, x, n)
    PROVE  Reach(a, x, r[1], r[2]) /\ (Bare(a) => Bare(r[1]))
<1> DEFINE D == {q \in Inputs \X Seq(Byte) : Reach(a, x, q[1], q[2]) /\ (Bare(a) => Bare(q[1]))}
           A == {<<a, x>>}
           Goes(g) == g = [k \in 0..n |-> IF k = 0 THEN {<<a, x>>} ELSE UNION {NextByte(q) : q \in g[k - 1]}]
           after == CHOOSE g : Goes(g)
           F == [S \in SUBSET D |-> UNION {NextByte(q) : q \in S}]
<1>1. <<a, x>> \in D
  <2>1. Reach(a, x, a, x) /\ a \in Inputs
    BY ReachSame DEF Sized
  <2> QED
    BY <2>1
<1>2. ASSUME NEW q \in D PROVE NextByte(q) \in SUBSET D
  <2>1. Reach(a, x, q[1], q[2]) /\ (Bare(a) => Bare(q[1])) /\ Sized(q[1]) /\ q[2] \in Seq(Byte)
    BY <1>2 DEF Reach
  <2>2. ASSUME NEW g \in Getb(q[1]) PROVE <<g[1], q[2] \o g[2]>> \in D
    <3>1. Reach(q[1], q[2], g[1], q[2] \o g[2]) /\ (Bare(q[1]) => Bare(g[1]))
      BY <2>1, GetbReach
    <3>2. Reach(a, x, g[1], q[2] \o g[2])
      BY <2>1, <3>1, ReachTrans
    <3>3. g[1] \in Inputs /\ q[2] \o g[2] \in Seq(Byte)
      BY <3>2 DEF Reach, Sized
    <3> QED
      BY <2>1, <3>1, <3>2, <3>3
  <2> HIDE DEF D
  <2> QED
    BY <2>2 DEF NextByte
<1>3. CASE n <= 0
  <2>1. r = <<a, x>>
    BY <1>3 DEF GetcScratch
  <2> QED
    BY <1>1, <2>1
<1>4. CASE ~(n <= 0)
  <2>1. n \in Nat
    BY <1>4
  <2>2. F \in [SUBSET D -> SUBSET D] /\ A \in SUBSET D
    <3> HIDE DEF D
    <3> QED
      BY <1>1, <1>2
  <2>3. \E g : Iterates(g, A, F, n) /\ g \in [0..n -> SUBSET D]
    <3> HIDE DEF A, F, D
    <3> QED
      BY <2>1, <2>2, Recursion
  <2>4. PICK g : g = [k \in 0..n |-> IF k = 0 THEN {<<a, x>>} ELSE F[g[k - 1]]] /\ g \in [0..n -> SUBSET D]
    <3> HIDE DEF F, D
    <3> QED
      BY <2>3 DEF Iterates
  <2>5. Goes(g)
    <3> HIDE DEF D
    <3>1. ASSUME NEW k \in 0..n, k # 0 PROVE F[g[k - 1]] = UNION {NextByte(q) : q \in g[k - 1]}
      <4>1. k - 1 \in 0..n
        BY <2>1, <3>1
      <4> QED
        BY <2>4, <4>1
    <3> HIDE DEF F
    <3> QED
      BY <2>4, <3>1
  <2>6. Goes(after)
    <3> HIDE DEF Goes
    <3> QED
      BY <2>5
  <2>7. GetcScratch(a, x, n) = after[n]
    BY <1>4 DEF GetcScratch
  <2> HIDE DEF after
  <2>8. after[0] \in SUBSET D /\ \A k \in 1..n : after[k - 1] \in SUBSET D => after[k] \in SUBSET D
    <3>1. after[0] = {<<a, x>>}
      BY <2>1, <2>6
    <3>2. ASSUME NEW k \in 1..n, after[k - 1] \in SUBSET D PROVE after[k] \in SUBSET D
      <4>1. after[k] = UNION {NextByte(q) : q \in after[k - 1]}
        <5>1. k \in 0..n /\ k # 0
          BY <2>1, <3>2
        <5> HIDE DEF D
        <5> QED
          BY <2>6, <5>1
      <4> HIDE DEF D
      <4> QED
        BY <1>2, <3>2, <4>1
    <3> HIDE DEF D
    <3> QED
      BY <1>1, <3>1, <3>2
  <2>9. after[n] \in SUBSET D
    <3> HIDE DEF D
    <3>1. \A k \in 0..n : after[k] \in SUBSET D
      BY <2>1, <2>8, HandedOn
    <3> QED
      BY <2>1, <3>1
  <2> QED
    BY <2>7, <2>9
<1> QED
  BY <1>3, <1>4

\* Everything that has been pushed back is taken.
LEMMA FrontTaken ==
    ASSUME NEW a, Sized(a), NEW y \in Seq(Byte), NEW b \in Inputs, b.pos = a.pos, b.buf = a.buf, b.got = a.got,
           b.mangled = a.mangled, y \o (b.scratch \o b.ungotten) = a.scratch \o a.ungotten
    PROVE  Reach(a, <<>>, b, y)
<1>1. <<>> \in Seq(Byte) /\ <<>> \o y = y
  BY ByteSeqs
<1>2. Reach(a, <<>>, b, <<>> \o y)
  BY <1>1, FromFront
<1> QED
  BY <1>1, <1>2

\* Scm_Getc.
LEMMA GetcReach ==
    ASSUME NEW a, Sized(a), NEW r \in Getc(a)
    PROVE  /\ r[2] \in Seq(Byte) /\ Reach(a, <<>>, r[1], r[2])
           /\ Clean(a) => Clean(r[1])
           /\ ~HasUngotten(a) => Bare(r[1])
<1>0. /\ a.buf \in Seq(Byte) /\ a.scratch \in Seq(Byte) /\ a.ungotten \in Seq(Byte) /\ a \in Inputs
      /\ a.eof \in BOOLEAN /\ <<>> \in Seq(Byte)
  BY InputParts, ByteSeqs DEF Sized
<1>1. CASE a.scratch # <<>>
  <2> DEFINE b == [a EXCEPT !.scratch = <<>>]
             n == Follows[Head(a.scratch)] + 1 - Len(a.scratch)
  <2>1. r \in GetcScratch(b, a.scratch, n)
    BY <1>1 DEF Getc
  <2>2. n \in Int
    <3>1. Head(a.scratch) \in Byte /\ Len(a.scratch) \in Nat
      BY <1>0, <1>1, ByteParts, ByteSeqs
    <3>2. Follows[Head(a.scratch)] \in 0..5
      BY <3>1, DeviceFacts
    <3> QED
      BY <3>1, <3>2
  <2>3. /\ b \in Inputs /\ b.pos = a.pos /\ b.buf = a.buf /\ b.got = a.got /\ b.mangled = a.mangled
        /\ b.scratch = <<>> /\ b.ungotten = a.ungotten
    BY <1>0 DEF Inputs
  <2> HIDE DEF b, n
  <2>4. a.scratch \o (b.scratch \o b.ungotten) = a.scratch \o a.ungotten
    BY <1>0, <2>3, ByteSeqs
  <2>5. Reach(a, <<>>, b, a.scratch) /\ Sized(b)
    <3>1. Reach(a, <<>>, b, a.scratch)
      BY <1>0, <2>3, <2>4, FrontTaken
    <3> QED
      BY <3>1 DEF Reach
  <2>6. Reach(b, a.scratch, r[1], r[2]) /\ (Bare(b) => Bare(r[1]))
    BY <1>0, <2>1, <2>2, <2>5, GetcScratchReach
  <2>7. Reach(a, <<>>, r[1], r[2])
    <3>1. PICK e \in Seq(Byte) : e = <<>>
      BY <1>0
    <3>2. Reach(a, e, b, a.scratch) /\ Reach(b, a.scratch, r[1], r[2])
      BY <2>5, <2>6, <3>1
    <3>3. Reach(a, e, r[1], r[2])
      BY <3>2, ReachTrans
    <3> QED
      BY <3>1, <3>3
  <2>8. r[2] \in Seq(Byte)
    BY <2>7 DEF Reach
  <2> QED
    BY <1>1, <2>3, <2>6, <2>7, <2>8 DEF Clean, Bare, HasUngotten
<1>2. CASE a.scratch = <<>> /\ a.eof
  <2> DEFINE b == [a EXCEPT !.eof = FALSE]
  <2>1. r = <<b, <<>>>>
    BY <1>2 DEF Getc
  <2>2. /\ b \in Inputs /\ b.pos = a.pos /\ b.buf = a.buf /\ b.got = a.got /\ b.mangled = a.mangled
        /\ b.scratch = a.scratch /\ b.ungotten = a.ungotten
    BY <1>0 DEF Inputs
  <2> HIDE DEF b
  <2>3. <<>> \o (b.scratch \o b.ungotten) = a.scratch \o a.ungotten
    BY <1>0, <2>2, ByteSeqs
  <2>4. Reach(a, <<>>, b, <<>>)
    BY <1>0, <2>2, <2>3, FrontTaken
  <2> QED
    BY <1>0, <1>2, <2>1, <2>2, <2>4 DEF Clean, HasUngotten
<1>3. CASE a.scratch = <<>> /\ ~a.eof /\ a.ungotten # <<>>
  <2> DEFINE b == [a EXCEPT !.ungotten = <<>>]
  <2>1. r = <<b, a.ungotten>>
    BY <1>3 DEF Getc
  <2>2. /\ b \in Inputs /\ b.pos = a.pos /\ b.buf = a.buf /\ b.got = a.got /\ b.mangled = a.mangled
        /\ b.scratch = <<>> /\ b.ungotten = <<>>
    BY <1>0, <1>3 DEF Inputs
  <2> HIDE DEF b
  <2>3. a.ungotten \o (b.scratch \o b.ungotten) = a.scratch \o a.ungotten
    BY <1>0, <1>3, <2>2, ByteSeqs
  <2>4. Reach(a, <<>>, b, a.ungotten)
    BY <1>0, <2>2, <2>3, FrontTaken
  <2> QED
    BY <1>0, <1>3, <2>1, <2>2, <2>4 DEF Clean, HasUngotten
<1>4. CASE a.scratch = <<>> /\ ~a.eof /\ a.ungotten = <<>>
  <2> DEFINE RestOf(f) == LET width == Follows[Head(f.buf)] + 1
                               n     == AtMost(width, Len(f.buf))
                           IN  FetchRest([f EXCEPT !.buf = Drop(f.buf, n)], SubSeq(f.buf, 1, n), width - n)
  <2>1. PICK f \in IF a.buf # <<>> THEN {a} ELSE Fill(a, 1, FALSE) :
            r \in IF f.buf = <<>> THEN {<<f, <<>>>>} ELSE RestOf(f)
    BY <1>4 DEF Getc
  <2>2. Reach(a, <<>>, f, <<>>) /\ Bare(f)
    <3>1. CASE f = a
      BY <1>0, <1>4, <3>1, ReachSame DEF Bare
    <3>2. CASE f \in Fill(a, 1, FALSE)
      BY <1>0, <1>4, <3>2, Filled DEF Bare
    <3> QED
      BY <2>1, <3>1, <3>2
  <2>3. Sized(f) /\ f \in Inputs
    BY <2>2 DEF Reach, Sized
  <2>4. CASE f.buf = <<>>
    <3>1. r = <<f, <<>>>>
      <4> HIDE DEF RestOf
      <4> QED
        BY <2>1, <2>4
    <3>2. r[1] = f /\ r[2] = <<>>
      BY <3>1
    <3> QED
      BY <1>0, <2>2, <3>2 DEF Bare, Clean
  <2>5. CASE f.buf # <<>>
    <3> DEFINE width == Follows[Head(f.buf)] + 1
               n == AtMost(width, Len(f.buf))
               h == SubSeq(f.buf, 1, n)
               d == Drop(f.buf, n)
               b == [f EXCEPT !.buf = d]
               s == [ip |-> b, have |-> h, rest |-> width - n]
    <3>1. r \in Rounds(s, FALSE)
      BY <2>1, <2>5 DEF FetchRest
    <3>2. n \in 0..Len(f.buf) /\ width - n \in Nat /\ f.buf \in Seq(Byte) /\ Len(f.buf) \in Nat
      <4>1. f.buf \in Seq(Byte) /\ Len(f.buf) \in Nat /\ Head(f.buf) \in Byte
        BY <2>3, <2>5, InputParts, ByteParts
      <4>2. Follows[Head(f.buf)] \in 0..5
        BY <4>1, DeviceFacts
      <4> QED
        BY <4>1, <4>2 DEF AtMost
    <3> HIDE DEF n, width
    <3>3. h \in Seq(Byte) /\ d \in Seq(Byte) /\ h \o d = f.buf /\ Len(d) = Len(f.buf) - n
      BY <3>2, ByteParts
    <3> HIDE DEF h, d
    <3>4. Len(d) <= Len(f.buf) /\ <<>> \o h = h
      BY <3>2, <3>3, ByteSeqs
    <3>5. Reach(f, <<>>, b, h) /\ Bare(b)
      <4>1. Reach(f, <<>>, b, <<>> \o h) /\ Bare(b)
        BY <1>0, <2>2, <2>3, <3>3, <3>4, TakenBytes
      <4> QED
        BY <3>4, <4>1
    <3> HIDE DEF b
    <3>6. Reach(a, <<>>, b, h)
      BY <1>0, <2>2, <3>5, ReachTrans
    <3>7. s \in RoundStates(a, <<>>)
      <4>1. b \in Inputs /\ h \in Seq(Byte)
        BY <3>6 DEF Reach, Sized
      <4> QED
        BY <3>2, <3>5, <3>6, <4>1 DEF RoundStates
    <3> HIDE DEF s
    <3>8. Reach(a, <<>>, r[1], r[2]) /\ Bare(r[1])
      BY <1>0, <3>1, <3>7, RoundsReach
    <3>9. r[2] \in Seq(Byte)
      BY <3>8 DEF Reach
    <3> QED
      BY <3>8, <3>9 DEF Bare, Clean
  <2> QED
    BY <2>4, <2>5
<1> QED
  BY <1>0, <1>1, <1>2, <1>3, <1>4

\* More bytes in hand make no difference.
LEMMA ReachPrefix ==
    ASSUME NEW a, Sized(a), NEW b, NEW y, Reach(a, <<>>, b, y), NEW z \in Seq(Byte)
    PROVE  Reach(a, z, b, z \o y)
<1> DEFINE s == Span(a.pos, b.pos)
           u == Pending(a)
           v == Pending(b)
<1>1. Sized(b) /\ y \in Seq(Byte) /\ a.pos <= b.pos /\ y \o v = (<<>> \o u) \o s
  BY DEF Reach
<1>2. u \in Seq(Byte) /\ v \in Seq(Byte) /\ s \in Seq(Byte)
  BY <1>1, InputParts, Spans
<1>3. (z \o y) \o v = (z \o u) \o s /\ z \o y \in Seq(Byte)
  <2> HIDE DEF s, u, v
  <2>1. (z \o y) \o v = z \o (y \o v) /\ (z \o u) \o s = z \o (u \o s)
    BY <1>1, <1>2, ByteAssoc
  <2>2. y \o v = u \o s
    BY <1>1, <1>2, ByteSeqs
  <2> QED
    BY <1>1, <2>1, <2>2, ByteSeqs
<1> QED
  BY <1>3 DEF Reach

\* bufport_read.
LEMMA ReadBlockReach ==
    ASSUME NEW a, Sized(a), Bare(a), NEW n \in Nat, NEW r \in ReadBlock(a, n)
    PROVE  Reach(a, <<>>, r[1], r[2]) /\ Bare(r[1])
<1> DEFINE s == [ip |-> a, have |-> <<>>, rest |-> n]
<1>1. PICK e \in Seq(Byte) : e = <<>>
  BY ByteSeqs
<1>2. s \in RoundStates(a, e)
  <2>1. Reach(a, e, a, e) /\ a \in Inputs
    BY ReachSame DEF Sized
  <2> QED
    BY <1>1, <2>1 DEF RoundStates
<1>3. r \in Rounds(Take(s), TRUE)
  BY DEF ReadBlock
<1> HIDE DEF s
<1>4. Take(s) \in RoundStates(a, e)
  BY <1>2, TakeStays
<1>5. Reach(a, e, r[1], r[2]) /\ Bare(r[1])
  BY <1>3, <1>4, RoundsReach
<1> QED
  BY <1>1, <1>5

\* Scm_Getz, but for the case that loses a byte.
LEMMA GetzReach ==
    ASSUME NEW a, Sized(a), NEW n \in Nat, NEW r \in Getz(a, n)
    PROVE  /\ Sized(r[1]) /\ r[2] \in Seq(Byte) /\ r[1].got = a.got /\ (a.mangled => r[1].mangled)
           /\ Clean(a) /\ ~r[1].mangled => Reach(a, <<>>, r[1], r[2]) /\ Clean(r[1])
<1> DEFINE back == IF a.scratch # <<>> THEN a.scratch ELSE a.ungotten
           free == [a EXCEPT !.scratch = <<>>, !.ungotten = <<>>]
<1>0. /\ a.buf \in Seq(Byte) /\ a.scratch \in Seq(Byte) /\ a.ungotten \in Seq(Byte) /\ a \in Inputs
      /\ a.eof \in BOOLEAN /\ a.mangled \in BOOLEAN /\ <<>> \in Seq(Byte) /\ Len(a.buf) <= InputSize
  BY InputParts, ByteSeqs DEF Sized
<1>1. back \in Seq(Byte) /\ Len(back) \in Nat /\ (Clean(a) => back = a.scratch \o a.ungotten)
  BY <1>0, ByteSeqs DEF Clean
<1>2. /\ free \in Inputs /\ free.pos = a.pos /\ free.buf = a.buf /\ free.got = a.got /\ free.mangled = a.mangled
      /\ free.scratch = <<>> /\ free.ungotten = <<>>
  BY <1>0 DEF Inputs
<1>3. Sized(free) /\ Bare(free)
  BY <1>0, <1>2 DEF Sized, Bare
<1>4. CASE a.eof /\ a.scratch = <<>>
  <2> DEFINE b == [a EXCEPT !.eof = FALSE]
  <2>1. r = <<b, <<>>>>
    BY <1>4 DEF Getz
  <2>2. /\ b \in Inputs /\ b.pos = a.pos /\ b.buf = a.buf /\ b.got = a.got /\ b.mangled = a.mangled
        /\ b.scratch = a.scratch /\ b.ungotten = a.ungotten
    BY <1>0 DEF Inputs
  <2> HIDE DEF b
  <2>3. <<>> \o (b.scratch \o b.ungotten) = a.scratch \o a.ungotten
    BY <1>0, <2>2, ByteSeqs
  <2>4. Reach(a, <<>>, b, <<>>)
    BY <1>0, <2>2, <2>3, FrontTaken
  <2>5. Sized(b) /\ r[1] = b /\ r[2] = <<>>
    BY <2>1, <2>4 DEF Reach
  <2> QED
    BY <1>0, <2>2, <2>4, <2>5 DEF Clean
<1>5. CASE ~(a.eof /\ a.scratch = <<>>) /\ Len(back) >= n
  <2> DEFINE y == SubSeq(back, 1, n)
             d == Drop(back, n)
             b == [free EXCEPT !.scratch = d]
  <2>1. r = <<b, y>>
    BY <1>5 DEF Getz
  <2>2. y \in Seq(Byte) /\ d \in Seq(Byte) /\ y \o d = back
    <3>1. n \in 0..Len(back)
      BY <1>1, <1>5
    <3> HIDE DEF back
    <3> QED
      BY <1>1, <3>1, ByteParts
  <2> HIDE DEF y, d, free, back
  <2>3. /\ b \in Inputs /\ b.pos = a.pos /\ b.buf = a.buf /\ b.got = a.got /\ b.mangled = a.mangled
        /\ b.scratch = d /\ b.ungotten = <<>>
    BY <1>0, <1>2, <2>2 DEF Inputs
  <2> HIDE DEF b
  <2>4. Sized(b) /\ r[1] = b /\ r[2] = y
    BY <1>0, <2>1, <2>3 DEF Sized
  <2>5. Clean(a) => y \o (b.scratch \o b.ungotten) = a.scratch \o a.ungotten
    BY <1>1, <2>2, <2>3, ByteSeqs
  <2>6. Clean(a) => Reach(a, <<>>, b, y)
    BY <2>2, <2>3, <2>5, FrontTaken
  <2> QED
    BY <2>2, <2>3, <2>4, <2>6 DEF Clean
<1>6. CASE ~(a.eof /\ a.scratch = <<>>) /\ ~(Len(back) >= n)
  <2> DEFINE m == n - Len(back)
             Lost(q) == <<[q[1] EXCEPT !.mangled = TRUE], SubSeq(back, 1, Len(back) - 1)>>
  <2>1. PICK q \in ReadBlock(free, m) : r = IF back # <<>> /\ q[2] = <<>> THEN Lost(q) ELSE <<q[1], back \o q[2]>>
    BY <1>6 DEF Getz
  <2>2. m \in Nat
    BY <1>1, <1>6
  <2> HIDE DEF free, back, m
  <2>3. Reach(free, <<>>, q[1], q[2]) /\ Bare(q[1])
    BY <1>3, <2>1, <2>2, ReadBlockReach
  <2>4. Sized(q[1]) /\ q[1] \in Inputs /\ q[2] \in Seq(Byte) /\ q[1].got = a.got /\ q[1].mangled = a.mangled
    BY <1>2, <2>3 DEF Reach, Sized
  <2>5. CASE back # <<>> /\ q[2] = <<>>
    <3> DEFINE b == [q[1] EXCEPT !.mangled = TRUE]
               y == SubSeq(back, 1, Len(back) - 1)
    <3>1. r = <<b, y>>
      BY <2>1, <2>5
    <3>2. b \in Inputs /\ b.buf = q[1].buf /\ b.got = a.got /\ b.mangled = TRUE
      BY <2>4 DEF Inputs
    <3>3. y \in Seq(Byte)
      <4>1. Len(back) - 1 \in 0..Len(back)
        BY <1>1, <2>5, ByteParts
      <4> QED
        BY <1>1, <4>1, ByteParts
    <3> HIDE DEF b, y
    <3>4. Sized(b) /\ r[1] = b /\ r[2] = y
      BY <2>4, <3>1, <3>2 DEF Sized
    <3> QED
      BY <3>2, <3>3, <3>4
  <2>6. CASE ~(back # <<>> /\ q[2] = <<>>)
    <3>1. r = <<q[1], back \o q[2]>>
      BY <2>1, <2>6
    <3>2. r[1] = q[1] /\ r[2] = back \o q[2]
      BY <3>1
    <3>3. back \o q[2] \in Seq(Byte)
      BY <1>1, <2>4, ByteSeqs
    <3>4. ASSUME Clean(a) PROVE Reach(a, <<>>, q[1], back \o q[2])
      <4>1. back \o (free.scratch \o free.ungotten) = a.scratch \o a.ungotten
        <5>1. free.scratch \o free.ungotten = <<>>
          BY <1>0, <1>2, ByteSeqs
        <5>2. back \o <<>> = back
          BY <1>1, ByteSeqs
        <5> QED
          BY <1>1, <3>4, <5>1, <5>2
      <4>2. PICK e \in Seq(Byte) : e = <<>>
        BY <1>0
      <4>3. Reach(a, e, free, back)
        BY <1>1, <1>2, <4>1, <4>2, FrontTaken
      <4>4. Reach(free, back, q[1], back \o q[2])
        BY <1>1, <1>3, <2>3, ReachPrefix
      <4>5. Reach(a, e, q[1], back \o q[2])
        BY <4>3, <4>4, ReachTrans
      <4> QED
        BY <4>2, <4>5
    <3> QED
      BY <2>3, <2>4, <3>2, <3>3, <3>4 DEF Bare, Clean
  <2> QED
    BY <2>5, <2>6
<1> QED
  BY <1>4, <1>5, <1>6

-----------------------------------------------------------------------------
(* What reading keeps.                                                         *)

\* What has been given and what is pending make up the device, as far as it has been read.
Whole(ip) == ip.got \o Pending(ip) = Span(0, ip.pos)
InputOK(ip) == Sized(ip) /\ (~ip.mangled => Whole(ip) /\ Clean(ip))

\* What has been given grows by what was read.
LEMMA WholeKept ==
    ASSUME NEW a, Sized(a), Whole(a), NEW b, NEW y, Reach(a, <<>>, b, y),
           NEW c, c.got = a.got \o y, c.pos = b.pos, Pending(c) = Pending(b)
    PROVE  Whole(c)
<1> DEFINE o == a.got
           u == Pending(a)
           v == Pending(b)
           s == Span(a.pos, b.pos)
<1>1. /\ Sized(b) /\ y \in Seq(Byte) /\ a.pos <= b.pos /\ y \o v = (<<>> \o u) \o s
      /\ o \o u = Span(0, a.pos)
  BY DEF Reach, Whole
<1>2. /\ o \in Seq(Byte) /\ u \in Seq(Byte) /\ v \in Seq(Byte) /\ a.pos \in Nat
      /\ a.pos \in 0..Len(Follows) /\ b.pos \in 0..Len(Follows)
  BY <1>1, InputParts
<1>3. s \in Seq(Byte) /\ Span(0, a.pos) \o s = Span(0, b.pos)
  <2>1. 0 \in 0..Len(Follows) /\ 0 <= a.pos
    BY <1>2, DeviceFacts
  <2> QED
    BY <1>1, <1>2, <2>1, Spans
<1> HIDE DEF o, u, v, s
<1>4. y \o v = u \o s
  BY <1>1, <1>2, ByteSeqs
<1>5. (o \o y) \o v = (o \o u) \o s
  <2>1. o \in Seq(Byte) /\ u \in Seq(Byte) /\ v \in Seq(Byte)
    BY <1>2
  <2>2. y \in Seq(Byte) /\ s \in Seq(Byte)
    BY <1>1, <1>3
  <2>3. (o \o y) \o v = o \o (y \o v)
    BY <2>1, <2>2, ByteAssoc
  <2>4. (o \o u) \o s = o \o (u \o s)
    BY <2>1, <2>2, ByteAssoc
  <2> QED
    BY <1>4, <2>3, <2>4
<1> QED
  BY <1>1, <1>3, <1>5 DEF Whole, o, v

\* The caller is given what was read, if nothing is mangled.
LEMMA DeliveredOK ==
    ASSUME NEW a, InputOK(a), NEW b, Sized(b), NEW y \in Seq(Byte), b.got = a.got, a.mangled => b.mangled,
           ~b.mangled /\ Clean(a) => Reach(a, <<>>, b, y) /\ Clean(b)
    PROVE  InputOK([b EXCEPT !.got = b.got \o y])
<1> DEFINE c == [b EXCEPT !.got = b.got \o y]
<1>0. /\ Sized(a) /\ b \in Inputs /\ Sized(b) /\ y \in Seq(Byte) /\ a.got \in Seq(Byte) /\ b.got = a.got
      /\ Pending(a) \in Seq(Byte) /\ Pending(b) \in Seq(Byte) /\ a.pos \in 0..Len(Follows) /\ b.pos \in 0..Len(Follows)
      /\ a.pos \in Nat /\ b.pos \in Nat /\ a.mangled \in BOOLEAN /\ b.mangled \in BOOLEAN
  BY InputParts DEF InputOK, Sized
<1>1. a.got \o y \in Seq(Byte)
  BY <1>0, ByteSeqs
<1>2. ~b.mangled => ~a.mangled /\ Clean(a) /\ Whole(a) /\ Reach(a, <<>>, b, y) /\ Clean(b)
  BY <1>0 DEF InputOK
<1>3. /\ c \in Inputs /\ c.got = a.got \o y /\ c.pos = b.pos /\ c.buf = b.buf /\ c.scratch = b.scratch
      /\ c.ungotten = b.ungotten /\ c.mangled = b.mangled
  BY <1>0, <1>1 DEF Inputs
<1> HIDE DEF c
<1>4. Sized(c) /\ Pending(c) = Pending(b) /\ (Clean(b) => Clean(c))
  BY <1>0, <1>3 DEF Sized, Pending, Clean
<1>5. ~b.mangled => Whole(c)
  BY <1>0, <1>2, <1>3, <1>4, WholeKept
<1>6. InputOK(c)
  BY <1>2, <1>3, <1>4, <1>5 DEF InputOK
<1> QED
  BY <1>6 DEF c

\* What was read is pushed back.
LEMMA PushedBackOK ==
    ASSUME NEW a, InputOK(a), NEW b, Reach(a, <<>>, b, <<>>), Clean(a) => Clean(b)
    PROVE  InputOK(b)
<1> DEFINE u == Pending(a)
           v == Pending(b)
           s == Span(a.pos, b.pos)
<1>1. /\ Sized(a) /\ Sized(b) /\ a.got \in Seq(Byte) /\ b.got = a.got /\ b.mangled = a.mangled
      /\ u \in Seq(Byte) /\ v \in Seq(Byte) /\ a.pos \in 0..Len(Follows) /\ b.pos \in 0..Len(Follows)
      /\ a.pos \in Nat /\ b.pos \in Nat /\ a.pos <= b.pos
  <2>1. Sized(a) /\ Sized(b) /\ b.got = a.got /\ b.mangled = a.mangled /\ a.pos <= b.pos
    BY DEF InputOK, Reach
  <2> QED
    BY <2>1, InputParts
<1>2. <<>> \o v = (<<>> \o u) \o s
  BY DEF Reach
<1>3. s \in Seq(Byte) /\ Span(0, a.pos) \o s = Span(0, b.pos)
  <2>1. 0 \in 0..Len(Follows) /\ 0 <= a.pos
    BY <1>1, DeviceFacts
  <2> QED
    BY <1>1, <2>1, Spans
<1>4. ASSUME Whole(a) PROVE Whole(b)
  <2>1. a.got \o u = Span(0, a.pos)
    BY <1>4 DEF Whole
  <2> HIDE DEF u, v, s
  <2>2. v = u \o s
    BY <1>1, <1>2, <1>3, ByteSeqs
  <2>3. (a.got \o u) \o s = a.got \o (u \o s)
    BY <1>1, <1>3, ByteAssoc
  <2> QED
    BY <1>1, <1>3, <2>1, <2>2, <2>3 DEF Whole, v
<1> QED
  BY <1>1, <1>4 DEF InputOK

\* EOF is pushed back.
LEMMA EofReach ==
    ASSUME NEW a, NEW b, Reach(a, <<>>, b, <<>>)
    PROVE  /\ Reach(a, <<>>, [b EXCEPT !.eof = TRUE], <<>>)
           /\ Clean(b) => Clean([b EXCEPT !.eof = TRUE])
<1> DEFINE c == [b EXCEPT !.eof = TRUE]
<1>1. b \in Inputs /\ Sized(b)
  BY DEF Reach, Sized
<1>2. /\ c \in Inputs /\ c.pos = b.pos /\ c.buf = b.buf /\ c.got = b.got /\ c.mangled = b.mangled
      /\ c.scratch = b.scratch /\ c.ungotten = b.ungotten
  BY <1>1 DEF Inputs
<1> HIDE DEF c
<1>3. Sized(c) /\ Pending(c) = Pending(b) /\ (Clean(b) => Clean(c))
  BY <1>1, <1>2 DEF Sized, Pending, Clean
<1>4. Reach(a, <<>>, c, <<>>)
  BY <1>2, <1>3 DEF Reach
<1> QED
  BY <1>3, <1>4 DEF c

\* Scm_Peekb.
LEMMA PeekbOK ==
    ASSUME NEW a, InputOK(a), NEW b \in Peekb(a)
    PROVE  InputOK(b)
<1>1. CASE a.scratch # <<>>
  BY <1>1 DEF Peekb
<1>2. CASE a.scratch = <<>>
  <2>1. PICK g \in Getb(a) : b = IF g[2] = <<>> THEN [g[1] EXCEPT !.eof = TRUE]
                                 ELSE [g[1] EXCEPT !.scratch = g[2] \o g[1].scratch]
    BY <1>2 DEF Peekb
  <2>2. /\ g[2] \in Seq(Byte) /\ Reach(a, <<>>, g[1], g[2]) /\ (Clean(a) => Clean(g[1]))
        /\ g[2] # <<>> => g[1].ungotten = <<>>
    <3>1. PICK e \in Seq(Byte) : e = <<>>
      BY ByteSeqs
    <3>2. /\ g[2] \in Seq(Byte) /\ Reach(a, e, g[1], e \o g[2]) /\ (Clean(a) => Clean(g[1]))
          /\ g[2] # <<>> => g[1].ungotten = <<>>
      BY <1>2, <3>1, GetbReach DEF InputOK
    <3>3. e \o g[2] = g[2]
      BY <3>1, <3>2, ByteSeqs
    <3> QED
      BY <3>1, <3>2, <3>3
  <2>3. CASE g[2] = <<>>
    <3>1. b = [g[1] EXCEPT !.eof = TRUE] /\ Reach(a, <<>>, g[1], <<>>)
      BY <2>1, <2>2, <2>3
    <3>2. Reach(a, <<>>, b, <<>>) /\ (Clean(a) => Clean(b))
      BY <2>2, <3>1, EofReach
    <3> QED
      BY <3>2, PushedBackOK
  <2>4. CASE g[2] # <<>>
    <3> DEFINE p == g[1]
               y == g[2]
               t == y \o p.scratch
    <3>1. b = [p EXCEPT !.scratch = t] /\ y \in Seq(Byte) /\ Reach(a, <<>>, p, y) /\ p.ungotten = <<>>
      BY <2>1, <2>2, <2>4
    <3> HIDE DEF p, y
    <3>2. Sized(p) /\ p \in Inputs
      BY <3>1 DEF Reach, Sized
    <3>3. p.scratch \in Seq(Byte) /\ p.buf \in Seq(Byte) /\ t \in Seq(Byte) /\ Pending(p) \in Seq(Byte)
      BY <3>1, <3>2, InputParts, ByteSeqs
    <3> HIDE DEF t
    <3>4. /\ b \in Inputs /\ b.pos = p.pos /\ b.buf = p.buf /\ b.got = p.got /\ b.mangled = p.mangled
          /\ b.scratch = t /\ b.ungotten = <<>>
      BY <3>1, <3>2, <3>3 DEF Inputs
    <3>5. Sized(b) /\ Clean(b)
      BY <3>2, <3>4 DEF Sized, Clean
    <3>6. Pending(b) = y \o Pending(p)
      <4>1. Pending(b) = t \o p.buf /\ Pending(p) = p.scratch \o p.buf
        BY <3>1, <3>3, <3>4, ByteSeqs DEF Pending
      <4>2. (y \o p.scratch) \o p.buf = y \o (p.scratch \o p.buf)
        BY <3>1, <3>3, ByteAssoc
      <4> QED
        BY <4>1, <4>2 DEF t
    <3>7. <<>> \o Pending(b) = Pending(b) /\ <<>> \in Seq(Byte)
      BY <3>5, InputParts, ByteSeqs
    <3>8. Reach(a, <<>>, b, <<>>)
      BY <3>1, <3>4, <3>5, <3>6, <3>7 DEF Reach
    <3> QED
      BY <3>5, <3>8, PushedBackOK
  <2> QED
    BY <2>3, <2>4
<1> QED
  BY <1>1, <1>2

\* Scm_Peekc.
LEMMA PeekcOK ==
    ASSUME NEW a, InputOK(a), NEW b \in Peekc(a)
    PROVE  InputOK(b)
<1>1. CASE HasUngotten(a)
  BY <1>1 DEF Peekc
<1>2. CASE ~HasUngotten(a)
  <2>1. PICK g \in Getc(a) : b = IF g[2] = <<>> THEN [g[1] EXCEPT !.eof = TRUE] ELSE [g[1] EXCEPT !.ungotten = g[2]]
    BY <1>2 DEF Peekc
  <2>2. g[2] \in Seq(Byte) /\ Reach(a, <<>>, g[1], g[2]) /\ Bare(g[1])
    BY <1>2, GetcReach DEF InputOK
  <2>3. CASE g[2] = <<>>
    <3>1. b = [g[1] EXCEPT !.eof = TRUE] /\ Reach(a, <<>>, g[1], <<>>) /\ Clean(g[1])
      BY <2>1, <2>2, <2>3 DEF Bare, Clean
    <3>2. Reach(a, <<>>, b, <<>>) /\ Clean(b)
      BY <3>1, EofReach
    <3> QED
      BY <3>2, PushedBackOK
  <2>4. CASE g[2] # <<>>
    <3> DEFINE p == g[1]
               y == g[2]
    <3>1. b = [p EXCEPT !.ungotten = y] /\ y \in Seq(Byte) /\ Reach(a, <<>>, p, y) /\ p.scratch = <<>> /\ p.ungotten = <<>>
      BY <2>1, <2>2, <2>4 DEF Bare
    <3> HIDE DEF p, y
    <3>2. Sized(p) /\ p \in Inputs
      BY <3>1 DEF Reach, Sized
    <3>3. /\ b \in Inputs /\ b.pos = p.pos /\ b.buf = p.buf /\ b.got = p.got /\ b.mangled = p.mangled
          /\ b.scratch = <<>> /\ b.ungotten = y
      BY <3>1, <3>2 DEF Inputs
    <3>4. Sized(b) /\ Clean(b) /\ p.buf \in Seq(Byte)
      BY <3>2, <3>3, InputParts DEF Sized, Clean
    <3>5. Pending(b) = y \o Pending(p)
      <4>1. <<>> \o y = y /\ <<>> \o <<>> = <<>> /\ <<>> \o p.buf = p.buf
        BY <3>1, <3>4, ByteSeqs
      <4>2. Pending(b) = (<<>> \o y) \o p.buf /\ Pending(p) = (<<>> \o <<>>) \o p.buf
        BY <3>1, <3>3 DEF Pending
      <4> QED
        BY <4>1, <4>2
    <3>6. <<>> \o Pending(b) = Pending(b) /\ <<>> \in Seq(Byte)
      BY <3>4, InputParts, ByteSeqs
    <3>7. Reach(a, <<>>, b, <<>>)
      BY <3>1, <3>3, <3>4, <3>5, <3>6 DEF Reach
    <3> QED
      BY <3>4, <3>7, PushedBackOK
  <2> QED
    BY <2>3, <2>4
<1> QED
  BY <1>1, <1>2

\* A character that begins inside a character.
LEMMA MangledOK ==
    ASSUME NEW a, InputOK(a)
    PROVE  InputOK(Mangled(a))
<1> DEFINE b == Mangled(a)
<1>1. a \in Inputs /\ Sized(a) /\ a.mangled \in BOOLEAN
  BY InputParts DEF InputOK, Sized
<1>2. InCharacter(a) \in BOOLEAN
  BY DEF InCharacter
<1>3. /\ b \in Inputs /\ b.pos = a.pos /\ b.buf = a.buf /\ b.got = a.got /\ b.scratch = a.scratch
      /\ b.ungotten = a.ungotten /\ b.mangled = (a.mangled \/ InCharacter(a))
  BY <1>1, <1>2 DEF Inputs, Mangled
<1> HIDE DEF b
<1>4. Sized(b) /\ Pending(b) = Pending(a) /\ (Clean(a) => Clean(b))
  BY <1>1, <1>3 DEF Sized, Pending, Clean
<1>5. InputOK(b)
  BY <1>3, <1>4 DEF InputOK, Whole
<1> QED
  BY <1>5 DEF b

\* The reading operations.
LEMMA ReadingOK ==
    ASSUME NEW a, InputOK(a), NEW op \in {"getb", "peekb", "getc", "peekc", "getz"}, NEW b \in Reading(op, a)
    PROVE  InputOK(b)
<1>0. Sized(a)
  BY DEF InputOK
<1>1. CASE op = "getb"
  <2>1. Reading(op, a) = Delivered(Getb(a))
    BY <1>1 DEF Reading
  <2>2. PICK r \in Getb(a) : b = [r[1] EXCEPT !.got = r[1].got \o r[2]]
    BY <2>1 DEF Delivered
  <2>3. r[2] \in Seq(Byte) /\ Reach(a, <<>>, r[1], r[2]) /\ (Clean(a) => Clean(r[1]))
    <3>1. PICK e \in Seq(Byte) : e = <<>>
      BY ByteSeqs
    <3>2. r[2] \in Seq(Byte) /\ Reach(a, e, r[1], e \o r[2]) /\ (Clean(a) => Clean(r[1]))
      BY <1>0, GetbReach
    <3>3. e \o r[2] = r[2]
      BY <3>1, <3>2, ByteSeqs
    <3> QED
      BY <3>1, <3>2, <3>3
  <2>4. Sized(r[1]) /\ r[1].got = a.got /\ r[1].mangled = a.mangled
    BY <2>3 DEF Reach
  <2>5. InputOK([r[1] EXCEPT !.got = r[1].got \o r[2]])
    BY <2>3, <2>4, DeliveredOK
  <2> QED
    BY <2>2, <2>5
<1>2. CASE op = "peekb"
  <2>1. Reading(op, a) = Peekb(a)
    BY <1>2 DEF Reading
  <2> QED
    BY <2>1, PeekbOK
<1>3. CASE op = "getc"
  <2> DEFINE c == Mangled(a)
  <2>1. Reading(op, a) = Delivered(Getc(c))
    BY <1>3 DEF Reading
  <2>2. PICK r \in Getc(c) : b = [r[1] EXCEPT !.got = r[1].got \o r[2]]
    BY <2>1 DEF Delivered
  <2>3. InputOK(c)
    BY MangledOK
  <2> HIDE DEF c
  <2>4. r[2] \in Seq(Byte) /\ Reach(c, <<>>, r[1], r[2]) /\ (Clean(c) => Clean(r[1]))
    BY <2>3, GetcReach DEF InputOK
  <2>5. Sized(r[1]) /\ r[1].got = c.got /\ r[1].mangled = c.mangled
    BY <2>4 DEF Reach
  <2>6. InputOK([r[1] EXCEPT !.got = r[1].got \o r[2]])
    BY <2>3, <2>4, <2>5, DeliveredOK
  <2> QED
    BY <2>2, <2>6
<1>4. CASE op = "peekc"
  <2>1. Reading(op, a) = Peekc(Mangled(a))
    BY <1>4 DEF Reading
  <2>2. InputOK(Mangled(a))
    BY MangledOK
  <2> QED
    BY <2>1, <2>2, PeekcOK
<1>5. CASE op = "getz"
  <2>1. Reading(op, a) = Delivered(Getz(a, 2))
    BY <1>5 DEF Reading
  <2>2. PICK r \in Getz(a, 2) : b = [r[1] EXCEPT !.got = r[1].got \o r[2]]
    BY <2>1 DEF Delivered
  <2>3. /\ Sized(r[1]) /\ r[2] \in Seq(Byte) /\ r[1].got = a.got /\ (a.mangled => r[1].mangled)
        /\ Clean(a) /\ ~r[1].mangled => Reach(a, <<>>, r[1], r[2]) /\ Clean(r[1])
    BY <1>0, GetzReach
  <2>4. InputOK([r[1] EXCEPT !.got = r[1].got \o r[2]])
    BY <2>3, DeliveredOK
  <2> QED
    BY <2>2, <2>4
<1> QED
  BY <1>1, <1>2, <1>3, <1>4, <1>5

\* What it says.
LEMMA InputOKExact ==
    ASSUME NEW a, InputOK(a)
    PROVE  Exact(a)
<1>1. a.pos \in Nat
  BY InputParts DEF InputOK
<1>2. Span(0, a.pos) = [k \in 1..a.pos |-> k]
  BY <1>1 DEF Span
<1> QED
  BY <1>2 DEF InputOK, Whole, Clean, Exact

\* A new port.
LEMMA NewInputOK == InputOK(NewInput)
<1>1. Len(Follows) \in Nat /\ InputSize \in Nat /\ <<>> \in Seq(Byte) /\ <<>> \o <<>> = <<>> /\ Len(<<>>) = 0
  BY DeviceFacts, ByteSeqs, EmptySeq
<1>2. NewInput \in Inputs /\ Sized(NewInput)
  BY <1>1 DEF NewInput, Inputs, Sized
<1>3. Span(0, 0) = <<>>
  BY <1>1, Spans
<1>4. Pending(NewInput) = <<>> /\ NewInput.got = <<>> /\ NewInput.pos = 0 /\ NewInput.scratch = <<>>
  BY <1>1 DEF Pending, NewInput
<1> QED
  BY <1>1, <1>2, <1>3, <1>4 DEF InputOK, Whole, Clean

-----------------------------------------------------------------------------
(* The input ports.                                                            *)

\* What an input port has read, given and pushed back.
InputInv == input \in [IPorts -> Inputs] /\ \A p \in IPorts : InputOK(input[p])

\* Only one step reads.
LEMMA OthersReadNothing ==
    ASSUME NEW t \in Threads, Step(t), ~Read(t)
    PROVE  input' = input
<1>1. CASE Lock(t) \/ Unlock(t) \/ Flush(t, TRUE) \/ Flush(t, FALSE) \/ FlushFails(t)
           \/ ClosedError(t) \/ PeekbClosedError(t)
  BY <1>1 DEF Lock, Unlock, Flush, FlushFails, ClosedError, PeekbClosedError
<1>2. CASE Put(t) \/ Write(t) \/ Putc(t) \/ Store(t) \/ FlushPort(t) \/ FlushRelease(t)
           \/ FlushSetFlag(t) \/ Close(t) \/ Closing(t) \/ FlushLinked(t)
  BY <1>2 DEF Put, Write, Putc, Store, FlushPort, FlushRelease, FlushSetFlag, Close, Closing, FlushLinked
<1>3. CASE LinkPorts(t) \/ LinkPorts2(t) \/ LinkPorts3(t) \/ LockHeld(t) \/ (\E p \in AllPorts : UnlockHeld(t, p))
  BY <1>3 DEF LinkPorts, LinkPorts2, LinkPorts3, LockHeld, UnlockHeld
<1>4. CASE Open(t) \/ FlushAllScan(t) \/ FlushAllRead(t) \/ FlushAllWrite(t) \/ FlushAllAdjust(t)
           \/ FlushAllFails(t) \/ FlushAllRestore(t)
  BY <1>4 DEF Open, FlushAllScan, FlushAllRead, FlushAllWrite, FlushAllAdjust, FlushAllFails, FlushAllRestore
<1> QED
  BY <1>1, <1>2, <1>3, <1>4, Zenon DEF Step

\* A reading operation is about an input port.
LEMMA ReadPort ==
    ASSUME LockInv, NEW t \in Threads, Read(t)
    PROVE  Top(t).op \in Reads /\ Top(t).p \in IPorts
<1>1. call[t] # <<>> /\ Top(t).op \in Reads
  BY ReadStep DEF Read, At
<1> QED
  BY <1>1, TopFacts DEF Fit, PortFit

\* InputInv is kept by every step.
LEMMA InputStep == LockInv /\ InputInv /\ [Next]_vars => InputInv'
<1> SUFFICES ASSUME LockInv, InputInv, [Next]_vars PROVE InputInv'
  OBVIOUS
<1>1. ASSUME NEW t \in Threads, Read(t) PROVE InputInv'
  <2> DEFINE p == Top(t).p
             op == Top(t).op
  <2>1. op \in Reads /\ p \in IPorts
    BY <1>1, ReadPort
  <2>2. PICK ip \in Reading(op, input[p]) : input' = [input EXCEPT ![p] = ip]
    BY <1>1 DEF Read
  <2> HIDE DEF p, op
  <2>3. InputOK(input[p])
    BY <2>1 DEF InputInv
  <2>4. InputOK(ip)
    BY <2>1, <2>2, <2>3, ReadingOK DEF Reads
  <2>5. ip \in Inputs
    BY <2>4 DEF InputOK, Sized
  <2>6. input' \in [IPorts -> Inputs] /\ \A q \in IPorts : input'[q] = IF q = p THEN ip ELSE input[q]
    BY <2>1, <2>2, <2>5 DEF InputInv
  <2>7. \A q \in IPorts : InputOK(input'[q])
    BY <2>4, <2>6 DEF InputInv
  <2> QED
    BY <2>6, <2>7 DEF InputInv
<1>2. CASE input' = input
  BY <1>2 DEF InputInv
<1>3. ASSUME NEW t \in Threads, (\E c \in MayCall[t] : Call(t, c[1], c[2])) \/ Terminate(t)
      PROVE  input' = input
  BY <1>3 DEF Call, Terminate
<1>4. UNCHANGED vars => input' = input
  BY DEF vars
<1> QED
  BY <1>1, <1>2, <1>3, <1>4, OthersReadNothing DEF Next

\* It holds at the beginning.
LEMMA InputInit == Init => InputInv
<1> SUFFICES ASSUME Init PROVE InputInv
  OBVIOUS
<1>1. input = [p \in IPorts |-> NewInput]
  BY DEF Init
<1>2. NewInput \in Inputs
  BY NewInputOK DEF InputOK, Sized
<1>3. \A p \in IPorts : input[p] = NewInput
  BY <1>1
<1> QED
  BY <1>1, <1>2, <1>3, NewInputOK DEF InputInv

\* Every byte of an input port is given to a caller once and in order, whichever mix
\* of bytes, characters, blocks and peeks the threads read, however few bytes read(2)
\* returns and whatever the size of the buffer; a byte that is pushed back is in one
\* place only.  Left out are a block read at EOF that loses a byte and a character
\* read that begins inside a character: see PortInput.
THEOREM InputsAreExact == Spec => []InputExact
<1>1. Init => LockInv /\ InputInv
  BY LockInvInit, InputInit
<1>2. (LockInv /\ InputInv) /\ [Next]_vars => (LockInv /\ InputInv)'
  BY LockInvStep, InputStep
<1>3. InputInv => InputExact
  BY InputOKExact DEF InputInv, InputExact
<1> QED
  BY <1>1, <1>2, <1>3, PTL DEF Spec
=============================================================================
