------------------------------- MODULE Ports -------------------------------
(* Buffered ports of Gauche (src/src/port.c, src/src/portapi.c) used by        *)
(* several threads: the lock of a port, the output buffer and the device       *)
(* behind it, closing, linked ports, and the table of all buffered output      *)
(* ports that flush-all-ports goes through without their locks.                *)
(*                                                                             *)
(* What a thread does under the lock of a port is split where it takes another *)
(* lock, and where it calls the flusher: write(2) may write less than it is    *)
(* given, and fail.  A byte is the number of the put call it comes from.       *)
EXTENDS Naturals, Sequences, FiniteSets, PortInput

CONSTANTS
    Threads,
    IPorts, OPorts,  \* buffered input and output ports, over files
    MayCall,         \* per thread, the <<operation, port>>s it calls
    MaxCalls,        \* bound: calls per thread
    BufSize,         \* the size of the output buffers
    PutSizes,        \* how many bytes a put writes
    InitialSlots,    \* the table of buffered output ports at the beginning
    MayFail,         \* the output ports whose device may fail
    Short,           \* the output ports whose device may write less than asked
    Unbuffered,      \* the output ports in SCM_PORT_BUFFER_NONE mode
    Mortal,          \* the threads that may be terminated
    NoThread, NoPort,
    Taken            \* #t in active_buffered_ports

AllPorts == IPorts \cup OPorts

Operations == {"open", "put", "putc", "flush-port", "flush-all", "close", "lock!", "link", "unlink",
               "getb", "getc", "peekb", "peekc", "getz"}

ASSUME PortsAssumption ==
    /\ IPorts \cap OPorts = {} /\ MayFail \subseteq OPorts
    /\ MayCall \in [Threads -> SUBSET (Operations \X AllPorts)]
    /\ \A t \in Threads : \A c \in MayCall[t] :
          /\ c[1] \in {"open", "put", "putc", "flush-port"} => c[2] \in OPorts
          /\ c[1] \in {"link", "getb", "getc", "peekb", "peekc", "getz"} => c[2] \in IPorts
    /\ Short \subseteq OPorts /\ Unbuffered \subseteq OPorts /\ Mortal \subseteq Threads
    /\ MaxCalls \in Nat /\ BufSize \in Nat \ {0} /\ PutSizes \subseteq Nat \ {0}
    /\ NoThread \notin Threads /\ NoPort \notin AllPorts /\ Taken \notin AllPorts /\ Taken # NoPort
    /\ InitialSlots \in Seq(OPorts \cup {NoPort})
    /\ \A r, s \in DOMAIN InitialSlots : InitialSlots[r] = InitialSlots[s] => r = s \/ InitialSlots[r] = NoPort

VARIABLES
    lock,       \* per port, [owner, count]: lockOwner and lockCount
    closed,     \* the ports with the closed flag
    error,      \* the ports with the error flag
    flushed,    \* the ports with PORT_FLUSHED
    buf,        \* per output port, the bytes in its buffer
    device,     \* per output port, the bytes that have been written
    entered,    \* per output port, the bytes that have been put into its buffer
    link,       \* per port, the port linked to it
    made,       \* the ports that exist
    slots,      \* active_buffered_ports
    input,      \* per input port, see PortInput
    call,       \* per thread, the operations in progress, innermost first
    calls,      \* per thread, the calls made
    held,       \* per thread, the ports it has locked with with-port-locking
    puts,       \* the put calls made
    spoilt,     \* the output ports that an unlocked or a failed flush has damaged
    leaked,     \* the ports that an error has left locked
    dropped,    \* the output ports that a failed flush-all-ports has forgotten
    dead        \* the threads in the state TERMINATED

streamVars == <<flushed, buf, device, entered, spoilt>>
tableVars == <<made, slots, dropped>>
vars == <<lock, closed, error, flushed, buf, device, entered, link, made, slots, input,
          call, calls, held, leaked, puts, spoilt, dropped, dead>>

\* An operation in progress: at is the next step, locked tells whether it took
\* the lock itself, next is where to go on after a flush, n counts bytes or slots.
Frame(op, p, at) ==
    [op |-> op, p |-> p, at |-> at, locked |-> FALSE, next |-> "unlock",
     q |-> NoPort, n |-> 0, save |-> [s \in DOMAIN slots |-> NoPort]]

Top(t) == call[t][1]
At(t, label) == call[t] # <<>> /\ Top(t).at = label
Set(t, frame) == call' = [call EXCEPT ![t][1] = frame]
Goto(t, label) == Set(t, [Top(t) EXCEPT !.at = label])

Reads == {"getb", "getc", "peekb", "peekc", "getz"}

-----------------------------------------------------------------------------
(* PORT_LOCK and PORT_UNLOCK.                                                  *)

\* The lock is free, or its owner is terminated; the owner itself counts.
CanLock(t, p) == lock[p].owner \in {NoThread, t} \cup dead
Locked(t, p) ==
    [lock EXCEPT ![p] = [owner |-> t, count |-> IF @.owner = t THEN @.count + 1 ELSE 1]]
Unlocked(l, p) ==
    [l EXCEPT ![p] = IF @.count > 1 THEN [owner |-> @.owner, count |-> @.count - 1]
                     ELSE [owner |-> NoThread, count |-> 0]]

\* (Mutant of Released: an error path forgets PORT_UNLOCK.)
ReleasedNothing(t) == lock

\* The lock table after the operation on top has released what it took.
Released(t) == IF Top(t).locked THEN Unlocked(lock, Top(t).p) ELSE lock

\* Another thread is in bufport_flush for p on behalf of flush-all-ports.
FlushingUnlocked(t, p) ==
    \E u \in Threads \ {t} :
        call[u] # <<>> /\ Top(u).op = "flush-all" /\ Top(u).at \in {"fa-write", "fa-adjust"}
        /\ Top(u).p = p

\* LOCK(p), or SHORTCUT: a thread that has the lock calls the Unsafe variant,
\* which takes no lock; Scm_ClosePort and with-port-locking use PORT_LOCK itself.
Lock(t) ==
    /\ At(t, "lock")
    /\ LET p == Top(t).p
       IN  /\ CanLock(t, p)
           /\ IF lock[p].owner = t /\ Top(t).op \notin {"close", "lock!"}
              THEN UNCHANGED lock /\ Goto(t, Top(t).op)
              ELSE lock' = Locked(t, p) /\ Set(t, [Top(t) EXCEPT !.at = Top(t).op, !.locked = TRUE])
           /\ spoilt' = IF FlushingUnlocked(t, p) THEN spoilt \cup {p} ELSE spoilt
    /\ UNCHANGED <<closed, error, flushed, buf, device, entered, link,
                   tableVars, input, calls, leaked, held, puts, dead>>

\* The operation returns.
Unlock(t) ==
    /\ At(t, "unlock")
    /\ lock' = Released(t)
    /\ call' = [call EXCEPT ![t] = Tail(@)]
    /\ UNCHANGED <<closed, error, streamVars, link, tableVars, input, calls,
                   leaked, held, puts, dead>>

\* An error: PORT_SAFE_CALL and CLOSE_CHECK release the lock.  When it comes from
\* flush_linked_port, the reading operation below is left as well, and except in
\* Scm_Peekc nothing releases the lock of the input port.
Fail(t) ==
    LET below == {call[t][k] : k \in {k \in 2..Len(call[t]) : call[t][k].locked}}
    IN  /\ lock' = [p \in AllPorts |->
                        IF \E f \in below : f.op = "peekc" /\ f.p = p
                        THEN Unlocked(Released(t), p)[p] ELSE Released(t)[p]]
        /\ leaked' = leaked \cup {f.p : f \in {f \in below : f.op # "peekc"}}
        /\ call' = [call EXCEPT ![t] = <<>>]

-----------------------------------------------------------------------------
(* bufport_flush and file_flusher, under the lock.                             *)

\* (Mutant of FlushDone: everything counts as written.)
FlushAllDone(t, p, k) ==
    /\ device' = [device EXCEPT ![p] = @ \o SubSeq(buf[p], 1, k)]
    /\ buf' = [buf EXCEPT ![p] = <<>>]

\* k bytes have been written; the rest is moved to the front of the buffer.
FlushDone(t, p, k) ==
    /\ device' = [device EXCEPT ![p] = @ \o SubSeq(buf[p], 1, k)]
    /\ buf' = [buf EXCEPT ![p] = SubSeq(@, k + 1, Len(@))]

\* The bytes that the flusher may write: all it has if forcep, and otherwise at
\* least one.
Written(p, forcep) ==
    IF forcep \/ p \notin Short THEN {Len(buf[p])} ELSE AtMost(1, Len(buf[p]))..Len(buf[p])

\* (Mutant of Flush: between two flushes of one put others may lock the port.)
FlushLetsGo(t, forcep) ==
    /\ At(t, IF forcep THEN "force" ELSE "flush")
    /\ \E k \in Written(Top(t).p, forcep) : FlushDone(t, Top(t).p, k)
    /\ IF Top(t).next = "write"
       THEN lock' = Released(t) /\ Set(t, [Top(t) EXCEPT !.at = "lock", !.op = "write", !.locked = FALSE])
       ELSE UNCHANGED lock /\ Goto(t, Top(t).next)
    /\ UNCHANGED <<closed, error, flushed, entered, spoilt, link, tableVars, input, calls,
                   leaked, held, puts, dead>>

Flush(t, forcep) ==
    /\ At(t, IF forcep THEN "force" ELSE "flush")
    /\ \E k \in Written(Top(t).p, forcep) : FlushDone(t, Top(t).p, k)
    /\ Goto(t, Top(t).next)
    /\ UNCHANGED <<lock, closed, error, flushed, entered, spoilt, link, tableVars, input,
                   calls, leaked, held, puts, dead>>

\* file_flusher with forcep: write(2) fails after k bytes have been written, which
\* stay in the buffer all the same, as Scm_SysError leaves bufport_flush.
WriteFails(p, k) ==
    /\ error' = error \cup {p}
    /\ device' = [device EXCEPT ![p] = @ \o SubSeq(buf[p], 1, k)]
    /\ spoilt' = IF k > 0 THEN spoilt \cup {p} ELSE spoilt

\* Without forcep one write is all there is.
FlushFails(t) ==
    /\ At(t, "force") \/ At(t, "flush")
    /\ Top(t).p \in MayFail /\ buf[Top(t).p] # <<>>
    /\ \E k \in 0..(Len(buf[Top(t).p]) - 1) :
           /\ Top(t).at = "flush" => k = 0
           /\ WriteFails(Top(t).p, k)
    /\ Fail(t)
    /\ UNCHANGED <<closed, flushed, buf, entered, link, tableVars, input, calls,
                   held, puts, dead>>

-----------------------------------------------------------------------------
(* Scm_Putb, Scm_Putz, Scm_Flush, Scm_ClosePort.                               *)

\* I/O attempted on closed port; not looked at in Scm_Flush if PORT_FLUSHED, and
\* in Scm_Peekc if a character has been pushed back.
ClosedError(t) ==
    /\ \E op \in {"put", "putc", "flush-port"} \cup (Reads \ {"peekb"}) : At(t, op)
    /\ Top(t).p \in closed
    /\ At(t, "flush-port") => Top(t).p \notin flushed
    /\ At(t, "peekc") => ~HasUngotten(input[Top(t).p])
    /\ Fail(t)
    /\ UNCHANGED <<closed, error, streamVars, link, tableVars, input, calls,
                   held, puts, dead>>

\* Scm_Peekb gets it from Scm_GetbUnsafe, and nothing releases the lock.
PeekbClosedError(t) ==
    /\ At(t, "read") /\ Top(t).op = "peekb"
    /\ Top(t).p \in closed /\ input[Top(t).p].scratch = <<>>
    /\ leaked' = IF Top(t).locked THEN leaked \cup {Top(t).p} ELSE leaked
    /\ call' = [call EXCEPT ![t] = <<>>]
    /\ UNCHANGED <<lock, closed, error, streamVars, link, tableVars, input,
                   calls, held, puts, dead>>

\* PORT_FLUSHED_CLEAR; n bytes are to be written.
Put(t) ==
    /\ At(t, "put") /\ Top(t).p \notin closed
    /\ flushed' = flushed \ {Top(t).p}
    /\ puts' = puts + 1
    /\ \E n \in PutSizes : Set(t, [Top(t) EXCEPT !.at = "write", !.n = n, !.q = puts + 1])
    /\ UNCHANGED <<lock, closed, error, buf, device, entered, spoilt, link,
                   tableVars, input, calls, leaked, held, dead>>

\* In SCM_PORT_BUFFER_NONE mode a flush follows what was put.
AfterPut(p, how) == IF p \in Unbuffered THEN how ELSE "unlock"

\* SCM_PORT_BUFFER_ROOM(p).
Room(p) == BufSize - Len(buf[p])

\* n bytes of the put call q.
PutBytes(n, q) == [i \in 1..n |-> q]

\* What fits of the bytes that are to be written.
Fitting(t) == PutBytes(AtMost(Room(Top(t).p), Top(t).n), Top(t).q)

\* Bytes go into the buffer.
PutInto(p, bytes) ==
    /\ buf' = [buf EXCEPT ![p] = @ \o bytes]
    /\ entered' = [entered EXCEPT ![p] = @ \o bytes]

\* bufport_write: fill the buffer; if the bytes do not fit, flush and go on.
Write(t) ==
    /\ At(t, "write")
    /\ PutInto(Top(t).p, Fitting(t))
    /\ LET rest == Top(t).n - Len(Fitting(t))
       IN  IF rest > 0
           THEN Set(t, [Top(t) EXCEPT !.at = "flush", !.next = "write", !.n = rest])
           ELSE Set(t, [Top(t) EXCEPT !.at = AfterPut(Top(t).p, "force"),
                                      !.next = "unlock", !.n = 0])
    /\ UNCHANGED <<lock, closed, error, flushed, device, spoilt, link, tableVars, input,
                   calls, leaked, held, puts, dead>>

\* Scm_Putb (n = 1) and Scm_Putc: if there is no room, one flush has to make it.
Putc(t) ==
    /\ At(t, "putc") /\ Top(t).p \notin closed
    /\ flushed' = flushed \ {Top(t).p}
    /\ puts' = puts + 1
    /\ \E n \in PutSizes :
           /\ n <= BufSize
           /\ Set(t, [Top(t) EXCEPT !.at = IF n > Room(Top(t).p) THEN "flush" ELSE "store",
                                     !.next = "store", !.n = n, !.q = puts + 1])
    /\ UNCHANGED <<lock, closed, error, buf, device, entered, spoilt, link,
                   tableVars, input, calls, leaked, held, dead>>

\* SCM_CHAR_PUT(PORT_BUF(p)->current, c).  If a short flush has not made enough
\* room, SCM_ASSERT stops the process: the thread never gets any further.
Store(t) ==
    /\ At(t, "store") /\ Top(t).n <= Room(Top(t).p)
    /\ PutInto(Top(t).p, PutBytes(Top(t).n, Top(t).q))
    /\ Set(t, [Top(t) EXCEPT !.at = AfterPut(Top(t).p, "flush"), !.next = "unlock", !.n = 0])
    /\ UNCHANGED <<lock, closed, error, flushed, device, spoilt, link,
                   tableVars, input, calls, leaked, held, puts, dead>>

\* Scm_Flush: nothing to do if PORT_FLUSHED.
FlushPort(t) ==
    /\ At(t, "flush-port")
    /\ Top(t).p \in flushed \/ Top(t).p \notin closed
    /\ IF Top(t).p \in flushed THEN Goto(t, "unlock")
       ELSE Set(t, [Top(t) EXCEPT !.at = "force", !.next = "release"])
    /\ UNCHANGED <<lock, closed, error, streamVars, link, tableVars, input,
                   calls, leaked, held, puts, dead>>

\* UNLOCK(p), and only then ...
FlushRelease(t) ==
    /\ At(t, "release")
    /\ lock' = Released(t)
    /\ Set(t, [Top(t) EXCEPT !.at = "flushed", !.locked = FALSE])
    /\ UNCHANGED <<closed, error, streamVars, link, tableVars, input, calls,
                   leaked, held, puts, dead>>

\* ... PORT_FLUSHED_SET(p).
FlushSetFlag(t) ==
    /\ At(t, "flushed")
    /\ flushed' = flushed \cup {Top(t).p}
    /\ call' = [call EXCEPT ![t] = Tail(@)]
    /\ UNCHANGED <<lock, closed, error, buf, device, entered, spoilt, link,
                   tableVars, input, calls, leaked, held, puts, dead>>

\* Scm_ClosePort, port_cleanup: an output port without an error is flushed.
Close(t) ==
    /\ At(t, "close")
    /\ LET p == Top(t).p
       IN  Set(t, [Top(t) EXCEPT
                       !.at = IF p \in closed THEN "unlock"
                              ELSE IF p \in OPorts \ error THEN "force" ELSE "closing",
                       !.next = "closing"])
    /\ UNCHANGED <<lock, closed, error, streamVars, link, tableVars, input,
                   calls, leaked, held, puts, dead>>

\* unregister_buffered_port, the closer, and the closed flag.
Closing(t) ==
    /\ At(t, "closing")
    /\ slots' = [s \in DOMAIN slots |-> IF slots[s] = Top(t).p THEN NoPort ELSE slots[s]]
    /\ closed' = closed \cup {Top(t).p}
    /\ Goto(t, "unlock")
    /\ UNCHANGED <<lock, error, streamVars, link, made, dropped, input, calls,
                   leaked, held, puts, dead>>

-----------------------------------------------------------------------------
(* Reading, linked ports, with-port-locking.                                   *)

\* flush_linked_port: Scm_Flush of the port that is linked to the input port.
FlushLinked(t) ==
    /\ \E op \in Reads : At(t, op)
    /\ Top(t).p \in closed =>
           \/ At(t, "peekb")
           \/ At(t, "peekc") /\ HasUngotten(input[Top(t).p])
    /\ call' = [call EXCEPT ![t] =
           (IF link[Top(t).p] = NoPort \/ (At(t, "peekc") /\ HasUngotten(input[Top(t).p]))
            THEN <<>>
            ELSE <<Frame("flush-port", link[Top(t).p], "lock")>>)
           \o [@ EXCEPT ![1].at = "read"]]
    /\ UNCHANGED <<lock, closed, error, streamVars, link, tableVars, input,
                   calls, leaked, held, puts, dead>>

\* The rest of the reading operation: see PortInput.
Read(t) ==
    /\ At(t, "read")
    /\ Top(t).op = "peekb" /\ Top(t).p \in closed => input[Top(t).p].scratch # <<>>
    /\ \E ip \in Reading(Top(t).op, input[Top(t).p]) :
           input' = [input EXCEPT ![Top(t).p] = ip]
    /\ Goto(t, "unlock")
    /\ UNCHANGED <<lock, closed, error, streamVars, link, tableVars, calls,
                   leaked, held, puts, dead>>

\* Scm_LinkPorts and Scm_UnlinkPorts lock the input port first.  unlink reads
\* the link before it has any lock.
LinkPorts(t) ==
    /\ At(t, "link-1")
    /\ CanLock(t, Top(t).p)
    /\ lock' = Locked(t, Top(t).p)
    /\ Goto(t, "link-2")
    /\ UNCHANGED <<closed, error, streamVars, link, tableVars, input, calls,
                   leaked, held, puts, dead>>

LinkPorts2(t) ==
    /\ At(t, "link-2")
    /\ CanLock(t, Top(t).q)
    /\ lock' = Locked(t, Top(t).q)
    /\ Goto(t, "link-3")
    /\ UNCHANGED <<closed, error, streamVars, link, tableVars, input, calls,
                   leaked, held, puts, dead>>

\* Linked already: an error.  Not linked to each other any more: nothing to do.
Relink(op, i, o) ==
    IF op = "link"
    THEN IF link[i] = NoPort /\ link[o] = NoPort
         THEN [link EXCEPT ![i] = o, ![o] = i] ELSE link
    ELSE IF link[i] = o THEN [link EXCEPT ![i] = NoPort, ![o] = NoPort] ELSE link

LinkPorts3(t) ==
    /\ At(t, "link-3")
    /\ link' = Relink(Top(t).op, Top(t).p, Top(t).q)
    /\ lock' = Unlocked(Unlocked(lock, Top(t).q), Top(t).p)
    /\ call' = [call EXCEPT ![t] = Tail(@)]
    /\ UNCHANGED <<closed, error, streamVars, tableVars, input, calls, leaked,
                   held, puts, dead>>

\* with-port-locking: the lock stays with the thread.
LockHeld(t) ==
    /\ At(t, "lock!")
    /\ held' = [held EXCEPT ![t] = @ \cup {Top(t).p}]
    /\ call' = [call EXCEPT ![t] = Tail(@)]
    /\ UNCHANGED <<lock, closed, error, streamVars, link, tableVars, input,
                   calls, puts, dead, leaked>>

\* The body of with-port-locking ends.
UnlockHeld(t, p) ==
    /\ call[t] = <<>> /\ t \notin dead
    /\ p \in held[t]
    /\ held' = [held EXCEPT ![t] = @ \ {p}]
    /\ lock' = Unlocked(lock, p)
    /\ UNCHANGED <<closed, error, streamVars, link, tableVars, input, call,
                   calls, puts, dead, leaked>>

-----------------------------------------------------------------------------
(* The table of buffered output ports.                                         *)

\* Scm_MakeBufferedPortFull, register_buffered_port: a new port goes into a free
\* slot, any one (the probe reaches all of them from any hash).
Open(t) ==
    /\ At(t, "open")
    /\ \E s \in DOMAIN slots :
           /\ slots[s] = NoPort
           /\ slots' = [slots EXCEPT ![s] = Top(t).p]
    /\ made' = made \cup {Top(t).p}
    /\ call' = [call EXCEPT ![t] = Tail(@)]
    /\ UNCHANGED <<lock, closed, error, streamVars, link, dropped, input, calls,
                   leaked, held, puts, dead>>

\* (Mutant of TakeSlot: the slot is free for others in the meantime.)
FreeSlot(s) == [slots EXCEPT ![s] = NoPort]

\* #t, so that the slot won't be reused.
TakeSlot(s) == [slots EXCEPT ![s] = Taken]

\* Scm_FlushAllPorts: the next slot with a port is taken, ...
FlushAllScan(t) ==
    /\ At(t, "flush-all")
    /\ LET found == {s \in DOMAIN slots : s > Top(t).n /\ slots[s] \in OPorts}
       IN  \/ found = {} /\ Goto(t, "fa-restore") /\ UNCHANGED slots
           \/ \E s \in found :
                  /\ \A r \in found : s <= r
                  /\ slots' = TakeSlot(s)
                  /\ Set(t, [Top(t) EXCEPT !.at = "fa-read", !.p = slots[s], !.n = s,
                                            !.save[s] = slots[s]])
    /\ UNCHANGED <<lock, closed, error, streamVars, link, dropped, made, input,
                   calls, held, puts, dead, leaked>>

\* ... and the port is flushed, without its lock, unless it had an error.  If
\* another thread works on the port meanwhile, all bets are off: spoilt.
FlushAllRead(t) ==
    /\ At(t, "fa-read")
    /\ LET p == Top(t).p
       IN  IF p \in error \/ buf[p] = <<>>
           THEN Goto(t, "flush-all") /\ UNCHANGED spoilt
           ELSE /\ Goto(t, "fa-write")
                /\ spoilt' = IF lock[p].owner \in {NoThread, t} \cup dead THEN spoilt
                             ELSE spoilt \cup {p}
    /\ UNCHANGED <<lock, closed, error, flushed, buf, device, entered, link,
                   tableVars, input, calls, leaked, held, puts, dead>>

\* The flusher writes the buffer out ...
FlushAllWrite(t) ==
    /\ At(t, "fa-write")
    /\ device' = [device EXCEPT ![Top(t).p] = @ \o buf[Top(t).p]]
    /\ Goto(t, "fa-adjust")
    /\ UNCHANGED <<lock, closed, error, flushed, buf, entered, spoilt, link,
                   tableVars, input, calls, leaked, held, puts, dead>>

\* ... and bufport_flush empties it.
FlushAllAdjust(t) ==
    /\ At(t, "fa-adjust")
    /\ buf' = [buf EXCEPT ![Top(t).p] = <<>>]
    /\ Goto(t, "flush-all")
    /\ UNCHANGED <<lock, closed, error, flushed, device, entered, spoilt, link,
                   tableVars, input, calls, leaked, held, puts, dead>>

\* The flusher fails, perhaps after some bytes: the error leaves
\* Scm_FlushAllPorts, and what it has taken out of the table stays out.
FlushAllFails(t) ==
    /\ At(t, "fa-write") /\ Top(t).p \in MayFail
    /\ \E k \in 0..Len(buf[Top(t).p]) :
           /\ k > 0 => k < Len(buf[Top(t).p])
           /\ WriteFails(Top(t).p, k)
    /\ dropped' = dropped \cup ({Top(t).save[s] : s \in DOMAIN slots} \ {NoPort})
    /\ call' = [call EXCEPT ![t] = Tail(@)]
    /\ UNCHANGED <<lock, closed, flushed, buf, entered, link, slots, made, input, calls,
                   leaked, held, puts, dead>>

\* The ports are put back.
FlushAllRestore(t) ==
    /\ At(t, "fa-restore")
    /\ slots' = [s \in DOMAIN slots |->
                     IF Top(t).save[s] = NoPort THEN slots[s] ELSE Top(t).save[s]]
    /\ call' = [call EXCEPT ![t] = Tail(@)]
    /\ UNCHANGED <<lock, closed, error, streamVars, link, dropped, made, input,
                   calls, held, puts, dead, leaked>>

-----------------------------------------------------------------------------
(* Calls.                                                                      *)

\* (Mutant of LinkFrame: unlink locks the port it is given first.)
LinkFrameAsGiven(op, p, q) == [Frame(op, p, "link-1") EXCEPT !.q = q]

\* "Always lock from iport, then oport, to avoid deadlock."
LinkFrame(op, p, q) ==
    [Frame(op, IF p \in IPorts THEN p ELSE q, "link-1") EXCEPT
        !.q = IF p \in IPorts THEN q ELSE p]

\* Every open makes a port of its own.
Opening(p) == \E t \in Threads : At(t, "open") /\ Top(t).p = p

\* The frame a call begins with; unlink-ports of a port without a link does nothing.
CallFrames(op, p) ==
    CASE op = "open" -> IF p \in made \/ Opening(p) THEN {} ELSE {Frame(op, p, "open")}
      [] op = "flush-all" -> {Frame(op, NoPort, "flush-all")}
      [] op = "link" -> {LinkFrame(op, p, o) : o \in OPorts \cap made}
      [] op = "unlink" -> IF link[p] = NoPort THEN {} ELSE {LinkFrame(op, p, link[p])}
      [] OTHER -> IF p \in made THEN {Frame(op, p, "lock")} ELSE {}

\* Inside with-port-locking the program uses, and locks, that port only: in which
\* order it locks several ports itself is its own affair.
Call(t, op, p) ==
    /\ call[t] = <<>> /\ t \notin dead
    /\ calls[t] < MaxCalls
    /\ held[t] # {} => held[t] = {p} /\ op \notin {"link", "unlink"}
    /\ op = "lock!" => p \notin held[t]
    /\ calls' = [calls EXCEPT ![t] = @ + 1]
    /\ \E f \in CallFrames(op, p) : call' = [call EXCEPT ![t] = <<f>>]
    /\ UNCHANGED <<lock, closed, error, streamVars, link, tableVars, input,
                   held, puts, dead, leaked>>

\* The thread is terminated in Scheme code, perhaps inside with-port-locking.
Terminate(t) ==
    /\ t \in Mortal \ dead
    /\ call[t] = <<>>
    /\ dead' = dead \cup {t}
    /\ UNCHANGED <<lock, closed, error, streamVars, link, tableVars, input,
                   call, calls, leaked, held, puts>>

Init ==
    /\ lock = [p \in AllPorts |-> [owner |-> NoThread, count |-> 0]]
    /\ closed = {} /\ error = {} /\ flushed = {} /\ spoilt = {} /\ leaked = {}
    /\ dropped = {}
    /\ buf = [p \in OPorts |-> <<>>]
    /\ device = [p \in OPorts |-> <<>>]
    /\ entered = [p \in OPorts |-> <<>>]
    /\ link = [p \in AllPorts |-> NoPort]
    /\ slots = InitialSlots
    /\ made = IPorts \cup ({slots[s] : s \in DOMAIN slots} \ {NoPort})
    /\ input = [p \in IPorts |-> NewInput]
    /\ call = [t \in Threads |-> <<>>]
    /\ calls = [t \in Threads |-> 0]
    /\ held = [t \in Threads |-> {}]
    /\ puts = 0
    /\ dead = {}

Step(t) ==
    \/ Lock(t) \/ Unlock(t)
    \/ Flush(t, TRUE) \/ Flush(t, FALSE) \/ FlushFails(t)
    \/ ClosedError(t) \/ PeekbClosedError(t)
    \/ Put(t) \/ Write(t) \/ Putc(t) \/ Store(t)
    \/ FlushPort(t) \/ FlushRelease(t) \/ FlushSetFlag(t)
    \/ Close(t) \/ Closing(t)
    \/ FlushLinked(t) \/ Read(t)
    \/ LinkPorts(t) \/ LinkPorts2(t) \/ LinkPorts3(t)
    \/ LockHeld(t) \/ (\E p \in AllPorts : UnlockHeld(t, p))
    \/ Open(t)
    \/ FlushAllScan(t) \/ FlushAllRead(t) \/ FlushAllWrite(t) \/ FlushAllAdjust(t)
    \/ FlushAllFails(t) \/ FlushAllRestore(t)

Next ==
    \E t \in Threads :
        \/ \E c \in MayCall[t] : Call(t, c[1], c[2])
        \/ Step(t)
        \/ Terminate(t)

Spec == Init /\ [][Next]_vars

\* The scheduler runs every thread that can run, and nothing makes a program call.
FairSpec == Spec /\ \A t \in Threads : WF_vars(Step(t))

-----------------------------------------------------------------------------
(* Properties.                                                                 *)

\* The type invariant of the ports.
TypeOK ==
    /\ lock \in [AllPorts -> [owner : Threads \cup {NoThread}, count : 0..3]]
    /\ closed \subseteq made /\ error \subseteq OPorts /\ flushed \subseteq OPorts
    /\ \A p \in OPorts : buf[p] \in Seq(1..puts) /\ Len(buf[p]) <= BufSize
    /\ link \in [AllPorts -> AllPorts \cup {NoPort}]
    /\ \A s \in DOMAIN slots : slots[s] \in OPorts \cup {NoPort, Taken}
    /\ puts \in 0..(MaxCalls * Cardinality(Threads))

\* A port that has been closed without an error has written everything.
ClosedIsComplete ==
    \A p \in (closed \cap OPorts) \ (error \cup spoilt) : device[p] = entered[p]

\* Everything that was put into the buffer of an output port is on the device or
\* still in the buffer, in order and once, whatever short writes, errors, closing
\* and other threads do, and on the device once the port is closed, except for a
\* port that flush-all-ports has flushed while another thread was using it, or
\* whose device failed between two writes of one flush.
StreamExact ==
    /\ \A p \in OPorts \ spoilt :
           \/ device[p] \o buf[p] = entered[p]
           \/ device[p] = entered[p] /\ \E t \in Threads : At(t, "fa-adjust") /\ Top(t).p = p
    /\ ClosedIsComplete

\* The bytes of one put are not torn apart by those of another thread.
PutsContiguous ==
    \A p \in OPorts :
        \A i, j, k \in 1..Len(entered[p]) :
            i < j /\ j < k /\ entered[p][i] = entered[p][k] => entered[p][j] = entered[p][i]

\* How often the operations of t, linking and with-port-locking included, have
\* locked p.
LocksOf(t, p) ==
    Cardinality({k \in 1..Len(call[t]) : call[t][k].locked /\ call[t][k].p = p})
    + Cardinality({k \in 1..Len(call[t]) :
          \/ call[t][k].at = "link-2" /\ call[t][k].p = p
          \/ call[t][k].at = "link-3" /\ p \in {call[t][k].p, call[t][k].q}})
    + (IF p \in held[t] THEN 1 ELSE 0)
LockIsExact(p) ==
    \A t \in Threads \ dead :
        LocksOf(t, p) = IF lock[p].owner = t THEN lock[p].count ELSE 0

\* A port is locked exactly as often as the operations of its owner have locked
\* it: nobody works on a port that somebody else has locked, and the ways out of
\* an operation release what it took, except for the input ports that an error
\* in flushing the linked port, or in peek-byte, leaves locked.
LockExact == \A p \in AllPorts \ leaked : LockIsExact(p)

\* No error leaves a port locked: what PORT_SAFE_CALL is for.
LocksReleased == \A p \in AllPorts : LockIsExact(p)

\* An open output port is in the table, or in the hands of a flush-all-ports that
\* will put it back: it is not forgotten when the process exits.
NoPortForgotten ==
    \A p \in (made \cap OPorts) \ (closed \cup dropped) :
        \/ \E s \in DOMAIN slots : slots[s] = p
        \/ \E t \in Threads : \E k \in 1..Len(call[t]) :
              \E s \in DOMAIN slots : call[t][k].save[s] = p

\* Every byte of an input port is delivered once and in order: see PortInput.
InputExact == \A p \in IPorts : Exact(input[p])

\* Every operation ends: the locks of linked ports are never waited for in a
\* circle, and terminated owners are passed; a port that was left locked may
\* block the others for ever.
OperationsEnd == \A t \in Threads : call[t] # <<>> ~> call[t] = <<>> \/ leaked # {}
=============================================================================
