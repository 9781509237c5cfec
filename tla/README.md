# Models of Gauche's run-time system

Gauche is a Scheme interpreter: a compiler and a VM written in C and Scheme, a
runtime library, and many extension modules. What is hard to test in it is where
several VMs, each in a POSIX thread of its own, meet (loading, thread control,
synchronisation objects, promises, ports), where signals and errors come in the
middle of something, and where a pointer structure has many shapes. Those parts
are what this project models, from the C and Scheme code, and checks with TLC and
TLAPS.

## The system

| Part | Code | State it keeps | Operations | Modelled by |
|---|---|---|---|---|
| require / provide | `src/load.c` 972-1200 | the lists `provided`, `providing`, `waiting` under `prov_mutex`, `prov_cv` | `Scm_Require`, `Scm_Provide` | `Require` |
| thread life cycle | `src/thread.c`, safe points in `src/vm.c`, termination signal in `src/signal.c` | per VM: state, inspector, canceller, stopRequest, attentionRequest, result, exception | `thread-start!`, `-join!`, `-stop!`, `-cont!`, `-terminate!`, `-schedule-terminate!` | `ThreadLife` |
| signals | `src/signal.c` | handler table; per VM: counters, flags, list of pending handler calls; signal masks | `sig_handle`, `Scm_SigCheck`, sigsuspend, sigwait, `set-signal-handler!` | `Signals` |
| mutex, condition variable | `src/mutex.c` | locked, owner | `mutex-lock!`, `mutex-unlock!`, signal, broadcast | `Mutex` |
| semaphore, latch, barrier, atom | `src/libthr.scm` | counters under a mutex | acquire, release, await, ... | `Synchronizers` |
| promises, lazy pairs | `src/lazy.c` | contents shared between promises; owner word of a lazy pair | `force`, forcing a lazy pair | `Lazy`, abstractly `WriteOnce` |
| ports | `src/port.c`, `src/portapi.c`, `gauche/priv/portP.h` | lock, buffer, flags, pushed-back bytes, link; table of all buffered output ports | writing, reading, flushing, closing, linking, `flush-all-ports` | `Ports`, `PortInput` |
| tree maps | `src/treemap.c` | red-black tree, iterators | search, insert, delete, bounds, neighbours, iteration | `TreeMap`, abstractly `OrderedMap` |
| `<mtqueue>` | `ext/data/queue.scm` | list, cached length, closed flag, locker, reader count | `enqueue!`, `dequeue/wait!`, `remove-from-queue!`, ... | `MtQueue` |
| autoload | `src/load.c` 1203-1416 | per autoload object: locker, loaded, value | `Scm_ResolveAutoload` | planned |
| dynamic loading | `src/load.c` 600-900 | per DSO: state, lock | `Scm_DynLoad` | planned |
| jobs, thread pool | `lib/control/job.scm`, `thread-pool.scm` | job status; job and result `<mtqueue>`s | `add-job!`, `wait-all`, `terminate-all!` | planned |
| parallel map, futures, scheduler | `lib/control/*.scm` | built on the above | | planned |
| hash tables | `src/hash.c` | buckets, count | search, insert, delete, rehash | planned |

The parts interact through shared objects and blocking calls only: a thread pool
sends jobs through `<mtqueue>`s to workers it joins and terminates; termination
is what everything else has to survive (a dead locker of an `<mtqueue>`, a dead
owner of a mutex, of a port or of a lazy pair); semaphores, latches, barriers and
atoms are a mutex and a condition variable each; signals and termination requests
reach a thread at the same safe points; `require` runs arbitrary Scheme code, of which
the protocol sees nested `require` and `provide`.

What makes these parts correct: mutual exclusion where code says "only one", no
lost wake-up wherever a condition variable is used, no lost or duplicated object,
agreement between a cached value and what it caches, and progress of everybody
who waits. What makes them hard: broadcasts outside the lock, conditions checked
once, timeouts that come together with what they wait for, `COND_SIGNAL` on a
condition variable shared by waiters with different conditions, spurious
wake-ups, state read without a lock, errors raised with a lock held, handlers that
run inside handlers, and threads that end anywhere. `PROJECT.json` lists these hazards with
their lines and the properties aimed at them.

## Modules

A module has the variables of the C structures, an action for every critical
section of a routine together with the code up to the next one, and the
properties. Condition variables are modelled by the set of threads that sleep
(`asleep`, or a stage such as `readerWait`): a notified thread leaves the set and
checks its condition in a later step, and `SpuriousWakeup` takes threads out at
any time. `MC*` modules hold the instances for TLC, `*_proofs` the theorems.

**Require** (`MCRequire`, `Require_proofs`). `provided` is a set, `providing` an
association list with the newest entry first (the order matters:
`Scm_Provide` turns autoprovide off in the first entry of its thread), `waiting`
a function, and `stack` the files each thread is in the middle of. `Require` and
`Resume` are one turn of the loop in `do_require` (`CheckLists`: already
provided, start loading, dependency loop, or wait); `LoadSucceeds` and
`LoadFails` are the two ends of `Scm_Load`; `Provide` is `Scm_Provide` with its
single `COND_SIGNAL`. Which file requires which is the constant `Requires`.

**MtQueue** (`MCMtQueue`, `MtQueue_proofs`). Two locks: the C mutex, held within
an action, and the big lock, the slot `locker`, held across several actions
while Scheme code runs. `pc` gives the stage of a call, `req` its arguments,
`ret` its result. `Light` is `with-mtq-light-lock` (`enqueue!`, `queue-push!`,
`dequeue!`, `dequeue-all!`, queries, and taking the big lock); `Writer` and
`Reader` are `do-with-timeout` (`enqueue/wait!`, `queue-push/wait!`,
`mtqueue-close!`; `dequeue/wait!`). A timed wait that ends is two steps: `Expire` when the time
is up, `TimedOut` when the thread has the mutex again, so that a notification may come too
late for it. `ReadHead`, `CheckRoom`, `PutUnique`,
`TellReaders`, `ScanOne`, `ScanEnd`, `CommitRemoval` and `ReleaseBigLock` are the
steps of `enqueue-unique!`, `queue-push-unique!`, `remove-from-queue!` and
`queue->list` under the big lock; `MeasureLength`, `StoreLength` and
`SetMaxLength` take no lock. `Terminated` ends a thread under the big lock.
Objects are inserted one at a time. The queries that only read under one of the
two locks (`queue-front`, `find-in-queue`, `any-in-queue`, ...) behave like the
ones that are there.

**ThreadLife** (`MCThreadLife`, `ThreadLife_proofs`). All VMs with their fields, the position `pos` of
the system thread of each, and the VM `on` whose `cond` it waits on. `Attach`,
`Finish` and `Cleanup` are `thread_entry` and its cleanup handler;
`TurnOffAttention`, `Attend`, `Obey` and `Resume` are `process_queued_requests`,
split where another thread can come in between; `ThreadStart`, `ThreadJoin`,
`ThreadStop`, `ThreadCont` and `ThreadTerminate` with their `...Wakes` and
`...TimesOut` are the API. A request is two stores, `stopRequest` and then
`attentionRequest`; the one who asks holds the vmlock of the target, but the
target reads both words, and clears the second, without it. So `ThreadStop` and
`ThreadTerminate` end with the first store, `AnnounceStop` and `AnnounceTermination`
are the second one and the way into the wait. The stores are taken to be seen in the order
they are written in; the words are plain C variables, and a build that swapped the two would lose
requests, as the mutant `StoreFlagFirst` shows. `revived` is a history variable: the
threads that `thread-cont!` made runnable after they had ended, whose joiners sleep for ever. `Signalled` is `sig_handle` for the termination
signal: the first one is left to the next safe point, the second one exits on the
spot, and then the vmlock of another VM may stay locked (`orphaned`). Calls that
end with an error change nothing and are no steps. Left out: `:force`
(`pthread_cancel`), `EINTR` from condition variables (POSIX has none), failure of
`pthread_create` (it undoes what it did).

**Lazy** (`MCLazy`, `Lazy_proofs`; abstract specification `WriteOnce`). `promise` points to a
`content`, which promises come to share; `pair` holds the lazy pairs with their
owner word. Each thread has a `stack` of forces it is in the middle of, since thunks
and generators are Scheme code that forces things. As `lazy.c` reads a content
without its mutex while another thread writes it under the mutex, every access to
memory is a step of its own: `ReadContent`, `ReadState`, `Deliver`, `Snapshot` are
`Scm_VMForce`; `LockContent`, `WriteCode`, `WriteState`, `ShareContent` and
`UnlockContent` are `force_cc` and `force_exc_handler`; a thunk may return any promise
there is (`ThunkReturnsPromise`), also one that others are forcing; `Grab`, `CheckRecursive`,
`Wait`, `Retry`, `GeneratorReturns`, `GeneratorRaises`, `WriteDescriptor`,
`WriteCar` are `Scm_ForceLazyPair`. `PromiseIsWriteOnce` is a refinement: with
the state and code of its content as the result of a promise, every step of `Lazy`
is a step of `WriteOnce` (settle once, answer with what was settled) or a stutter. `mixed`
records the promises for which `force_cc` breaks that: it copies the code and the state
of the promise returned, and replaces its content, without taking its mutex. For these the
abstract cell is `Lost` from that step on and may answer anything; no promise is
recorded before the code has torn a copy, or dropped a content that says something
else or that a force still works with (`Interchangeable`).
Left out: the parameterization a promise carries along.

**Mutex** and **Synchronizers** (`MCSynchronizers`, `Synchronizers_proofs`). `Mutex` is `mutex.c`: each
operator is what one call does under the internal mutex, up to the next wait.
`Synchronizers` composes it with `libthr.scm`: a behaviour is about one object, a
mutex, an atom, a semaphore, a latch or a barrier, chosen by `kind`. `Take`, `TakeAbandoned`,
`Sleep`, `TimeoutLock`, `MutexUnlock`, `Finish` are the mutex part of every
operation, the others its body. `Terminate` ends a thread at any place but between
being woken and taking the internal mutex. Left out: `mutex-lock!` with an explicit
owner.

**Ports** and **PortInput** (`MCPorts`, `Ports_proofs`). Per port the lock with its owner and
count, and flags; per output port the bytes in the buffer and on the device. What a
thread does under a port lock is one step up to the next lock or call of the
flusher. `Put`, `Write`, `Putc`, `Store` are the writing operations; `Flush` and
`FlushFails` one `write(2)`, short or failing, perhaps after a part was written
(`WriteFails`, the same in `flush-all-ports`, `FlushAllFails`); `Close`, `Closing`, `FlushPort`,
`FlushRelease`, `FlushSetFlag`, `LinkPorts`..., `LockHeld`, `UnlockHeld` (`with-port-locking`),
`Open` and `FlushAll...` the rest. `PortInput` is what the reading operations do to the
buffer, `scratch` and `ungotten`, as operators on one port; a byte is its position in
the input. A `Putc` that finds too little room after a short flush stops the
process (`SCM_ASSERT`): there is no `Store` then. `leaked`, `spoilt` and `dropped` record where the code is known to leave
a port locked, damaged or out of the table, so that the properties can say what
holds everywhere else. Left out: `unread-char` and the like from Scheme, `read-line`,
seeking, line buffering, string and procedural ports, failing `close(2)`, garbage ports.

**Signals** (`MCSignals`, `Signals_proofs`). The kernel is `arrived`, `action` and `mask`; a delivered
signal is `Record`ed in the counters of the VM (`sig_handle`). `Copy`, `Clear`,
`QueueOne`, `CallHandler`, `HandlerReturns`, `HandlerRaises`, `ReturnFromCheck` are
`Scm_SigCheck`; its list of pending calls is modelled as cells with their `cdr`s,
because nested checks walk and change the same cells. `Suspend...` is sigsuspend,
which `pause` uses as well; `SetSignalHandler`, `SetAction`, `SetHandler`, `SetMask` and `SigWait...` work
in another thread. Left out: failing `sigaction(2)`, a change of the pending limit, the
master mask, SIGPIPE; the termination signal is in `ThreadLife`.

**TreeMap** (`MCTreeMap`, `TreeMap_proofs`; abstract specification `OrderedMap`). Nodes and pointers
as in `treemap.c`, with its routines as operators from trees to trees; the mirrored
branches of the C code have a `side` as parameter. A loop, or a tail call of a routine to
itself, is `Iterate` with its body: `NKeys` rounds, of which those after the end change
nothing. The code's cases are operators of their own: `Recolour` and `Straighten`
in `balance_tree`; `RedSibling` (case 4), `PassUp` (5), `NearNephew` (7), `FarNephew` (8) in `delete_node1`. `OrderedMap` says what each
operation returns in terms of a function from keys to entries and a position of the
iteration; `ImplementsOrderedMap` is the refinement. An iterator is followed
through deletions of its current entry, which the code provides for. Left out:
copying, values, comparison procedures with effects, iterators across other changes.

## Runs

| Run | Instance | Shows |
|---|---|---|
| `require` | 3 threads, 2 features that require each other and themselves, 2 requires per thread, fair | one loader per feature, the current entry first, no sleeper without a loader, everybody who waits comes back unless files require each other in a circle |
| `require_cycle` | 2 threads, files that require each other | **violated**: `NoCircularWait`; the deadlock the comment at `load.c` 1000 says is an error |
| `mtq_bounded` | 3 threads, 4 objects, max-length 2 | cached length, bound, uniqueness, nobody sleeps for nothing |
| `mtq_channel` | 3 threads, max-length 0, timeouts and `close` arguments | nobody sleeps for nothing at a zero-length queue |
| `mtq_restless` | 3 threads, changing max-length, `queue-length`, a mortal thread | the big lock and the objects survive a terminated locker |
| `thread_inspection` | main thread and two threads, one the inspector of the other | requests noticed, a stopped thread stands still, no lost wake-up |
| `thread_termination` | main thread and two threads that get terminated, fair | the system thread of a cancelled thread ends |
| `lazy` | 2 threads, one of them mortal, 2 promises, one of them made on the way, 4 runs of thunks, 3 items, nesting 2, 1 error, fair | promises refine `WriteOnce`; every item is in one pair, in order; a forced object is a pair; every force ends |
| `ports` | 2 threads, one input and 2 output ports (one with short writes, one unbuffered, both may fail), 2 calls each, buffers of 2 and 3 bytes, 5 input bytes with a 3-byte character, fair | every byte once and in order, out and in; puts not torn apart; locks exact; no open port forgotten; every operation ends |
| `synchronizers` | 3 threads, one mortal, one with timeouts, one spurious wake-up, a semaphore of 0, a latch of 2, a barrier of 2, fair | exclusion, no forgotten sleeper, exact tokens, nobody leaves a barrier early, calls end |
| `signals` | 2 threads that may both set handlers, one in sigwait, 2 signals sent 3 times, checks nested in a handler, fair | no signal lost or slept over, masks and C-level handlers put back, every signal handled |
| `treemap` | all trees of up to 7 keys, with an iterator | red-black, links exact, the tree refines `OrderedMap` |

Every module also states a type invariant `TypeOK`; those of `Require`,
`MtQueue`, `ThreadLife`, `Signals` and `TreeMap` are proved, the others held in every run while the
models were built.

Bounds. Three threads are the smallest number with a holder, a waiter and a third
one that interferes, and two waiters of different kinds on one condition
variable. Four objects fill a queue of two and leave one to each of two waiting
writers. `MaxCalls` bounds the `require` calls per thread: two are a nested one,
or a second try after a failure. `MaxRuns` bounds the thunks that are run in a behaviour
of `Lazy`, and the objects: four let each of two promises be run by both threads;
`MaxForces` counts the promises a thread makes among its forces. `MaxReaders` bounds the reader count, which
timeouts would otherwise raise for ever. `joinCount` and `sigcount` stop at 1: only
"zero or not" is looked at. `got` keeps the last outcome only. Two threads suffice
for promises, lazy pairs and port locks, whose waiting is spinning: there is no
wake-up that a third thread could take away; a nesting of two has a thunk that
forces its own promise. An output buffer of three bytes and puts of two make a put
straddle two flushes; a block read of two bytes with up to three pushed back has
all cases of `getz_scratch`. Three signals are one that is being handled, one
recorded during that, and one that comes in a nested check; with five, one thread and handlers
without masks, `q->pending` is overwritten as described below and `NoSignalLost`
still holds. With seven entries every case of `balance_tree` and `delete_node1` occurs, and
the latter goes on one level up.

TLC's deadlock check is on in the `require*`, `mtq_*` and `treemap` runs, but
sleepers can always wake up spuriously there; that nobody sleeps for nothing is what
the wake-up invariants and the liveness properties say. It is off in the others,
where all threads may have ended or used up their calls.

Fairness. Weak fairness of the steps a thread takes by itself, everywhere: the
system schedules every thread that can run. `Require`: a notified waiter runs and a
load ends. `ThreadLife`: also timeouts (time passes), signal delivery, and strong
fairness of `TurnOffAttention`, because the VM loop tests `attentionRequest` at every
instruction, so a thread cannot come back to Scheme code again and again without
passing the test. `Lazy`: thunks and generators end, and a thread that spins sees
the pair ready. `Ports`: devices answer, and `with-port-locking` ends.
`Synchronizers`: programs unlock a mutex they have locked. `Signals`: handlers end,
and the kernel delivers a signal that is not blocked. No fairness of
spurious wake-ups, of API calls, of timeouts outside `ThreadLife`, or of termination.

## Proofs

All theorems are about the modules as TLC checks them, for all numbers of
threads, features, objects, promises, items, ports, bytes, signals, tree entries, calls and nested calls. The
assumptions on constants are the named ASSUMEs of the modules (types, finitely many
threads, the special values apart). A theorem for every listed property is in the
`*_proofs` module of its component; where the property alone is not inductive, the
module proves an inductive invariant first.

* `Require_proofs`: `TypeOK`, `OneLoader`, `CurrentEntryFirst`, `SleepersHaveLoader`. The inductive invariant `Inv`
  adds what they rest on: keys of `providing` are unique, an entry belongs to the
  thread that has the feature in its stack and the other way round
  (`EntriesLoading`, `LoadsEntered`), and the entries of one thread are in the order
  of its stack (`EntriesOrdered`); without the order, taking an entry out says nothing
  about which one is first afterwards.
* `MtQueue_proofs`. Some calls break what the others keep (see below), so every
  theorem names the mix of calls it is about. `BigLockExclusive`, `NoDuplicates` and
  `NothingLost` hold if nobody takes the big lock from its holder (`LockRespected`: no
  call has a timeout, or nobody uses the big lock), terminated threads, changes of
  max-length and `queue-length` included. `TypeOK`, `LenExact` and `InsertWithinBound`
  need `NoUnlockedLength` as well, because `queue-length` stores a length
  measured without a lock. `InsertWithinBound` also needs `RoomRespected`: nobody sets
  max-length, which takes no lock, or nobody uses the unique operations, which check for room one
  call before they insert. `RoomKept` in the invariant says that what was checked is still
  true; `CheckedInsertionsBounded` is what is left when max-length changes: only the unique
  operations can go over it. `NobodySleepsForNothing` also needs
  `NoResizing` (setting max-length tells nobody), `NoTermination` (a dead locker
  tells nobody) and one of `NoClose` and `NoDequeue` (`dequeue!` that finds only a
  close marker makes room silently); the instances `mtq_bounded` and `mtq_channel` fulfil all
  of that. `LockInv` says that the thread in a big-lock stage is the locker and has read a list that
  still is the content (`WorkCurrent`): this is what makes the operations that store
  a list read earlier keep the bound, and lose and double nothing. `AwakeInv` adds
  that a removal that is being committed is alone, and that a thread that has
  inserted under the big lock has its notification still before it.
* `ThreadLife_proofs`: `TypeOK`, `JoinersWake`, `SuspendedWakes`, `RequestNoticed`,
  `StoppedIsStill`. The invariant adds which positions wait on which VM (`OnInv`), that a VM
  without a thread has no requests (`NewInv`), that a VM whose thread is gone is
  terminated or was made runnable by `thread-cont!` (`EndedInv`), and that a request has the
  attention of its thread in every position but those that look at the
  request before they go back to Scheme code, unless whoever asks is between the two
  stores (`RequestInv`).
* `Lazy_proofs`: `ItemsInOrder`, `ReturnedIsPair`, and the refinement
  `PromiseIsWriteOnce` (initial states, and every step of every action). The invariant says for
  each label of `force` what the frame may rely on, although the content
  may change after it was read: a content that is settled stays so, a content is written
  only with its mutex, and unless the promise is `mixed`, the content a force goes by is the
  one of its promise or one that was settled with the same object (`Agrees`). For pairs: no two forces have taken the same lazy pair (`OwnInv`),
  and the pairs made so far hold the items in order, with at most the last one not
  yet extended (`ListInv`).
* `Synchronizers_proofs`: `MutexExclusive`, `SleepersWake`, `SemaphoreExact`,
  `BarrierTogether`. The difficult parts of the invariant are `SemaphoreInv`, a count of those
  who come for a token (a wake-up on its way counts, so `COND_SIGNAL` per token is
  enough), and `GatherInv`, which ties the places left at the barrier to the
  threads that have arrived in the current generation.
* `Signals_proofs`: `TypeOK`, `ActionsMatch`, `SleepMissesNothing`, `NoSignalLost` and the
  action property `MaskRestored`. `LeafInv` is about the table of handlers and the one thread that
  has `sigHandlers.mutex`. `SigInv` has for every thread: indices of the queue are
  cells (`Linked`), below the innermost call there are only handlers and
  sigsuspends that process signals (`Nested`), where the mask of the interrupted code is kept
  (`Saved`), that a sigsuspend that found nothing has all signals blocked until it
  sleeps (`Quiet`), and that the flag is up exactly if something is counted (`Flag`).
  `OwedInv` says where a recorded signal is (`Found`): counted, copied by the innermost
  call, or in `q->pending`. It needs that between the copy of the counters and
  their clearing every signal is blocked (`Clearing`), and that `cdr`s only lead to cells
  consed later (`Growing`), so that every list has a last pair for `AddCell` to extend.
  What is in a list is the least set closed under `cdr` (`CellsFrom`), which the
  lemmas `FromCell`, `FromSplit` and `AddCellList` take apart without induction.

* `Ports_proofs`: `LockExact`, `NoPortForgotten`, `PutsContiguous`, `StreamExact`, `InputExact`. The invariant `LockInv` says which frames there are:
  which labels an operation has, which ports it works on, when it may have a lock (`Fit`). A thread has at
  most two frames, and the second one is a reading operation that flushes the port linked
  to its own (`Stack`). `LockRight` then counts: the owner of a port has locked it as often as the frames and
  `with-port-locking` say, and nobody else has locked it at all. It is about
  the sum over the frames as well as the single step, because `SHORTCUT` skips the lock
  if the thread has it already, and the way out of an error releases only what the frame on top took.
  The other theorems rest on that. `TableInv` says where a port is
  while `flush-all-ports` has it: a taken slot belongs to one thread, and a port is in
  one slot or in the hands of one thread (`TakenInv`, `SlotsInv`). `HoldInv` says that a
  thread past the lock of an output port (`Inside`) took the lock or is inside
  `with-port-locking`, from which `LockInv` makes mutual exclusion (`InsideAlone`). `PutInv` then
  needs no more than that the bytes of a put in progress are the last ones in the buffer.
  `StreamInv` has the cases in which the device and the buffer together are not what was put: while
  `flush-all-ports` has written the buffer and not yet emptied it, and ports that are
  spoilt. That `flush-all-ports` never writes a closed port follows from
  the order of its checks: a port closed without an error has an empty buffer (`StreamRead`).
  `InputExact` is about what is still to come from an input port: pushed-back bytes, buffer and file
  end to end (`Reach`, `Whole`). Each of the reading operations takes its bytes from the front of that, also
  when it refills the buffer in the middle of a character. The loops of the code are
  functions on an interval of numbers; that such a function is what its equation says (`Recursion`),
  and that what holds at first and is handed on by a round holds after the last one
  (`HandedOn`), comes from the least counterexample (`LeastNumber`).
* `TreeMap_proofs`: `TypeOK`, `RedBlack`, `LinksExact` and the refinement `ImplementsOrderedMap`, for any
  number of keys. "Balanced" is stated without recursion: there are a function `D`
  from nodes to the sets of the nodes below them and a function `h` to their black heights, such that
  the pointers agree (`Linked`), branches are apart (`Branching`), keys are on the right sides
  (`Sorted`), heights are those of the children (`Even`) and no red node is below
  another (`NoRedRed`). The invariant `TInv` has such functions for the live keys, and `Iteration`: the
  iterator has the nearest entries on both sides of its current one, deleted or
  not. For each routine a lemma gives the new `D` and `h`: `RotateTree`,
  `SwapLoose` (`swap_node`, also of a node with its own child), `HookedTree`, `CutOut`. Inside an
  operation the tree is not balanced. `NoRedRed` then has an exception, the node that `balance_tree` looks at;
  after a deletion one side of a node lacks a black node (`Lacking`), which
  case 5 passes up (`PassUpLacks`) and the others make up for (`RedSiblingReady`,
  `NearReady`, `FarDone`): `InsertBalanced` and `DeleteBalanced`. That `NKeys` rounds are enough for
  every loop follows from the sizes of the `D[n]` (`LoopReaches`). `Searches`, `MostIs` and
  `NeighbourIs` say what the descents find; `RedBlack` and `LinksExact` compute the nodes and heights from the
  root down, and `InTreeIs` and `BlackHeightIs` show that this gives `D[root]` and `h[root]`.

Only model-checked:

* liveness, which is out of reach of the provers like `ENABLED`: that waiting for a load, a
  force, a port operation, a synchronizer call, a cancelled thread and a sent signal
  end;
* the `MtQueue` properties for mixes of calls beyond the hypotheses above, as far as the
  `mtq_*` runs go.

## What the models say beyond the runs

Documented promises that the code does not keep. The definitions are in the
modules; adding one as an INVARIANT or PROPERTY of the instance named here gives TLC's counterexample.

* `MarkerLast` (`MtQueue`, users `Closers`): `queue.scm` 419 says of the close
  marker "If inserted, this is always the last item in the queue.", and
  `modutil.texi` 5588 that the object "is guaranteed to be the last item put in the
  queue". A writer that waits for room while `mtqueue-close!` inserts its marker
  inserts its item behind it, as the closed flag is only looked at in the init part
  of `do-with-timeout` (`queue.scm` 493).
* `BigLockExclusive` (users `Removers` with `TimeoutArgs = {TRUE}`): the end of `do-with-timeout`
  (`queue.scm` 265) sets `locker` to `#f` without asking whose it is; after a
  timeout another thread may be in the middle of `remove-from-queue!`.
* `InsertWithinBound` (users `Resizers`, `MaxLength = 2`, `NewLengths = {1}`):
  `modutil.texi` 5052 calls max-length "The upper bound of the number of items in the
  queue." `enqueue-unique!` and `queue-push-unique!` check for room in one call
  (`queue.scm` 515, 582) and insert in the next; the setter of max-length does not look
  at the big lock, so the queue may end up longer than a max-length set in between.
* `TerminatedForever` (`ThreadLife`, calls `StopThenTerminate`): `modgauche.texi`
  27719 says of `terminated` "Once a thread is in this state, the state can no longer
  be changed." `Scm_ThreadCont` (`thread.c` 339) sets `RUNNABLE` whatever the state
  was, and a `thread-join!` then waits for ever.
* `JoinTellsOutcome` (calls `TerminateAndJoin`): `modgauche.texi` 28127 says that
  `thread-join!` raises the exception of a thread that ended abnormally.
  `process_queued_requests` (`vm.c` 3929) sets `TERMINATED` and releases the vmlock
  before `thread_cleanup` stores the exception; a join in between returns normally.
* `LocksReleased` (`Ports`): `PORT_SAFE_CALL` is there for "making sure the port is
  unlocked in case CALL raises an error" (`portP.h` 260). `Scm_Peekb` calls
  `SCM_GETB` outside of it (`portapi.c` 502), so `peek-byte` on a closed port leaves it
  locked; so does a failing `flush_linked_port` in the reading operations.
* `NoReentry` (`Signals`): `corelib.texi` 32581 says that a handler "won't be reentered
  by the same signal(s)". `Scm_SigCheck` restores the mask after it has copied the
  counters and blocks the handler's signals when it calls it (`signal.c` 537); a
  signal recorded in between is found at a safe point inside the handler.

* `SettledForGood` (`Lazy`): `lazy.c` 119 says of a promise "Once it becomes FORCED or
  EXCEPTION, the state never changes", and `modgauche.texi` 28948 that `force`
  "guarantees that the first delivered result becomes the value of the promise". `force_cc`
  copies the promise that a thunk returns without its mutex and then gives it another
  content (`lazy.c` 192-195): if another thread settles it between the two reads, both
  promises are `FORCED` with a thunk; if it does so before the second write, the
  promise changes its result.

Read off the models: `queue-push/wait!` has the two
`if-closed` cases the wrong way round and returns the queue instead of `#t`;
`queue-rear` and `queue->list` return the close marker; `enqueue-unique!` inserts
into a closed queue; a zero-length queue can hold several items; a reader that
times out stays counted; `dequeue!` that finds only a close marker makes room
without telling the writers; `thread-stop!` after `thread-schedule-terminate!`
replaces the request for good; `thread-stop!` without a timeout never returns if its
target ends first; a second `thread-join!` does not raise the exception again.
A thread that ran the thunk of a promise and failed raises the object of the
promise even if another thread has settled it as `FORCED`; a lazy pair whose owner
is terminated stays locked; `Scm_ForceLazyPair` may return with the pair still
lazy after its generator has failed once, and returns the object, not its data, if it
has waited (`lazy.c` 675 against 657; `Scm_PairP`, the only caller, ignores the result). `Scm_FlushAllPorts` flushes without port
locks, and when a flush fails the ports saved so far lose their slots in the table; a
block read that meets EOF behind pushed-back bytes returns one byte too few.
Sleepers in `mutex-lock!` are not told when the owner is terminated; a waiter of a
semaphore terminated just after being woken takes the wake-up with it; an
`<abandoned-mutex-exception>` inside a semaphore, latch or barrier operation leaves
its mutex held; a `barrier-await` that times out late breaks the next generation. A
nested `Scm_SigCheck` may run handlers twice; after an error in a nested one, the
outer walk may overwrite `q->pending` and drop what is in it; what an error leaves
in the queue waits for the next signal, and sigsuspend does not look at it; two
overlapping sigwaits leave a signal with its default action; a handler without a
mask (`signal.c` 84 says that blocks the signal) blocks nothing. An iterator over a tree of one entry cannot turn
back at its end, because a lone root looks like a cleared node.

The properties are stated so as to leave these out, by exceptions that name them
(`leaked`, `spoilt`, `dropped`, `mixed`, `clobbered`, `crossed`, `raised`, `orphaned`, `mangled`, `Over`) or
by instances that avoid them: `NobodySleepsForNothing` is checked without `dequeue!`
on closed queues and without terminated threads, `LenExact` without `queue-length`,
`CancelledEnds` for threads that nobody stops.

## Plan

1. `Require`, `MtQueue`, `ThreadLife`, `Lazy`, `Mutex`, `Synchronizers`, `Ports`,
   `Signals`, `TreeMap`: done.
2. Proofs for `Require`, `MtQueue`, `ThreadLife`, `Lazy`, `Synchronizers`, `Signals`,
   `Ports`, `TreeMap`: done.
3. `Autoload` next to `Require`; dynamic loading.
4. `ThreadPool`: jobs through two `<mtqueue>`s, refined to "every job ends once";
   an abstract bounded FIFO that `MtQueue` without its unique operations implements.
5. Hash tables against an abstract map; scheduler, parallel map.

Not modelled, and not planned: compiler, VM instructions and continuations,
numbers, strings, character conversion, regular expressions, macro expander, the
vendored collector and the other extension modules: sequential code over rich data,
for which tests are the better tool, or pure input and output. They are most of the
repository's lines, so the models cover a small share of it.
