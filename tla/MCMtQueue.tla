----------------------------- MODULE MCMtQueue -----------------------------
(* Small instances of MtQueue for TLC: which thread calls what.                *)
EXTENDS MtQueue, TLC

CONSTANTS t1, t2, t3

\* A bounded queue with blocking and non-blocking users, and threads that work
\* under the big lock.
BoundedUsers ==
    t1 :> {"enqueue/wait!", "enqueue!", "enqueue-unique!"}
    @@ t2 :> {"dequeue/wait!", "dequeue!", "dequeue-all!", "mtqueue-room"}
    @@ t3 :> {"queue-push-unique!", "remove-from-queue!", "queue-push!",
              "enqueue/wait!"}

\* A channel that is closed by a writer, by a reader or by mtqueue-close!.
ChannelUsers ==
    t1 :> {"enqueue/wait!", "mtqueue-close!"}
    @@ t2 :> {"dequeue/wait!", "enqueue!"}
    @@ t3 :> {"queue-push/wait!", "dequeue/wait!"}

\* A queue whose max-length changes, whose length is asked for at any time and
\* of which a user is terminated.
RestlessUsers ==
    t1 :> {"enqueue/wait!", "set-max-length", "queue-rear"}
    @@ t2 :> {"dequeue!", "queue-length", "queue->list"}
    @@ t3 :> {"queue-push-unique!", "enqueue-unique!", "remove-from-queue!"}

\* A writer, a reader, and a thread that closes the queue.
Closers ==
    t1 :> {"enqueue/wait!"} @@ t2 :> {"dequeue/wait!"} @@ t3 :> {"mtqueue-close!"}

\* A reader, a writer and a thread that removes items under the big lock.
Removers ==
    t1 :> {"enqueue!"} @@ t2 :> {"dequeue/wait!"} @@ t3 :> {"remove-from-queue!"}

\* A client that sets max-length, a writer, and one that inserts unique objects.
Resizers ==
    t1 :> {"set-max-length"} @@ t2 :> {"enqueue!"} @@ t3 :> {"enqueue-unique!"}

\* max-length set to #f, and to 2.
Resizes == {-1, 2}

ValueSymmetry == Permutations(Values)
=============================================================================
