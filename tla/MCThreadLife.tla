--------------------------- MODULE MCThreadLife ---------------------------
(* Small instances of ThreadLife for TLC: who calls what on whom.              *)
EXTENDS ThreadLife

CONSTANTS main, a, b

\* b and the main thread both inspect a, and terminate it; the main thread may
\* terminate b in the middle of that, and a itself.
Inspection ==
    ({main} \X {"start", "terminate"} \X {a, b})
    \cup ({main} \X {"stop-timeout", "cont", "schedule-terminate"} \X {a})
    \cup ({b} \X {"stop", "cont", "join"} \X {a})
    \cup {<<a, "terminate", a>>}

\* a and b are terminated while one joins and terminates the other.
Termination ==
    ({main} \X {"start"} \X {a, b})
    \cup {<<main, "terminate", b>>, <<main, "schedule-terminate", a>>}
    \cup ({b} \X {"join-timeout", "terminate"} \X {a})

\* The main thread stops a with a timeout, and terminates it.
StopThenTerminate ==
    {main} \X {"start", "stop-timeout", "terminate", "cont"} \X {a}

\* The main thread terminates a, and b joins it.
TerminateAndJoin ==
    ({main} \X {"start"} \X {a, b}) \cup {<<main, "schedule-terminate", a>>, <<b, "join", a>>}
=============================================================================
