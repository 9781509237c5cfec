------------------------------ MODULE MCPorts ------------------------------
(* Small instances of Ports for TLC.                                           *)
EXTENDS Ports, TLC

CONSTANTS t1, t2, i, o1, o2

\* One thread writes, closes, links and opens; the other one writes too, reads
\* from the linked port, and flushes everything.
Users ==
    t1 :> {<<"put", o1>>, <<"close", o1>>, <<"link", i>>, <<"unlink", o1>>,
           <<"lock!", o1>>, <<"open", o2>>, <<"peekc", i>>, <<"getc", i>>,
           <<"close", i>>, <<"putc", o2>>}
    @@ t2 :> {<<"put", o1>>, <<"getb", i>>, <<"peekb", i>>, <<"getz", i>>,
              <<"link", i>>, <<"flush-all", i>>, <<"flush-port", o1>>}

\* A character of one byte, one of three bytes, one of one byte.
Bytes == <<0, 2, 0, 0, 0>>
InnerBytes == {3, 4}

OneOfTwo == <<o1, NoPort>>
=============================================================================
