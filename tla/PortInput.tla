----------------------------- MODULE PortInput -----------------------------
(* Reading from a buffered input port (src/src/portapi.c 394-910 and           *)
(* bufport_fill, bufport_read of src/src/port.c): bytes and characters are     *)
(* mixed freely, and what a peek has read too much is pushed back, either as   *)
(* bytes in `scratch' or as one character in `ungotten'.                       *)
(*                                                                             *)
(* The state of a port is a record, and an operation the set of the records it *)
(* may lead to: how many bytes read(2) returns is not the port's choice.       *)
EXTENDS Integers, Sequences

CONSTANTS
    Follows,    \* SCM_CHAR_NFOLLOWS per byte of the device
    Inner,      \* the bytes that are not the first one of a character
    InputSize   \* the size of the port's buffer

\* The device does not end in the middle of a character.
ASSUME InputAssumption ==
    /\ Follows \in Seq(0..5) /\ Inner \subseteq DOMAIN Follows /\ InputSize \in Nat \ {0}
    /\ \A k \in DOMAIN Follows : k + Follows[k] <= Len(Follows)

\* A byte stands for its position in the device; pos is what has been read from
\* there, buf the bytes in [current, end), ungotten the bytes of the character.
NewInput == [pos |-> 0, buf |-> <<>>, scratch |-> <<>>, ungotten |-> <<>>,
             eof |-> FALSE,      \* PORT_UNGOTTEN(p) == EOF
             got |-> <<>>,       \* what callers have been given so far
             mangled |-> FALSE]  \* bytes have been lost or changed: see Getz, Reading

AtMost(a, b) == IF a < b THEN a ELSE b
Rest(ip) == Len(Follows) - ip.pos
Drop(s, n) == SubSeq(s, n + 1, Len(s))

\* bufport_fill: at least min bytes unless it reaches EOF, at most what there is
\* room for; 1 byte is enough if allow_less.
Fill(ip, min, allow_less) ==
    LET most  == AtMost(InputSize - Len(ip.buf), Rest(ip))
        least == AtMost(most, IF allow_less THEN 1 ELSE min)
    IN  {[ip EXCEPT !.pos = @ + k,
                    !.buf = @ \o [j \in 1..k |-> ip.pos + j]] : k \in least..most}

\* As many as there are of the `rest' bytes that are still wanted, from the buffer.
Take(r) ==
    LET n == AtMost(r.rest, Len(r.ip.buf))
    IN  [ip |-> [r.ip EXCEPT !.buf = Drop(@, n)],
         have |-> r.have \o SubSeq(r.ip.buf, 1, n), rest |-> r.rest - n]

\* The buffer is filled and taken from,
Round(r, allow_less) ==
    IF r.rest = 0 THEN {r}
    ELSE {Take([r EXCEPT !.ip = f]) : f \in Fill(r.ip, r.rest, allow_less)}

\* until there are enough bytes, or there are no more: until EOF every round brings
\* at least one.
Rounds(start, allow_less) ==
    LET after[k \in 0..start.rest] ==
            IF k = 0 THEN {start} ELSE UNION {Round(r, allow_less) : r \in after[k - 1]}
    IN  {<<r.ip, r.have>> : r \in after[start.rest]}

-----------------------------------------------------------------------------
(* The operations: pairs of the new state and the bytes read; <<>> is EOF.     *)

\* Scm_Getb: scratch, then ungotten (spilt into scratch), then the buffer.
Getb(ip) ==
    IF ip.scratch # <<>>
    THEN {<<[ip EXCEPT !.scratch = Tail(@)], <<Head(ip.scratch)>>>>}
    ELSE IF ip.eof
    THEN {<<[ip EXCEPT !.eof = FALSE], <<>>>>}
    ELSE IF ip.ungotten # <<>>
    THEN {<<[ip EXCEPT !.scratch = Tail(ip.ungotten), !.ungotten = <<>>],
            <<Head(ip.ungotten)>>>>}
    ELSE {IF f.buf = <<>> THEN <<f, <<>>>>
          ELSE <<[f EXCEPT !.buf = Tail(@)], <<Head(f.buf)>>>> :
              f \in IF ip.buf # <<>> THEN {ip} ELSE Fill(ip, 1, FALSE)}

\* The rest of a character, some bytes of which are in `have': from the buffer,
\* as often as it has to be filled.
FetchRest(ip, have, rest) == Rounds([ip |-> ip, have |-> have, rest |-> rest], FALSE)

\* getc_scratch: the rest of the character one byte after the other.
NextByte(r) == {<<g[1], r[2] \o g[2]>> : g \in Getb(r[1])}
GetcScratch(ip, have, rest) ==
    LET after[k \in 0..rest] ==
            IF k = 0 THEN {<<ip, have>>} ELSE UNION {NextByte(r) : r \in after[k - 1]}
    IN  IF rest <= 0 THEN {<<ip, have>>} ELSE after[rest]

\* Scm_Getc.  When the buffer ends in the middle of the character, the bytes
\* go through scratch, which is empty again afterwards.
Getc(ip) ==
    IF ip.scratch # <<>>
    THEN GetcScratch([ip EXCEPT !.scratch = <<>>], ip.scratch,
                     Follows[Head(ip.scratch)] + 1 - Len(ip.scratch))
    ELSE IF ip.eof
    THEN {<<[ip EXCEPT !.eof = FALSE], <<>>>>}
    ELSE IF ip.ungotten # <<>>
    THEN {<<[ip EXCEPT !.ungotten = <<>>], ip.ungotten>>}
    ELSE UNION {
        IF f.buf = <<>> THEN {<<f, <<>>>>}
        ELSE LET width == Follows[Head(f.buf)] + 1
                 n     == AtMost(width, Len(f.buf))
             IN  FetchRest([f EXCEPT !.buf = Drop(@, n)],
                           SubSeq(f.buf, 1, n), width - n) :
        f \in IF ip.buf # <<>> THEN {ip} ELSE Fill(ip, 1, FALSE)}

\* bufport_read in SCM_PORT_BUFFER_FULL mode: size bytes, or all there are.
ReadBlock(ip, size) == Rounds(Take([ip |-> ip, have |-> <<>>, rest |-> size]), TRUE)

\* Scm_Getz.  getz_scratch adds to the bytes pushed back the result of another
\* Scm_Getz, which is EOF, -1, if there is nothing more: one byte too few is
\* returned then.
Getz(ip, size) ==
    LET back == IF ip.scratch # <<>> THEN ip.scratch ELSE ip.ungotten
        free == [ip EXCEPT !.scratch = <<>>, !.ungotten = <<>>]
    IN  IF ip.eof /\ ip.scratch = <<>>
        THEN {<<[ip EXCEPT !.eof = FALSE], <<>>>>}
        ELSE IF Len(back) >= size
        THEN {<<[free EXCEPT !.scratch = Drop(back, size)], SubSeq(back, 1, size)>>}
        ELSE {IF back # <<>> /\ r[2] = <<>>
              THEN <<[r[1] EXCEPT !.mangled = TRUE], SubSeq(back, 1, Len(back) - 1)>>
              ELSE <<r[1], back \o r[2]>> :
                  r \in ReadBlock(free, size - Len(back))}

\* (Mutant of Peekb: the byte goes to the end of scratch.)
PeekbAtEnd(ip) ==
    IF ip.scratch # <<>> THEN {ip}
    ELSE {IF g[2] = <<>> THEN [g[1] EXCEPT !.eof = TRUE]
          ELSE [g[1] EXCEPT !.scratch = @ \o g[2]] : g \in Getb(ip)}

\* Scm_Peekb: the byte goes to the front of scratch.
Peekb(ip) ==
    IF ip.scratch # <<>> THEN {ip}
    ELSE {IF g[2] = <<>> THEN [g[1] EXCEPT !.eof = TRUE]
          ELSE [g[1] EXCEPT !.scratch = g[2] \o @] : g \in Getb(ip)}

\* PORT_UNGOTTEN(p) != SCM_CHAR_INVALID: a character, or EOF.
HasUngotten(ip) == ip.ungotten # <<>> \/ ip.eof

\* Scm_Peekc: the character, or EOF, is ungotten.
Peekc(ip) ==
    IF HasUngotten(ip) THEN {ip}
    ELSE {IF g[2] = <<>> THEN [g[1] EXCEPT !.eof = TRUE]
          ELSE [g[1] EXCEPT !.ungotten = g[2]] : g \in Getc(ip)}

\* Ungotten and scratch are never both in use, so their concatenation is what
\* comes before the buffer.
Pending(ip) == ip.scratch \o ip.ungotten \o ip.buf

\* The next byte is inside a character.
InCharacter(ip) ==
    (IF Pending(ip) # <<>> THEN Head(Pending(ip)) ELSE ip.pos + 1) \in Inner

\* What one of the reading operations may do to the port.  A character read from
\* the middle of one is the byte itself, or what else is in scratch is dropped,
\* and pushed back it becomes the two bytes of its encoding.
Delivered(results) == {[r[1] EXCEPT !.got = @ \o r[2]] : r \in results}
Mangled(ip) == [ip EXCEPT !.mangled = @ \/ InCharacter(ip)]
Reading(op, ip) ==
    CASE op = "getb" -> Delivered(Getb(ip))
      [] op = "peekb" -> Peekb(ip)
      [] op = "getc" -> Delivered(Getc(Mangled(ip)))
      [] op = "peekc" -> Peekc(Mangled(ip))
      [] op = "getz" -> Delivered(Getz(ip, 2))

\* Every byte of the device is given to callers once, in order, whichever mix of
\* bytes, characters, blocks and peeks they read; a byte that has been pushed
\* back is in one place only.  Two cases are left out: a block read at EOF that
\* loses a byte, and a character read that begins inside a character.
Exact(ip) ==
    /\ ~ip.mangled => ip.got \o Pending(ip) = [k \in 1..ip.pos |-> k]
    /\ ip.mangled \/ ip.scratch = <<>> \/ ip.ungotten = <<>>
=============================================================================
