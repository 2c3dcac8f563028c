---------------------------- MODULE MCBinaryWrite ----------------------------
\* Instances of BinaryWrite: six addresses, three of them RAM, and a buffer of three.
EXTENDS BinaryWrite

MCRam == 1 .. 3

Strings(S, n) == UNION {[1 .. k -> S] : k \in 0 .. n}

\* A letter, bytes that are escaped, and what escaping makes of one.
Letters == {65, STAR, BRACE, 10}

EscapedRequest(addr, data) ==
  [addr |-> addr, len |-> Len(data), kind |-> "escaped", data |-> data,
   payload |-> Escaped(data)]

RawRequest(addr, len, payload) ==
  [addr |-> addr, len |-> len, kind |-> "raw", data |-> <<>>, payload |-> payload]

WellFormed == {EscapedRequest(a, d) : a \in {1, 2, 5}, d \in Strings(Letters, 2) \ {<<>>}}

\* Payloads that no debugger sends: escapes and runs cut off, zero bytes, wrong lengths.
Malformed == {RawRequest(a, n, s) : a \in {2}, n \in {0, 1, 3, 4},
                                    s \in Strings({NUL, 2, STAR, BRACE}, 3)}

MCRequests == WellFormed \cup Malformed
==============================================================================
