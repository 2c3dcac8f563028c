---------------------------- MODULE MCMemorySearch ----------------------------
\* Instances of MemorySearch: an address space of eight bytes, four of them RAM.
EXTENDS MemorySearch

MCRam  == 2 .. 5
MCByte == {0, 1}

Patterns == UNION {[1 .. n -> MCByte] : n \in 0 .. 2}

\* All windows, the ones that pass the end of the address space included, but not those
\* in which the pattern could start at the very last address; and one request in the
\* protocol's own form, with semicolons, which the handler does not understand.
MCRequests ==
  {r \in [start : {0, 1, 2, 4, 6, 7}, len : {0, 1, 2, 4, 6, 7}, pattern : Patterns,
          separator : {":"}] : r.start + r.len # AddrSpace - 1 + Len(r.pattern)}
    \cup {[start |-> 2, len |-> 4, pattern |-> <<1>>, separator |-> ";"]}
==============================================================================
