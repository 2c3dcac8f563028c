----------------------------- MODULE MCRunControl -----------------------------
(* Small instances of RunControl.  Address 4 is the job store, 8 where the workers *)
(* poll, 12 another instruction, 16 a data word.                               *)
EXTENDS RunControl

P0(op)     == [op |-> op, arg |-> 0, actions |-> <<>>]
P1(op, S)  == {[op |-> op, arg |-> a, actions |-> <<>>] : a \in S}
VCont(s)   == [op |-> "vCont", arg |-> 0, actions |-> s]
Act(a, t)  == [act |-> a, tid |-> t]

\* One core, packets of every sort; 12 is never watched, so that the debugger's own accesses
\* hit nothing.  Thread 2 does not exist.
OneCoreCommands ==
  {P0("c"), P0("s"), P0("R"), P0("g"), P0("p"), P0("q"), P0("Q"), P0("k"), P0("D"), VCont(<<>>)}
    \cup P1("Hg", {2}) \cup P1("T", {2}) \cup P1("Z0", {4}) \cup P1("z0", {4})
    \cup P1("Z4", {4, 16}) \cup P1("z4", {16}) \cup P1("P", {0, 4}) \cup P1("G", {12})
    \cup UNION {P1(op, {12}) : op \in {"m", "M", "X", "qSearch"}}

\* Two harts: vCont in its forms and changes of focus.  Thread 3 does not exist.
TwoHartCommands ==
  {VCont(<<Act("c", t)>>) : t \in {-1, 2}} \cup {VCont(<<Act("s", t)>>) : t \in {1, 3}}
    \cup {VCont(<<Act("s", 2), Act("c", -1)>>), VCont(<<Act("c", 2), Act("t", 2)>>)}
    \cup P1("Hg", {1, 2}) \cup P1("Hc", {2}) \cup P1("Z0", {8})

\* Two harts under signals: plain resumes, the query that consumes flags, and reads of the
\* debugger that hit its own watchpoint.
SignalCommands == {P0("c"), P0("s"), P0("?")} \cup P1("Z4", {16}) \cup P1("m", {16})
==============================================================================
