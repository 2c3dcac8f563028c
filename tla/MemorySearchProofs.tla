-------------------------- MODULE MemorySearchProofs --------------------------
(***************************************************************************)
(* A search that cannot reach the last address of the address space        *)
(* reports the first match in its window, for every width of an address,   *)
(* every memory, every pattern and any sequence of searches and writes.    *)
(***************************************************************************)
EXTENDS MemorySearch, TLAPS

\* No window lets the pattern start at the last address, where the loop variable wraps.
BelowTop ==
  \A r \in Requests : r.start + r.len # AddrSpace - 1 + Len(r.pattern)

Last == request.start + request.len - pattern_len

SearchInv ==
  /\ TypeOK
  /\ phase \in {"parse", "scan"} => Last # AddrSpace - 1
  /\ phase = "scan" =>
       /\ pattern_len > 0 /\ request.len >= pattern_len
       /\ Bounded => /\ addr >= request.start
                     /\ \A a \in Window : a < addr => ~Matches(a)
  /\ FirstMatch

LEMMA WrapOK == \A n \in Nat : Wrap(n) \in Addr /\ (n < AddrSpace => Wrap(n) = n)
<1> SUFFICES ASSUME NEW n \in Nat PROVE Wrap(n) \in Addr /\ (n < AddrSpace => Wrap(n) = n)
  OBVIOUS
<1>1. AddrSpace \in Nat /\ AddrSpace > 0 BY SpaceAssumption
<1>2. n % AddrSpace \in 0 .. (AddrSpace - 1) BY <1>1
<1>3. n < AddrSpace => n % AddrSpace = n BY <1>1
<1> QED BY <1>2, <1>3 DEF Wrap, Addr

LEMMA RequestOK ==
  ASSUME NEW r \in Request
  PROVE  r.start \in Nat /\ r.start < AddrSpace /\ r.len \in Nat /\ Len(r.pattern) \in Nat
<1>1. r.start \in Addr /\ r.len \in Addr /\ r.pattern \in Seq(Byte) BY DEF Request
<1>2. Len(r.pattern) \in Nat BY <1>1
<1>3. AddrSpace \in Nat BY SpaceAssumption
<1> QED BY <1>1, <1>2, <1>3 DEF Addr

\* In a window within the address space the loop's bound is the last place where the
\* pattern could start.
LEMMA LastOK ==
  ASSUME TypeOK, Bounded, pattern_len > 0, request.len >= pattern_len
  PROVE  /\ LastStart = Last /\ Last \in Nat /\ Last < AddrSpace
         /\ \A a \in Addr : a \in Window <=> a >= request.start /\ a <= Last
<1>1. request \in Request BY DEF TypeOK
<1>2. /\ request.start \in Nat /\ request.len \in Nat /\ pattern_len \in Nat
  BY <1>1, RequestOK DEF pattern_len
<1>3. AddrSpace \in Nat BY SpaceAssumption
<1>4. Last \in Nat /\ Last < AddrSpace BY <1>2, <1>3 DEF Last, Bounded
<1>5. LastStart = Last BY <1>4, WrapOK DEF LastStart, Last
<1>6. \A a \in Addr : a \in Nat BY <1>3 DEF Addr
<1>7. \A a \in Addr : a + pattern_len <= request.start + request.len <=> a <= Last
  BY <1>2, <1>6 DEF Last
<1> QED BY <1>4, <1>5, <1>7 DEF Window

LEMMA InitOK == Init => SearchInv
<1> SUFFICES ASSUME Init PROVE SearchInv OBVIOUS
<1>1. 0 \in Addr BY SpaceAssumption DEF Addr
<1>2. request \in Request
  <2>1. <<>> \in Seq(Byte) OBVIOUS
  <2> QED BY <1>1, <2>1 DEF Init, Request
<1>3. mem \in [Ram -> Byte] BY ByteAssumption DEF Init
<1>4. TypeOK BY <1>1, <1>2, <1>3 DEF Init, TypeOK
<1> QED BY <1>4 DEF Init, SearchInv, FirstMatch

LEMMA ParseOK == ASSUME SearchInv, handle_search_memory PROVE SearchInv'
<1>1. UNCHANGED <<mem, request>> /\ phase = "parse" BY DEF handle_search_memory
<1>2. request \in Request BY DEF SearchInv, TypeOK
<1>3. request.start \in Nat /\ request.len \in Nat /\ pattern_len \in Nat /\ AddrSpace \in Nat
  BY <1>2, RequestOK, SpaceAssumption DEF pattern_len
<1>4. request.start \in Addr BY <1>2 DEF Request
<1>5. TypeOK' BY <1>1, <1>4 DEF SearchInv, TypeOK, handle_search_memory, Answer
<1>6. CASE request.separator # ":"
  <2>1. phase' = "answered" BY <1>6 DEF handle_search_memory, Answer
  <2> QED BY <1>1, <1>5, <1>6, <2>1 DEF SearchInv, FirstMatch
<1>7. CASE request.separator = ":" /\ (pattern_len = 0 \/ request.len < pattern_len)
  <2>1. phase' = "answered" /\ reply' = "0" BY <1>3, <1>7 DEF handle_search_memory, Answer
  <2>2. pattern_len > 0 => \A a \in Addr : a \notin Window
    <3>1. \A a \in Addr : a \in Nat BY <1>3 DEF Addr
    <3> QED BY <1>3, <1>7, <3>1 DEF Window
  <2>3. pattern_len' = pattern_len /\ Window' = Window BY <1>1 DEF pattern_len, Window
  <2>4. FirstMatch' BY <2>1, <2>2, <2>3 DEF FirstMatch, Window
  <2> QED BY <1>5, <2>1, <2>4 DEF SearchInv
<1>8. CASE request.separator = ":" /\ pattern_len # 0 /\ request.len >= pattern_len
  <2>1. phase' = "scan" /\ addr' = request.start BY <1>3, <1>8 DEF handle_search_memory
  <2>2. pattern_len' = pattern_len /\ Last' = Last BY <1>1 DEF pattern_len, Last
  <2>3. \A a \in Window' : ~(a < addr')
    <3>1. \A a \in Addr : a \in Nat BY <1>3 DEF Addr
    <3> QED BY <1>1, <1>3, <2>1, <3>1 DEF Window
  <2>4. FirstMatch' BY <2>1 DEF FirstMatch
  <2>5. Last' # AddrSpace - 1 BY <1>1, <2>2 DEF SearchInv
  <2> QED BY <1>1, <1>3, <1>5, <1>8, <2>1, <2>2, <2>3, <2>4, <2>5 DEF SearchInv
<1> QED BY <1>3, <1>6, <1>7, <1>8

LEMMA ScanOK == ASSUME SearchInv, Scan PROVE SearchInv'
<1>1. UNCHANGED <<mem, request>> /\ phase = "scan" BY DEF Scan
<1>2. TypeOK /\ request \in Request /\ addr \in Addr BY DEF SearchInv, TypeOK
<1>3. AddrSpace \in Nat /\ \A a \in Addr : a \in Nat BY SpaceAssumption DEF Addr
<1>4. /\ request.start \in Nat /\ request.len \in Nat /\ pattern_len \in Nat
  BY <1>2, RequestOK DEF pattern_len
<1>5. pattern_len > 0 /\ request.len >= pattern_len BY <1>1 DEF SearchInv
<1>6. /\ pattern_len' = pattern_len /\ Last' = Last /\ Window' = Window /\ Bounded' = Bounded
      /\ \A a \in Addr : Matches(a)' = Matches(a)
  BY <1>1 DEF pattern_len, Last, Window, Bounded, Matches, read_mem
<1>7. Bounded => /\ addr >= request.start /\ \A a \in Window : a < addr => ~Matches(a)
  BY <1>1 DEF SearchInv
<1>8. CASE addr > LastStart /\ Answer("0") /\ UNCHANGED addr
  <2>1. TypeOK' BY <1>1, <1>2, <1>8 DEF TypeOK, Answer
  <2>2. Bounded => \A a \in Window : ~Matches(a)
    <3>1. SUFFICES ASSUME Bounded, NEW a \in Window PROVE ~Matches(a) OBVIOUS
    <3>2. a \in Addr BY DEF Window
    <3>3. a <= LastStart BY <1>2, <1>5, <3>1, <3>2, LastOK
    <3>4. LastStart \in Nat BY <1>2, <1>5, <3>1, LastOK
    <3> QED BY <1>2, <1>3, <1>7, <1>8, <3>1, <3>2, <3>3, <3>4
  <2>3. FirstMatch' BY <1>6, <1>8, <2>2 DEF FirstMatch, Answer, Window
  <2> QED BY <1>8, <2>1, <2>3 DEF SearchInv, Answer
<1>9. CASE addr <= LastStart /\ Matches(addr) /\ Answer("1") /\ UNCHANGED addr
  <2>1. TypeOK' BY <1>1, <1>2, <1>9 DEF TypeOK, Answer
  <2>2. Bounded => addr \in Window BY <1>2, <1>5, <1>7, <1>9, LastOK
  <2>3. FirstMatch' BY <1>2, <1>6, <1>7, <1>9, <2>2 DEF FirstMatch, Answer, Window
  <2> QED BY <1>9, <2>1, <2>3 DEF SearchInv, Answer
<1>10. CASE /\ addr <= LastStart /\ ~Matches(addr) /\ addr' = Wrap(addr + 1)
            /\ UNCHANGED <<phase, reply>>
  <2>1. TypeOK' BY <1>1, <1>2, <1>3, <1>10, WrapOK DEF TypeOK
  <2>2. ASSUME Bounded
        PROVE  addr' >= request.start /\ \A a \in Window : a < addr' => ~Matches(a)
    <3>1. addr <= Last /\ Last \in Nat /\ Last < AddrSpace /\ Last # AddrSpace - 1
      BY <1>1, <1>2, <1>5, <1>10, <2>2, LastOK DEF SearchInv
    <3>2. addr + 1 < AddrSpace BY <1>2, <1>3, <3>1
    <3>3. addr' = addr + 1 BY <1>2, <1>3, <1>10, <3>2, WrapOK
    <3>4. \A a \in Window : a \in Addr BY DEF Window
    <3> QED BY <1>2, <1>3, <1>4, <1>7, <1>10, <2>2, <3>3, <3>4
  <2>3. FirstMatch' BY <1>1, <1>10 DEF FirstMatch
  <2>4. Last' # AddrSpace - 1 BY <1>1, <1>6 DEF SearchInv
  <2>5. \A a \in Window : a \in Addr BY DEF Window
  <2> QED BY <1>1, <1>5, <1>6, <1>10, <2>1, <2>2, <2>3, <2>4, <2>5 DEF SearchInv
<1> QED BY <1>8, <1>9, <1>10 DEF Scan

LEMMA ClientOK == ASSUME BelowTop, SearchInv, Client PROVE SearchInv'
<1>1. ASSUME NEW a \in Ram, NEW b \in Byte, ClientWrites(a, b) PROVE SearchInv'
  BY <1>1 DEF ClientWrites, SearchInv, TypeOK, FirstMatch
<1>2. ASSUME NEW r \in Requests, ClientSearches(r) PROVE SearchInv'
  <2>1. r \in Request BY RequestsAssumption
  <2>2. TypeOK' BY <1>2, <2>1 DEF ClientSearches, SearchInv, TypeOK
  <2>3. r.start \in Nat /\ r.len \in Nat /\ Len(r.pattern) \in Nat /\ AddrSpace \in Nat
    BY <2>1, RequestOK, SpaceAssumption
  <2>4. Last' # AddrSpace - 1 BY <1>2, <2>3 DEF BelowTop, ClientSearches, Last, pattern_len
  <2> QED BY <1>2, <2>2, <2>4 DEF ClientSearches, SearchInv, FirstMatch
<1>3. CASE ClientTakesAnswer BY <1>3 DEF ClientTakesAnswer, SearchInv, TypeOK, FirstMatch
<1> QED BY <1>1, <1>2, <1>3 DEF Client

LEMMA Inductive == BelowTop /\ SearchInv /\ [Next]_vars => SearchInv'
<1> SUFFICES ASSUME BelowTop, SearchInv, [Next]_vars PROVE SearchInv' OBVIOUS
<1>1. CASE UNCHANGED vars
  BY <1>1 DEF vars, SearchInv, TypeOK, FirstMatch, Last, pattern_len, Bounded, Window,
              Matches, read_mem
<1> QED BY <1>1, ParseOK, ScanOK, ClientOK DEF Next, Stub

\* Unless the pattern could start at the very last address, a search reports the first
\* place in its window where the pattern starts, and nothing if there is none.
THEOREM SearchCorrect == BelowTop => (Spec => []FirstMatch)
<1> SUFFICES ASSUME BelowTop PROVE Spec => []FirstMatch OBVIOUS
<1>1. SearchInv => FirstMatch BY DEF SearchInv
<1>2. SearchInv /\ [Next]_vars => SearchInv' BY Inductive
<1> QED BY <1>1, <1>2, InitOK, PTL DEF Spec

\* Every step keeps the types, the search that wraps at the last address included.
LEMMA TypeInductive == TypeOK /\ [Next]_vars => TypeOK'
<1> SUFFICES ASSUME TypeOK, [Next]_vars PROVE TypeOK' OBVIOUS
<1>0. \A a \in Addr : a \in Nat BY SpaceAssumption DEF Addr
<1>1. request.start \in Addr /\ addr \in Addr /\ Wrap(addr + 1) \in Addr
  <2>1. request.start \in Addr BY DEF TypeOK, Request
  <2>2. addr \in Addr /\ addr + 1 \in Nat BY <1>0 DEF TypeOK
  <2> QED BY <2>1, <2>2, WrapOK
<1>2. CASE handle_search_memory BY <1>1, <1>2 DEF handle_search_memory, Answer, TypeOK
<1>3. CASE Scan BY <1>1, <1>3 DEF Scan, Answer, TypeOK
<1>4. ASSUME NEW a \in Ram, NEW b \in Byte, ClientWrites(a, b) PROVE TypeOK'
  BY <1>4 DEF ClientWrites, TypeOK
<1>5. ASSUME NEW r \in Requests, ClientSearches(r) PROVE TypeOK'
  BY <1>5, RequestsAssumption DEF ClientSearches, TypeOK
<1>6. CASE ClientTakesAnswer BY <1>6 DEF ClientTakesAnswer, TypeOK
<1>7. CASE UNCHANGED vars BY <1>7 DEF vars, TypeOK
<1> QED BY <1>2, <1>3, <1>4, <1>5, <1>6, <1>7 DEF Next, Stub, Client

\* Whatever is searched for and written, the loop variable of handle_search_memory stays
\* an address and the request one that was sent.
THEOREM TypeCorrect == Spec => []TypeOK
<1>1. Init => TypeOK BY InitOK DEF SearchInv
<1> QED BY <1>1, TypeInductive, PTL DEF Spec
==============================================================================
