-------------------------- MODULE PointTablesProofs --------------------------
(***************************************************************************)
(* Proofs about the breakpoint and watchpoint tables, for every capacity,  *)
(* every set of addresses and every set of packet lengths: the tables stay *)
(* within their arrays, no point ever owns two slots, and for a frugal     *)
(* debugger that does not watch address 0 the tables implement the         *)
(* armed-point sets of ArmedPoints.                                        *)
(***************************************************************************)
EXTENDS PointTables, FiniteSetTheorems, WellFoundedInduction, TLAPS

(***************************************************************************)
(* The table operations.                                                   *)
(***************************************************************************)

\* The points that own a slot, armed or not.
Known(table) == {table[i].key : i \in DOMAIN table}

NatLess == {ss \in Nat \X Nat : ss[1] < ss[2]}

\* Every non-empty set of naturals has a least element.
LEMMA LeastElement ==
  ASSUME NEW S \in SUBSET Nat, S # {}
  PROVE  \E n \in S : \A j \in S : n <= j
<1>1. IsWellFoundedOn(NatLess, Nat)
  BY NatLessThanWellFounded, Zenon DEF OpToRel, NatLess
<1>2. PICK n \in S : \A j \in S : <<j, n>> \notin NatLess
  BY <1>1, WFMin
<1>3. \A j \in S : j < n => <<j, n>> \in NatLess
  BY SMT DEF NatLess
<1>4. \A j \in S : ~ (j < n)
  BY <1>2, <1>3, Zenon
<1>5. \A j \in S : j \in Nat /\ n \in Nat
  OBVIOUS
<1> QED BY <1>4, <1>5

\* The scan finds a slot: among the matching slots there is a first one.
LEMMA FirstSlotFound ==
  ASSUME NEW K, NEW table \in Seq(Slot(K)), NEW k \in K, Holds(table, k)
  PROVE  /\ FirstSlot(table, k) \in DOMAIN table
         /\ table[FirstSlot(table, k)].key = k
<1> DEFINE matches == {i \in DOMAIN table : table[i].key = k}
<1>1. matches # {} /\ matches \subseteq Nat
  BY DEF Holds
<1>2. PICK m \in matches : \A j \in matches : m <= j
  BY <1>1, LeastElement
<1>3. /\ m \in DOMAIN table /\ table[m].key = k
      /\ \A j \in DOMAIN table : j < m => table[j].key # k
  BY <1>2
<1> QED BY <1>3 DEF FirstSlot

\* Arming or disarming a slot rewrites its flag and nothing else.
LEMMA SetEnabledFacts ==
  ASSUME NEW K, NEW table \in Seq(Slot(K)), NEW k \in K, Holds(table, k),
         NEW b \in BOOLEAN, NEW t, t = SetEnabled(table, k, b)
  PROVE  /\ t \in Seq(Slot(K))
         /\ Len(t) = Len(table) /\ DOMAIN t = DOMAIN table
         /\ \A i \in DOMAIN table : t[i].key = table[i].key
         /\ \A i \in DOMAIN table :
              t[i].enabled = IF i = FirstSlot(table, k) THEN b ELSE table[i].enabled
<1> DEFINE s == FirstSlot(table, k)
<1>1. s \in DOMAIN table /\ table[s].key = k
  BY FirstSlotFound
<1>2. t = [i \in DOMAIN table |-> IF i = s THEN [key |-> k, enabled |-> b] ELSE table[i]]
  BY DEF SetEnabled
<1> HIDE DEF s
<1>3. DOMAIN table = 1 .. Len(table) /\ Len(table) \in Nat
  OBVIOUS
<1>4. \A i \in DOMAIN table : table[i] \in Slot(K)
  OBVIOUS
<1>5. t \in [1 .. Len(table) -> Slot(K)]
  BY <1>1, <1>2, <1>3, <1>4 DEF Slot
<1>6. t \in Seq(Slot(K)) /\ Len(t) = Len(table)
  BY <1>3, <1>5
<1>7. \A i \in DOMAIN table : /\ t[i].key = table[i].key
                              /\ t[i].enabled = IF i = s THEN b ELSE table[i].enabled
  BY <1>1, <1>2
<1> QED BY <1>2, <1>6, <1>7 DEF s

\* What an insertion leaves behind, in slots and in sets.
LEMMA AddSlotFacts ==
  ASSUME NEW K, NEW table \in Seq(Slot(K)), NEW k \in K, NEW max \in Nat,
         ~ (Len(table) >= max), Distinct(table),
         NEW t, t = AddSlot(table, k, max)
  PROVE  /\ t \in Seq(Slot(K)) /\ Len(t) <= max
         /\ Distinct(t)
         /\ Known(t) = Known(table) \cup {k}
         /\ Armed(t) = Armed(table) \cup {k}
<1>0. DOMAIN table = 1 .. Len(table) /\ Len(table) \in Nat
  OBVIOUS
<1>1. CASE Holds(table, k)
  <2>0. PICK b \in BOOLEAN : b = TRUE
    OBVIOUS
  <2>1. t = SetEnabled(table, k, b)
    BY <1>1, <2>0 DEF AddSlot
  <2>2. /\ t \in Seq(Slot(K)) /\ Len(t) = Len(table) /\ DOMAIN t = DOMAIN table
        /\ \A i \in DOMAIN table : t[i].key = table[i].key
        /\ \A i \in DOMAIN table :
             t[i].enabled = IF i = FirstSlot(table, k) THEN b ELSE table[i].enabled
    BY <1>1, <2>1, SetEnabledFacts
  <2>3. FirstSlot(table, k) \in DOMAIN table /\ table[FirstSlot(table, k)].key = k
    BY <1>1, FirstSlotFound
  <2>4. Distinct(t)
    BY <2>2 DEF Distinct
  <2>5. Known(t) = Known(table) \cup {k}
    BY <2>2, <2>3 DEF Known
  <2>6. Armed(t) = Armed(table) \cup {k}
    <3>1. {j \in DOMAIN t : t[j].enabled}
            = {j \in DOMAIN table : table[j].enabled} \cup {FirstSlot(table, k)}
      BY <2>0, <2>2, <2>3
    <3> QED BY <2>2, <2>3, <3>1 DEF Armed
  <2> QED BY <1>0, <2>2, <2>4, <2>5, <2>6
<1>2. CASE ~Holds(table, k)
  <2> DEFINE e == [key |-> k, enabled |-> TRUE]
  <2>1. t = Append(table, e)
    BY <1>2 DEF AddSlot
  <2>2. e \in Slot(K)
    BY DEF Slot
  <2>3. /\ t \in Seq(Slot(K)) /\ Len(t) = Len(table) + 1
        /\ DOMAIN t = DOMAIN table \cup {Len(table) + 1}
        /\ \A i \in DOMAIN table : t[i] = table[i]
        /\ t[Len(table) + 1] = e
    BY <1>0, <2>1, <2>2
  <2>4. Len(table) + 1 \notin DOMAIN table
    BY <1>0
  <2>5. \A i \in DOMAIN table : table[i].key # k
    BY <1>2 DEF Holds
  <2>6. e.key = k /\ e.enabled = TRUE
    OBVIOUS
  <2> HIDE DEF e
  <2>7. Distinct(t)
    BY <2>3, <2>4, <2>5, <2>6 DEF Distinct
  <2>8. Known(t) = Known(table) \cup {k}
    BY <2>3, <2>6 DEF Known
  <2>9. Armed(t) = Armed(table) \cup {k}
    <3>1. {j \in DOMAIN t : t[j].enabled}
            = {j \in DOMAIN table : table[j].enabled} \cup {Len(table) + 1}
      BY <2>3, <2>6
    <3> QED BY <2>3, <2>6, <3>1 DEF Armed
  <2> QED BY <1>0, <2>3, <2>7, <2>8, <2>9
<1> QED BY <1>1, <1>2

\* A removal disarms the point and keeps it known.
LEMMA RemoveSlotFacts ==
  ASSUME NEW K, NEW table \in Seq(Slot(K)), NEW k \in K, Distinct(table),
         NEW t, t = RemoveSlot(table, k)
  PROVE  /\ t \in Seq(Slot(K)) /\ Len(t) = Len(table)
         /\ Distinct(t)
         /\ Known(t) = Known(table)
         /\ Holds(table, k) <=> k \in Known(table)
         /\ Armed(t) = Armed(table) \ {k}
<1>1. CASE Holds(table, k)
  <2>0. PICK b \in BOOLEAN : b = FALSE
    OBVIOUS
  <2>1. t = SetEnabled(table, k, b)
    BY <1>1, <2>0 DEF RemoveSlot
  <2>2. /\ t \in Seq(Slot(K)) /\ Len(t) = Len(table) /\ DOMAIN t = DOMAIN table
        /\ \A i \in DOMAIN table : t[i].key = table[i].key
        /\ \A i \in DOMAIN table :
             t[i].enabled = IF i = FirstSlot(table, k) THEN b ELSE table[i].enabled
    BY <1>1, <2>1, SetEnabledFacts
  <2>3. FirstSlot(table, k) \in DOMAIN table /\ table[FirstSlot(table, k)].key = k
    BY <1>1, FirstSlotFound
  <2>4. \A i \in DOMAIN table : table[i].key = k <=> i = FirstSlot(table, k)
    BY <2>3 DEF Distinct
  <2>5. Distinct(t) /\ Known(t) = Known(table)
    BY <2>2 DEF Distinct, Known
  <2>6. Armed(t) = Armed(table) \ {k}
    <3>1. {j \in DOMAIN t : t[j].enabled}
            = {j \in DOMAIN table : table[j].enabled} \ {FirstSlot(table, k)}
      BY <2>0, <2>2
    <3>2. Armed(t) \subseteq Armed(table) \ {k}
      BY <2>2, <2>4, <3>1 DEF Armed
    <3>3. Armed(table) \ {k} \subseteq Armed(t)
      BY <2>2, <2>4, <3>1 DEF Armed
    <3> QED BY <3>2, <3>3
  <2> QED BY <1>1, <2>2, <2>5, <2>6 DEF Holds, Known
<1>2. CASE ~Holds(table, k)
  <2>1. t = table
    BY <1>2 DEF RemoveSlot
  <2>2. k \notin Known(table) /\ Armed(table) = Armed(table) \ {k}
    BY <1>2 DEF Holds, Known, Armed
  <2> QED BY <1>2, <2>1, <2>2
<1> QED BY <1>1, <1>2

\* Without duplicates, the fill count is the number of known points.
LEMMA KnownCardinality ==
  ASSUME NEW K, NEW table \in Seq(Slot(K)), Distinct(table)
  PROVE  IsFiniteSet(Known(table)) /\ Cardinality(Known(table)) = Len(table)
<1> DEFINE f == [i \in DOMAIN table |-> table[i].key]
<1>1. DOMAIN table = 1 .. Len(table) /\ Len(table) \in Nat
  OBVIOUS
<1>2. f \in Bijection(DOMAIN table, Known(table))
  BY DEF Bijection, Injection, IsInjective, Surjection, Known, Distinct
<1>3. ExistsBijection(1 .. Len(table), Known(table))
  BY <1>1, <1>2 DEF ExistsBijection
<1>4. IsFiniteSet(1 .. Len(table)) /\ Cardinality(1 .. Len(table)) = Len(table)
  BY <1>1, FS_Interval
<1> QED BY <1>3, <1>4, FS_Bijection

\* With a slot to spare there is room among the armed points; if every slot is
\* armed and none has the point, there is none.
LEMMA CapacityFacts ==
  ASSUME NEW K, NEW table \in Seq(Slot(K)), Distinct(table), NEW k \in K, NEW max \in Nat
  PROVE  /\ Len(table) < max => Cardinality(Armed(table)) < max
         /\ (~Holds(table, k) /\ \A i \in DOMAIN table : table[i].enabled)
               => k \notin Armed(table) /\ Cardinality(Armed(table)) = Len(table)
<1>1. IsFiniteSet(Known(table)) /\ Cardinality(Known(table)) = Len(table)
  BY KnownCardinality
<1>2. Armed(table) \subseteq Known(table)
  BY DEF Armed, Known
<1>3. /\ Cardinality(Armed(table)) <= Len(table)
      /\ Cardinality(Armed(table)) \in Nat /\ Len(table) \in Nat
  BY <1>1, <1>2, FS_Subset, FS_CardinalityType
<1>4. ASSUME ~Holds(table, k), \A i \in DOMAIN table : table[i].enabled
      PROVE  k \notin Armed(table) /\ Armed(table) = Known(table)
  BY <1>4 DEF Holds, Armed, Known
<1> QED BY <1>1, <1>3, <1>4

(***************************************************************************)
(* The range test of the watchpoint checks.                                *)
(***************************************************************************)

\* ranges_overlap is exact: it holds precisely when the access and the watched
\* range have a byte in common, at every boundary and for every length.
THEOREM OverlapIsSharedByte ==
  ASSUME NEW a \in Nat, NEW n \in Nat, NEW w \in [addr : Nat, len : Nat, type : WatchTypes]
  PROVE  ranges_overlap(a, n, w.addr, w.len) <=> Points!Touches(w, a, n)
<1>0. w.addr \in Nat /\ w.len \in Nat
  OBVIOUS
<1>1. ASSUME ranges_overlap(a, n, w.addr, w.len)
      PROVE  Points!Touches(w, a, n)
  <2>1. CASE a >= w.addr
    <3>1. a \in a .. (a + n - 1) /\ w.addr <= a /\ a < w.addr + w.len
      BY <1>0, <1>1, <2>1 DEF ranges_overlap
    <3> QED BY <3>1 DEF Points!Touches
  <2>2. CASE a < w.addr
    <3>1. w.addr \in a .. (a + n - 1) /\ w.addr <= w.addr /\ w.addr < w.addr + w.len
      BY <1>0, <1>1, <2>2 DEF ranges_overlap
    <3> QED BY <3>1 DEF Points!Touches
  <2> QED BY <1>0, <2>1, <2>2
<1>2. ASSUME Points!Touches(w, a, n)
      PROVE  ranges_overlap(a, n, w.addr, w.len)
  BY <1>0, <1>2 DEF Points!Touches, ranges_overlap
<1> QED BY <1>1, <1>2

(***************************************************************************)
(* The inductive invariant: bounded, well-typed tables without duplicates. *)
(***************************************************************************)
IInv == TypeOK /\ NoDuplicateSlots

LEMMA EmptyTable ==
  ASSUME NEW K
  PROVE  /\ <<>> \in Seq(Slot(K)) /\ Len(<<>>) = 0 /\ DOMAIN <<>> = {}
         /\ Distinct(<<>>) /\ Known(<<>>) = {} /\ Armed(<<>>) = {}
BY DEF Distinct, Known, Armed

LEMMA EmptyTablesFit ==
  /\ <<>> \in Seq(Slot(Addr)) /\ <<>> \in Seq(Slot(WatchKey))
  /\ Len(<<>>) <= MaxBreakpoints /\ Len(<<>>) <= MaxWatchpoints
  /\ Distinct(<<>>)
<1>1. Len(<<>>) = 0 /\ Distinct(<<>>)
  BY EmptyTable
<1>2. 0 <= MaxBreakpoints /\ 0 <= MaxWatchpoints
  BY MaxAssumption
<1> QED BY <1>1, <1>2

\* The length a watchpoint gets is an access length, also when the packet says 0.
LEMMA WatchKeyType ==
  ASSUME NEW a \in WatchAddr, NEW n \in PacketLen, NEW ty \in WatchTypes
  PROVE  WatchKeyOf(a, n, ty) \in WatchKey
BY LenAssumption DEF WatchKeyOf, WatchKey, AccessLen, DefaultLen

\* A check records the address of a slot that matches.
LEMMA FirstMatch ==
  ASSUME NEW S \in SUBSET Nat, S # {},
         NEW m, m = CHOOSE i \in S : \A j \in S : i <= j
  PROVE  m \in S
BY LeastElement

\* ArmedPoints counts with the same Cardinality.
LEMMA SameCardinality ==
  ASSUME NEW S
  PROVE  Points!Cardinality(S) = Cardinality(S)
BY DEF Points!Cardinality, Cardinality

LEMMA AddBreakpointStep ==
  ASSUME IInv, NEW a \in Addr,
         gdb_stub_add_breakpoint(a)
  PROVE  /\ IInv'
         /\ Frugal /\ Affords(breakpoints, a, MaxBreakpoints)
              => Points!InsertBreakpoint(a)
<1> DEFINE k == a
<1>1. /\ breakpoints \in Seq(Slot(Addr)) /\ Distinct(breakpoints)
      /\ MaxBreakpoints \in Nat /\ Len(breakpoints) \in Nat /\ k \in Addr
  BY MaxAssumption DEF IInv, TypeOK, NoDuplicateSlots
<1> HIDE DEF k
<1>2. /\ Len(breakpoints) < MaxBreakpoints => Cardinality(Armed(breakpoints)) < MaxBreakpoints
      /\ (~Holds(breakpoints, k) /\ \A i \in DOMAIN breakpoints : breakpoints[i].enabled)
            => k \notin Armed(breakpoints) /\ Cardinality(Armed(breakpoints)) = Len(breakpoints)
  BY <1>1, CapacityFacts
<1>3. /\ breakpoints' = AddSlot(breakpoints, k, MaxBreakpoints) /\ result' = AddResult(breakpoints, MaxBreakpoints)
      /\ UNCHANGED <<watchpoints, breakpoint_hit, last_watchpoint_addr>>
  BY DEF gdb_stub_add_breakpoint, k
<1>4. CASE Len(breakpoints) >= MaxBreakpoints
  <2>1. breakpoints' = breakpoints /\ result' = "full"
    BY <1>3, <1>4 DEF AddSlot, AddResult
  <2>2. IInv'
    BY <1>3, <2>1 DEF IInv, TypeOK, NoDuplicateSlots, Results
  <2>3. ASSUME Frugal, Affords(breakpoints, k, MaxBreakpoints)
        PROVE  Points!InsertBreakpoint(k)
    <3>1. ~Points!Room(Armed(breakpoints), k, MaxBreakpoints)
      BY <1>1, <1>2, <1>4, <2>3, SameCardinality DEF Affords, Points!Room
    <3> QED BY <1>3, <2>1, <3>1 DEF Points!InsertBreakpoint, Points!hitVars
  <2> QED BY <2>2, <2>3 DEF k
<1>5. CASE ~ (Len(breakpoints) >= MaxBreakpoints)
  <2>1. result' = "OK"
    BY <1>3, <1>5 DEF AddResult
  <2>2. /\ breakpoints' \in Seq(Slot(Addr)) /\ Len(breakpoints') <= MaxBreakpoints
        /\ Distinct(breakpoints')
        /\ Armed(breakpoints') = Armed(breakpoints) \cup {k}
    BY <1>1, <1>3, <1>5, AddSlotFacts
  <2>3. IInv'
    BY <1>3, <2>1, <2>2 DEF IInv, TypeOK, NoDuplicateSlots, Results
  <2>4. Points!Room(Armed(breakpoints), k, MaxBreakpoints)
    BY <1>1, <1>2, <1>5, SameCardinality DEF Points!Room
  <2>5. Points!InsertBreakpoint(k)
    BY <1>3, <2>1, <2>2, <2>4 DEF Points!InsertBreakpoint, Points!hitVars
  <2> QED BY <2>3, <2>5 DEF k
<1> QED BY <1>4, <1>5

LEMMA AddWatchpointStep ==
  ASSUME IInv, NEW a \in WatchAddr, NEW n \in PacketLen, NEW ty \in WatchTypes,
         gdb_stub_add_watchpoint(a, n, ty)
  PROVE  /\ IInv'
         /\ Frugal /\ Affords(watchpoints, WatchKeyOf(a, n, ty), MaxWatchpoints)
              => Points!InsertWatchpoint(WatchKeyOf(a, n, ty))
<1> DEFINE k == WatchKeyOf(a, n, ty)
<1>1. /\ watchpoints \in Seq(Slot(WatchKey)) /\ Distinct(watchpoints)
      /\ MaxWatchpoints \in Nat /\ Len(watchpoints) \in Nat /\ k \in WatchKey
  BY MaxAssumption, WatchKeyType DEF IInv, TypeOK, NoDuplicateSlots
<1> HIDE DEF k
<1>2. /\ Len(watchpoints) < MaxWatchpoints => Cardinality(Armed(watchpoints)) < MaxWatchpoints
      /\ (~Holds(watchpoints, k) /\ \A i \in DOMAIN watchpoints : watchpoints[i].enabled)
            => k \notin Armed(watchpoints) /\ Cardinality(Armed(watchpoints)) = Len(watchpoints)
  BY <1>1, CapacityFacts
<1>3. /\ watchpoints' = AddSlot(watchpoints, k, MaxWatchpoints) /\ result' = AddResult(watchpoints, MaxWatchpoints)
      /\ UNCHANGED <<breakpoints, breakpoint_hit, last_watchpoint_addr>>
  BY DEF gdb_stub_add_watchpoint, k
<1>4. CASE Len(watchpoints) >= MaxWatchpoints
  <2>1. watchpoints' = watchpoints /\ result' = "full"
    BY <1>3, <1>4 DEF AddSlot, AddResult
  <2>2. IInv'
    BY <1>3, <2>1 DEF IInv, TypeOK, NoDuplicateSlots, Results
  <2>3. ASSUME Frugal, Affords(watchpoints, k, MaxWatchpoints)
        PROVE  Points!InsertWatchpoint(k)
    <3>1. ~Points!Room(Armed(watchpoints), k, MaxWatchpoints)
      BY <1>1, <1>2, <1>4, <2>3, SameCardinality DEF Affords, Points!Room
    <3> QED BY <1>3, <2>1, <3>1 DEF Points!InsertWatchpoint, Points!hitVars
  <2> QED BY <2>2, <2>3 DEF k
<1>5. CASE ~ (Len(watchpoints) >= MaxWatchpoints)
  <2>1. result' = "OK"
    BY <1>3, <1>5 DEF AddResult
  <2>2. /\ watchpoints' \in Seq(Slot(WatchKey)) /\ Len(watchpoints') <= MaxWatchpoints
        /\ Distinct(watchpoints')
        /\ Armed(watchpoints') = Armed(watchpoints) \cup {k}
    BY <1>1, <1>3, <1>5, AddSlotFacts
  <2>3. IInv'
    BY <1>3, <2>1, <2>2 DEF IInv, TypeOK, NoDuplicateSlots, Results
  <2>4. Points!Room(Armed(watchpoints), k, MaxWatchpoints)
    BY <1>1, <1>2, <1>5, SameCardinality DEF Points!Room
  <2>5. Points!InsertWatchpoint(k)
    BY <1>3, <2>1, <2>2, <2>4 DEF Points!InsertWatchpoint, Points!hitVars
  <2> QED BY <2>3, <2>5 DEF k
<1> QED BY <1>4, <1>5

LEMMA RemoveBreakpointStep ==
  ASSUME IInv, NEW a \in Addr, gdb_stub_remove_breakpoint(a)
  PROVE  IInv' /\ Points!RemoveBreakpoint(a)
<1>1. breakpoints \in Seq(Slot(Addr)) /\ Distinct(breakpoints)
  BY DEF IInv, TypeOK, NoDuplicateSlots
<1>2. /\ breakpoints' = RemoveSlot(breakpoints, a)
      /\ result' = IF Holds(breakpoints, a) THEN "OK" ELSE "absent"
  BY DEF gdb_stub_remove_breakpoint, RemoveResult
<1>3. /\ breakpoints' \in Seq(Slot(Addr)) /\ Len(breakpoints') = Len(breakpoints)
      /\ Distinct(breakpoints')
      /\ Known(breakpoints') = Known(breakpoints)
      /\ Holds(breakpoints, a) <=> a \in Known(breakpoints)
      /\ Armed(breakpoints') = Armed(breakpoints) \ {a}
  BY <1>1, <1>2, RemoveSlotFacts
<1>4. IInv'
  BY <1>2, <1>3 DEF IInv, TypeOK, NoDuplicateSlots, gdb_stub_remove_breakpoint, Results
<1>5. a \notin Known(breakpoints) => a \notin Armed(breakpoints)
  BY DEF Known, Armed
<1>6. Points!RemoveBreakpoint(a)
  BY <1>2, <1>3, <1>5 DEF Points!RemoveBreakpoint, Points!Removal,
     gdb_stub_remove_breakpoint, Points!hitVars
<1> QED BY <1>4, <1>6

LEMMA RemoveWatchpointStep ==
  ASSUME IInv, NEW a \in WatchAddr, NEW n \in PacketLen, NEW ty \in WatchTypes,
         gdb_stub_remove_watchpoint(a, n, ty)
  PROVE  IInv' /\ Points!RemoveWatchpoint(WatchKeyOf(a, n, ty))
<1> DEFINE k == WatchKeyOf(a, n, ty)
<1>1. watchpoints \in Seq(Slot(WatchKey)) /\ Distinct(watchpoints)
  BY DEF IInv, TypeOK, NoDuplicateSlots
<1>2. /\ watchpoints' = RemoveSlot(watchpoints, k)
      /\ result' = IF Holds(watchpoints, k) THEN "OK" ELSE "absent"
  BY DEF gdb_stub_remove_watchpoint, RemoveResult
<1>3. /\ watchpoints' \in Seq(Slot(WatchKey)) /\ Len(watchpoints') = Len(watchpoints)
      /\ Distinct(watchpoints')
      /\ Known(watchpoints') = Known(watchpoints)
      /\ Holds(watchpoints, k) <=> k \in Known(watchpoints)
      /\ Armed(watchpoints') = Armed(watchpoints) \ {k}
  BY <1>1, <1>2, RemoveSlotFacts, WatchKeyType
<1>4. IInv'
  BY <1>2, <1>3 DEF IInv, TypeOK, NoDuplicateSlots, gdb_stub_remove_watchpoint, Results
<1>5. k \notin Known(watchpoints) => k \notin Armed(watchpoints)
  BY DEF Known, Armed
<1>6. Points!RemoveWatchpoint(k)
  BY <1>2, <1>3, <1>5 DEF Points!RemoveWatchpoint, Points!Removal,
     gdb_stub_remove_watchpoint, Points!hitVars
<1> QED BY <1>4, <1>6

LEMMA CheckBreakpointStep ==
  ASSUME IInv, NEW pc \in Addr, gdb_stub_check_breakpoint(pc)
  PROVE  IInv' /\ Points!CheckBreakpoint(pc)
<1>1. IInv'
  BY DEF gdb_stub_check_breakpoint, IInv, TypeOK, NoDuplicateSlots, Results
<1>2. (\E i \in DOMAIN breakpoints : breakpoints[i].enabled /\ breakpoints[i].key = pc)
        <=> pc \in Armed(breakpoints)
  BY DEF Armed
<1>3. Points!CheckBreakpoint(pc)
  BY <1>2 DEF gdb_stub_check_breakpoint, Points!CheckBreakpoint
<1> QED BY <1>1, <1>3

LEMMA CheckWatchpointStep ==
  ASSUME IInv, NEW types, NEW a \in Addr, NEW n \in AccessLen, CheckWatchpoint(types, a, n)
  PROVE  IInv' /\ (0 \notin WatchAddr => Points!CheckWatchpoint(types, a, n))
<1> DEFINE matching == {i \in DOMAIN watchpoints : Covers(watchpoints[i], types, a, n)}
           first    == CHOOSE i \in matching : \A j \in matching : i <= j
           touched  == {w \in Armed(watchpoints) : w.type \in types /\ Points!Touches(w, a, n)}
<1>1. /\ watchpoints \in Seq(Slot(WatchKey))
      /\ \A i \in DOMAIN watchpoints : watchpoints[i].key \in WatchKey
  <2>1. watchpoints \in Seq(Slot(WatchKey))
    BY DEF IInv, TypeOK
  <2>2. \A i \in DOMAIN watchpoints : watchpoints[i] \in Slot(WatchKey)
    BY <2>1
  <2> QED BY <2>1, <2>2 DEF Slot
<1>2. /\ a \in Nat /\ n \in Nat
      /\ \A w \in WatchKey : w \in [addr : Nat, len : Nat, type : WatchTypes]
  <2>1. Addr \subseteq Nat /\ WatchAddr \subseteq Nat /\ AccessLen \subseteq Nat
    BY AddrAssumption, LenAssumption DEF AccessLen, DefaultLen
  <2> QED BY <2>1 DEF WatchKey
<1>3. \A i \in DOMAIN watchpoints :
        ranges_overlap(a, n, watchpoints[i].key.addr, watchpoints[i].key.len)
          <=> Points!Touches(watchpoints[i].key, a, n)
  BY <1>1, <1>2, OverlapIsSharedByte
<1>4. touched = {watchpoints[i].key : i \in matching}
  BY <1>3 DEF Armed, Covers
<1>5. matching # {} => first \in matching
  <2>1. matching \in SUBSET Nat
    BY <1>1
  <2> HIDE DEF matching
  <2> QED BY <2>1, FirstMatch
<1>6. \/ /\ matching = {} /\ result' = "miss"
         /\ UNCHANGED last_watchpoint_addr
      \/ /\ matching # {} /\ result' = "hit"
         /\ last_watchpoint_addr' = watchpoints[first].key.addr
  BY DEF CheckWatchpoint
<1>7. UNCHANGED <<breakpoints, watchpoints, breakpoint_hit>>
  BY DEF CheckWatchpoint
<1> HIDE DEF matching, first
<1>8. matching # {} => watchpoints[first].key.addr \in WatchAddr
  BY <1>1, <1>5 DEF matching, WatchKey
<1>9. IInv'
  BY <1>6, <1>7, <1>8 DEF IInv, TypeOK, NoDuplicateSlots, Results
<1>10. ASSUME 0 \notin WatchAddr
       PROVE  Points!CheckWatchpoint(types, a, n)
  <2>1. matching # {} => {last_watchpoint_addr'} \ {0} = {watchpoints[first].key.addr}
    BY <1>6, <1>8, <1>10
  <2>2. UNCHANGED <<Armed(breakpoints), Armed(watchpoints), breakpoint_hit>>
    BY <1>7
  <2>3. CASE matching = {}
    BY <1>4, <1>6, <2>2, <2>3 DEF Points!CheckWatchpoint
  <2>4. CASE matching # {}
    BY <1>4, <1>5, <1>6, <2>1, <2>2, <2>4 DEF Points!CheckWatchpoint
  <2> QED BY <2>3, <2>4
<1> QED BY <1>9, <1>10

(***************************************************************************)
(* The specification.                                                      *)
(***************************************************************************)

LEMMA InitFacts ==
  ASSUME Init
  PROVE  IInv /\ Points!Init
<1>1. IInv
  BY EmptyTablesFit DEF Init, IInv, TypeOK, NoDuplicateSlots, Results
<1>2. Points!Init
  BY EmptyTable DEF Init, Points!Init
<1> QED BY <1>1, <1>2

\* The debuggers for which the code keeps the documentation's promises: they do
\* not count on the slot of a removed point and do not watch address 0.
Considerate == Frugal /\ 0 \notin WatchAddr

\* Every step keeps the invariant and, for a considerate debugger, is a step or
\* a stutter of ArmedPoints.
LEMMA StepFacts ==
  ASSUME IInv, [Next]_vars
  PROVE  IInv' /\ (Considerate => [Points!Next]_(Points!vars))
<1>1. ASSUME NEW a \in Addr, Affords(breakpoints, a, MaxBreakpoints), gdb_stub_add_breakpoint(a)
      PROVE  IInv' /\ (Considerate => Points!Next)
  BY <1>1, AddBreakpointStep DEF Points!Next, Considerate
<1>2. ASSUME NEW a \in Addr, gdb_stub_remove_breakpoint(a)
      PROVE  IInv' /\ Points!Next
  BY <1>2, RemoveBreakpointStep DEF Points!Next
<1>3. ASSUME NEW a \in WatchAddr, NEW n \in PacketLen, NEW ty \in WatchTypes,
             Affords(watchpoints, WatchKeyOf(a, n, ty), MaxWatchpoints),
             gdb_stub_add_watchpoint(a, n, ty)
      PROVE  IInv' /\ (Considerate => Points!Next)
  BY <1>3, AddWatchpointStep, WatchKeyType
     DEF Points!Next, WatchKey, WatchTypes, Points!WatchTypes, Considerate
<1>4. ASSUME NEW a \in WatchAddr, NEW n \in PacketLen, NEW ty \in WatchTypes,
             gdb_stub_remove_watchpoint(a, n, ty)
      PROVE  IInv' /\ Points!Next
  BY <1>4, RemoveWatchpointStep, WatchKeyType DEF Points!Next, WatchKey, WatchTypes, Points!WatchTypes
<1>5. ASSUME RejectPacket
      PROVE  IInv' /\ Points!Next
  <2>1. IInv'
    BY <1>5 DEF RejectPacket, IInv, TypeOK, NoDuplicateSlots, Results
  <2>2. Points!Refuse
    BY <1>5 DEF RejectPacket, Points!Refuse, Points!hitVars
  <2> QED BY <2>1, <2>2 DEF Points!Next
<1>6. ASSUME handle_reset
      PROVE  IInv' /\ Points!Next
  <2>1. IInv'
    BY <1>6, EmptyTablesFit
       DEF handle_reset, IInv, TypeOK, NoDuplicateSlots, Results
  <2>2. Points!Reset
    BY <1>6, EmptyTable DEF handle_reset, Points!Reset
  <2> QED BY <2>1, <2>2 DEF Points!Next
<1>7. ASSUME NEW pc \in Addr, gdb_stub_check_breakpoint(pc)
      PROVE  IInv' /\ Points!Next
  BY <1>7, CheckBreakpointStep DEF Points!Next
<1>8. ASSUME NEW a \in Addr, NEW n \in AccessLen,
             gdb_stub_check_watchpoint_read(a, n) \/ gdb_stub_check_watchpoint_write(a, n)
      PROVE  IInv' /\ (Considerate => Points!Next)
  BY <1>8, CheckWatchpointStep
     DEF Points!Next, gdb_stub_check_watchpoint_read, gdb_stub_check_watchpoint_write,
         ReadTypes, WriteTypes, Points!ReadTypes, Points!WriteTypes, Considerate
<1>9. ASSUME gdb_stub_send_stop_reason
      PROVE  IInv' /\ Points!Next
  <2>1. IInv'
    BY <1>9 DEF gdb_stub_send_stop_reason, IInv, TypeOK, NoDuplicateSlots, Results
  <2>2. Points!ReportStop
    BY <1>9 DEF gdb_stub_send_stop_reason, Points!ReportStop, Points!hitVars
  <2> QED BY <2>1, <2>2 DEF Points!Next
<1>10. ASSUME NEW single_step \in BOOLEAN, NEW pc \in Addr, handle_halt_reason(single_step, pc)
       PROVE  IInv' /\ Points!Next
  <2>1. CASE gdb_stub_check_breakpoint(pc)
    BY <2>1, CheckBreakpointStep DEF Points!Next
  <2>2. CASE ~ gdb_stub_check_breakpoint(pc)
    <3>1. IInv'
      BY <1>10, <2>2 DEF handle_halt_reason, IInv, TypeOK, NoDuplicateSlots, Results
    <3>2. Points!Inquire(pc)
      BY <1>10, <2>2 DEF handle_halt_reason, Points!Inquire, Points!hitVars
    <3> QED BY <3>1, <3>2 DEF Points!Next
  <2> QED BY <2>1, <2>2
<1>11. ASSUME UNCHANGED vars
       PROVE  IInv' /\ UNCHANGED Points!vars
  BY <1>11 DEF vars, Points!vars, IInv, TypeOK, NoDuplicateSlots
<1> QED BY <1>1, <1>2, <1>3, <1>4, <1>5, <1>6, <1>7, <1>8, <1>9, <1>10, <1>11
        DEF Next, handle_breakpoint

\* The inductive invariant holds in every reachable state.
LEMMA Invariance == Spec => []IInv
<1>1. Init => IInv
  BY InitFacts
<1>2. IInv /\ [Next]_vars => IInv'
  BY StepFacts
<1> QED BY <1>1, <1>2, PTL DEF Spec

\* The tables never outgrow their arrays: gdb_stub_add_breakpoint and
\* gdb_stub_add_watchpoint write below MAX_BREAKPOINTS and MAX_WATCHPOINTS, and a
\* pending report always names a watched address.
THEOREM TypeCorrect == Spec => []TypeOK
<1>1. IInv => TypeOK
  BY DEF IInv
<1> QED BY <1>1, Invariance, PTL

\* No sequence of insertions, removals and resets gives a point two slots.
THEOREM SlotsUnique == Spec => []NoDuplicateSlots
<1>1. IInv => NoDuplicateSlots
  BY DEF IInv
<1> QED BY <1>1, Invariance, PTL

\* For a considerate debugger the tables with their scans, flags and fill counts
\* implement the documentation's sets of armed points: this is what the run loop
\* relies on when it asks gdb_stub_check_breakpoint or a memory access asks the
\* watchpoint checks.  Without the first of its two hypotheses an insertion
\* can be refused with nothing armed, without the second a hit at address 0 is
\* reported as a plain stop.
THEOREM Refinement ==
  ASSUME Considerate
  PROVE  Spec => ImplementsArmedPoints
<1>1. Init => Points!Init
  BY InitFacts
<1>2. IInv /\ [Next]_vars => [Points!Next]_(Points!vars)
  BY StepFacts
<1> QED BY <1>1, <1>2, Invariance, PTL DEF Spec, ImplementsArmedPoints, Points!Spec
==============================================================================
