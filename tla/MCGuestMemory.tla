---------------------------- MODULE MCGuestMemory ----------------------------
\* Instances of GuestMemory: RAM of 72 bytes at 128 of 256 addresses, the shared
\* variables at their offsets from 132, accesses at and across every edge.
EXTENDS GuestMemory

At1(S, n) == [addr : S, len : {n}]

MCLoads == At1({127, 128, 199, 200}, 1) \cup At1({127, 198, 199, 255}, 2)
             \cup At1({126, 144, 196, 197, 253}, 4)

\* The debugger reads the device, both ends of RAM, the end of the shared variables.
MCReads == At1({16, 144}, 1) \cup At1({126, 193, 196, 253}, 5)

StoreOf(S, d) == [addr : S, data : {d}]

\* Bytes, halves and words at the ends, the store of the count by a worker, and a word
\* to the device, which a hart does not reach.
MCStores == StoreOf({128, 199}, <<1>>) \cup StoreOf({127, 198, 199}, <<1, 2>>)
              \cup StoreOf({144}, <<1, 0, 0, 0>>)
              \cup StoreOf({125, 196, 197, 255}, <<3, 0, 0, 3>>)
              \cup StoreOf({16}, <<5, 0, 1, 0>>)

MCWrites == StoreOf({16, 127, 195, 199, 255}, <<5, 5>>)

MCProgram == <<7, 7>>
==============================================================================
