---------------------------- MODULE PacketChannel ----------------------------
(***************************************************************************)
(* What packet framing promises to the rest of the stub, and what          *)
(* RunControl takes for granted: the packets the debugger sends are        *)
(* handled whole, in the order they were sent, each at most once.          *)
(***************************************************************************)
EXTENDS Sequences, Naturals

CONSTANT Packet

VARIABLES sent,        \* packets the debugger has sent
          delivered    \* packets that reached a handler

Init == sent = <<>> /\ delivered = <<>>

Send(p) == sent' = Append(sent, p) /\ UNCHANGED delivered

Deliver ==
  /\ Len(delivered) < Len(sent)
  /\ delivered' = Append(delivered, sent[Len(delivered) + 1])
  /\ UNCHANGED sent

Next == Deliver \/ \E p \in Packet : Send(p)

Spec == Init /\ [][Next]_<<sent, delivered>>
==============================================================================
