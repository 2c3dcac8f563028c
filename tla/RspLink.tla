------------------------------- MODULE RspLink -------------------------------
(***************************************************************************)
(* The byte level of the remote protocol: receive_packet, send_packet and  *)
(* the acknowledgements of gdb_stub.c, the failure counter, the way main   *)
(* leaves, and the poll of the running target, which looks for bytes and   *)
(* not for packets.  The debugger on the other end of the connection       *)
(* follows gdb: it waits for + unless both sides agreed not to, repeats a  *)
(* packet that was answered with - or not at all, acknowledges and drops a *)
(* packet where it waits for +, and takes the next packet as the reply.    *)
(*                                                                         *)
(* What a handler does is left to RunControl: here it sends one reply.     *)
(* Bytes to the stub are real bytes; what travels to the debugger is a     *)
(* sequence of +, - and whole replies, marked with the packet they answer. *)
(***************************************************************************)
EXTENDS Naturals, Sequences

CONSTANTS
  BufSize,        \* GDB_BUFFER_SIZE
  MaxFailures,    \* 50 in gdb_stub_process
  Payloads,       \* packets the debugger sends, as sequences of bytes
  Noise,          \* bytes that may arrive in place of others
  Reframing,      \* whether damage may move the start or the end of a packet
  MaxPackets,     \* bound on packets and interrupt bytes sent
  MaxBadRequests, \* bound on packets damaged on their way to the stub
  MaxBadReplies,  \* bound on replies damaged on their way to the debugger
  Interrupts,     \* with which values of no-ack mode the debugger interrupts runs
  Closes          \* whether the debugger may close the connection

DOLLAR == 36
HASH   == 35
PLUS   == 43
MINUS  == 45
CTRLC  == 3
Byte   == 0 .. 255

ASSUME SizeAssumption == BufSize \in Nat \ {0} /\ MaxFailures \in Nat \ {0}
ASSUME PayloadAssumption == \A p \in Payloads : p \in Seq(Byte \ {HASH})
ASSUME NoiseAssumption == Noise \subseteq Byte /\ Reframing \in BOOLEAN
ASSUME BoundAssumption == /\ MaxPackets \in Nat /\ MaxBadRequests \in Nat /\ MaxBadReplies \in Nat
                          /\ Interrupts \subseteq BOOLEAN /\ Closes \in BOOLEAN

VARIABLES
  stub,        \* connected, no_ack_mode, consecutive_failures of gdb_stub_t
  recv,        \* the local variables of receive_packet and the bytes kept so far
  phase,       \* where the emulator's thread of control is
  rx, closed,  \* bytes on their way to the stub; end of file after them
  tx,          \* what is on its way to the debugger
  client,      \* mode, noack and the number of the packet it waits for
  sent, delivered,   \* packets sent, packets that reached a handler
  bad          \* damaged requests and replies so far

vars == <<stub, recv, phase, rx, closed, tx, client, sent, delivered, bad>>

Intr  == <<CTRLC>>
Start == [state |-> 0, index |-> 0, buf |-> <<>>, expected |-> 0, received |-> 0]
Item  == [kind : {"+", "-", "reply", "spoilt"}, to : 0 .. MaxPackets]

TypeOK ==
  /\ stub \in [connected : BOOLEAN, no_ack_mode : BOOLEAN, failures : 0 .. MaxFailures]
  /\ recv \in [state : 0 .. 2, index : 0 .. (BufSize - 1) \cup {0, 1}, buf : Seq(Byte),
               expected : Byte, received : Byte]
  /\ Len(recv.buf) < BufSize
  /\ phase \in {"process", "receive", "run", "exit"}
  /\ rx \in Seq(Byte) /\ closed \in BOOLEAN
  /\ tx \in Seq(Item)
  /\ client \in [mode : {"idle", "ack", "reply"}, noack : BOOLEAN, cur : 0 .. MaxPackets]
  /\ sent \in Seq(Payloads \cup {Intr}) /\ Len(sent) <= MaxPackets
  /\ delivered \in Seq(Seq(Byte))
  /\ bad \in [requests : 0 .. MaxBadRequests, replies : 0 .. MaxBadReplies]

(***************************************************************************)
(* Hexadecimal digits and the checksum.                                    *)
(***************************************************************************)
UpperOnly(c) == CASE c \in 48 .. 57 -> c - 48      \* mutant: no lower-case digits
                  [] c \in 65 .. 70 -> c - 55
                  [] OTHER          -> 0

hex_to_int(c) == CASE c \in 48 .. 57  -> c - 48
                   [] c \in 97 .. 102 -> c - 87
                   [] c \in 65 .. 70  -> c - 55
                   [] OTHER           -> 0

int_to_hex(v) == IF v < 10 THEN 48 + v ELSE 87 + v

calculate_checksum(data) ==
  LET sum[i \in 0 .. Len(data)] == IF i = 0 THEN 0 ELSE (sum[i - 1] + data[i]) % 256
  IN  sum[Len(data)]

\* "$%s#%02x" of send_packet.  The debugger frames its packets in the same way.
Framed(data) ==
  LET sum == calculate_checksum(data)
  IN  <<DOLLAR>> \o data \o <<HASH, int_to_hex(sum \div 16), int_to_hex(sum % 16)>>

(***************************************************************************)
(* gdb_stub_process behind receive_packet, as far as the link sees it.     *)
(***************************************************************************)
Cmd(p)     == IF p = <<>> THEN 0 ELSE p[1]   \* packet_buffer[0], the terminator if empty
Resumes(p) == Cmd(p) \in {99, 115}           \* c, s
NoAck(p)   == Cmd(p) = 81                    \* Q, which stands for QStartNoAckMode
Detach(p)  == Cmd(p) = 68                    \* D
Kill(p)    == Cmd(p) = 107                   \* k

AnswersResume(p) == ~Kill(p)                 \* mutant: a resume is confirmed at once
KnownOnly(p) == ~Resumes(p) /\ ~Kill(p) /\ p # <<>>   \* mutant: default sends nothing

\* k is not answered, and a resume is answered when its run ends.
AnswersNow(p) == ~Resumes(p) /\ ~Kill(p)

Reply(n) == [kind |-> "reply", to |-> n]

RepliesTwice(p, n) ==   \* mutant: handle_general_set falls through to "not supported"
  IF ~AnswersNow(p) THEN <<>> ELSE IF NoAck(p) THEN <<Reply(n), Reply(n)>> ELSE <<Reply(n)>>

\* The reply of a handler to the n-th packet.
Replies(p, n) == IF AnswersNow(p) THEN <<Reply(n)>> ELSE <<>>

Ack      == [kind |-> "+", to |-> 0]
Nack     == [kind |-> "-", to |-> 0]

\* main leaves its loop, and gdb_stub_close ends the connection.
Leave(s) == phase' = "exit" /\ stub' = [s EXCEPT !.connected = FALSE]

Dispatch(p, s, ack) ==
  /\ delivered' = Append(delivered, p)
  /\ tx' = tx \o ack \o Replies(p, Len(delivered) + 1)
  /\ IF Kill(p) \/ Detach(p)
       THEN Leave(s)
       ELSE /\ stub' = [s EXCEPT !.no_ack_mode = @ \/ NoAck(p)]
            /\ phase' = IF Resumes(p) THEN "run" ELSE "process"

(***************************************************************************)
(* receive_packet, one action per byte.                                    *)
(***************************************************************************)
FitsBuffer(index) == index < BufSize         \* mutant: no room for the terminator
Fits(index) == index < BufSize - 1

LowDigit(r) == r.received % 16 = r.expected % 16      \* mutant: the last digit decides
ChecksumOk(r) == r.received = r.expected

AlwaysAcks(s) == TRUE                        \* mutant: no-ack mode is ignored
Acks(s) == ~s.no_ack_mode

Failed(s) == [s EXCEPT !.failures = @ + 1]

\* The start of gdb_stub_process.
ProcessEntry ==
  /\ phase = "process"
  /\ IF ~stub.connected \/ stub.failures >= MaxFailures
       THEN Leave(stub) /\ UNCHANGED recv
       ELSE phase' = "receive" /\ recv' = Start /\ UNCHANGED stub
  /\ UNCHANGED <<rx, closed, tx, client, sent, delivered, bad>>

ReadEof ==
  /\ phase = "receive" /\ rx = <<>> /\ closed
  /\ Leave(Failed(stub))
  /\ UNCHANGED <<recv, rx, closed, tx, client, sent, delivered, bad>>

Read(c) == /\ phase = "receive" /\ rx # <<>> /\ c = Head(rx)
           /\ rx' = Tail(rx)
           /\ UNCHANGED <<closed, client, sent, bad>>

Stay == UNCHANGED <<stub, phase, tx, delivered>>

\* State 0: everything outside a packet is dropped but the interrupt byte.
WaitForDollar(c) ==
  /\ recv.state = 0 /\ c # CTRLC
  /\ recv' = IF c = DOLLAR THEN [recv EXCEPT !.state = 1, !.index = 0, !.buf = <<>>] ELSE recv
  /\ Stay

CtrlC(c) ==
  /\ recv.state = 0 /\ c = CTRLC
  /\ Dispatch(Intr, stub, <<>>)
  /\ UNCHANGED recv

\* State 1: bytes that do not fit are dropped.
ReadData(c) ==
  /\ recv.state = 1
  /\ recv' = IF c = HASH
               THEN [recv EXCEPT !.state = 2, !.index = 0,
                                 !.expected = calculate_checksum(recv.buf)]
             ELSE IF Fits(recv.index)
               THEN [recv EXCEPT !.buf = Append(@, c), !.index = @ + 1]
             ELSE recv
  /\ Stay

\* State 2, with checksum_received as it is after this digit.
Digit(c) == [recv EXCEPT !.received = (@ * 16 + hex_to_int(c)) % 256, !.index = 1]

FirstDigit(c) == recv.state = 2 /\ recv.index = 0 /\ recv' = Digit(c) /\ Stay

SecondDigit(c) ==
  /\ recv.state = 2 /\ recv.index = 1
  /\ recv' = Digit(c)
  /\ IF ChecksumOk(Digit(c))
       THEN Dispatch(recv.buf, [stub EXCEPT !.failures = 0],
                     IF Acks(stub) THEN <<Ack>> ELSE <<>>)
       ELSE /\ Leave(Failed(stub))
            /\ tx' = IF Acks(stub) THEN Append(tx, Nack) ELSE tx
            /\ UNCHANGED delivered

\* The debugger is gone and the write of the acknowledgement fails.
AckFails(c) ==
  /\ recv.state = 2 /\ recv.index = 1 /\ closed /\ Acks(stub)
  /\ recv' = Digit(c)
  /\ Leave(Failed(stub))
  /\ UNCHANGED <<tx, delivered>>

receive_packet ==
  \/ ReadEof
  \/ \E c \in Byte :
       /\ Read(c)
       /\ \/ WaitForDollar(c) \/ CtrlC(c) \/ ReadData(c)
          \/ FirstDigit(c) \/ SecondDigit(c) \/ AckFails(c)

(***************************************************************************)
(* The running target: it stops by itself, or because the poll finds the   *)
(* connection readable.  Either way the run is answered by one reply.      *)
(***************************************************************************)
StopReply ==
  /\ phase' = "process"
  /\ tx' = Append(tx, Reply(Len(delivered)))
  /\ UNCHANGED <<stub, recv, rx, closed, client, sent, delivered, bad>>

TargetStops == phase = "run" /\ StopReply
Poll == phase = "run" /\ (rx # <<>> \/ closed) /\ StopReply

(***************************************************************************)
(* The debugger.                                                           *)
(***************************************************************************)
StubVars == <<stub, recv, phase, delivered>>

SendBytes(p, bytes, c) ==
  /\ Len(sent) < MaxPackets /\ ~closed
  /\ sent' = Append(sent, p)
  /\ rx' = rx \o bytes
  /\ client' = c
  /\ UNCHANGED <<StubVars, closed, tx>>

Waiting == [client EXCEPT !.mode = IF client.noack THEN "reply" ELSE "ack",
                          !.cur = Len(sent) + 1]

ClientSend(p) ==
  /\ client.mode = "idle"
  /\ SendBytes(p, Framed(p), Waiting)
  /\ UNCHANGED bad

\* One byte is damaged on the way.  Without Reframing neither the $ nor the # is, and no
\* byte becomes a #.  With it any byte is, as long as packets are acknowledged and somebody
\* repeats what was lost; only a $ that turns into Ctrl-C, an interrupt, is left out.
ClientSendBad(p) ==
  /\ client.mode = "idle" /\ bad.requests < MaxBadRequests
  /\ LET f == Framed(p) IN
       \E i \in 1 .. Len(f), b \in Noise :
         /\ f[i] # b
         /\ \/ i > 1 /\ HASH \notin {f[i], b}
            \/ Reframing /\ ~client.noack /\ (i = 1 => b # CTRLC)
         /\ SendBytes(p, [f EXCEPT ![i] = b], Waiting)
  /\ bad' = [bad EXCEPT !.requests = @ + 1]

ClientInterrupt ==
  /\ client.mode = "reply" /\ Resumes(sent[client.cur]) /\ client.noack \in Interrupts
  /\ SendBytes(Intr, Intr, client)
  /\ UNCHANGED bad

Receive == /\ tx # <<>> /\ ~closed
           /\ tx' = Tail(tx)
           /\ UNCHANGED <<StubVars, closed, sent, bad>>

\* Waiting for +: a - is answered by the packet once more, a packet by an
\* acknowledgement and nothing else.
ClientAwaitsAck ==
  /\ client.mode = "ack" /\ Receive
  /\ client' = IF Head(tx).kind = "+" THEN [client EXCEPT !.mode = "reply"] ELSE client
  /\ rx' = CASE Head(tx).kind = "+" -> rx
             [] Head(tx).kind = "-" -> rx \o Framed(sent[client.cur])
             [] OTHER               -> Append(rx, PLUS)

\* Nothing comes back and the stub waits for more: the timer of the debugger goes off,
\* and it sends the packet again.  Only a lost start or end of a packet leads here.
ClientTimeout ==
  /\ Reframing /\ client.mode = "ack" /\ ~closed
  /\ phase = "receive" /\ rx = <<>> /\ tx = <<>>
  /\ rx' = Framed(sent[client.cur])
  /\ UNCHANGED <<StubVars, closed, tx, client, sent, bad>>

ClientTakesReply ==
  /\ client.mode = "reply" /\ tx # <<>> /\ Head(tx).kind = "reply"
  /\ Receive
  /\ client' = [client EXCEPT !.mode = "idle", !.noack = @ \/ NoAck(sent[client.cur])]
  /\ rx' = IF client.noack THEN rx ELSE Append(rx, PLUS)

ClientRejectsReply ==
  /\ client.mode = "reply" /\ tx # <<>> /\ Head(tx).kind = "spoilt"
  /\ Receive
  /\ UNCHANGED client
  /\ rx' = Append(rx, MINUS)

\* A reply is damaged on its way to a debugger that acknowledges replies.
SpoilReply ==
  /\ bad.replies < MaxBadReplies /\ ~client.noack
  /\ \E i \in DOMAIN tx : /\ tx[i].kind = "reply"
                          /\ tx' = [tx EXCEPT ![i].kind = "spoilt"]
  /\ bad' = [bad EXCEPT !.replies = @ + 1]
  /\ UNCHANGED <<StubVars, rx, closed, client, sent>>

ClientClose ==
  /\ Closes /\ ~closed /\ closed' = TRUE
  /\ UNCHANGED <<StubVars, rx, tx, client, sent, bad>>

------------------------------------------------------------------------------
\* gdb_stub_init and gdb_stub_accept.
Init ==
  /\ stub = [connected |-> TRUE, no_ack_mode |-> FALSE, failures |-> 0]
  /\ recv = Start
  /\ phase = "process"
  /\ rx = <<>> /\ closed = FALSE /\ tx = <<>>
  /\ client = [mode |-> "idle", noack |-> FALSE, cur |-> 0]
  /\ sent = <<>> /\ delivered = <<>>
  /\ bad = [requests |-> 0, replies |-> 0]

Stub == ProcessEntry \/ receive_packet \/ Poll
ClientReads == ClientAwaitsAck \/ ClientTakesReply \/ ClientRejectsReply \/ ClientTimeout

Next ==
  \/ Stub \/ TargetStops
  \/ \E p \in Payloads : ClientSend(p) \/ ClientSendBad(p)
  \/ ClientInterrupt \/ ClientReads \/ SpoilReply \/ ClientClose

Spec == Init /\ [][Next]_vars

\* The emulator blocks only in read, and the debugger reads what arrives and repeats what
\* is not answered; a target need not stop by itself.
FairSpec == Spec /\ WF_vars(Stub) /\ WF_vars(ClientReads)

------------------------------------------------------------------------------
Channel == INSTANCE PacketChannel WITH Packet <- Payloads \cup {Intr}

\* receive_packet hands exactly the sent packets to the handlers, in order and at most
\* once, although a byte may be damaged and acknowledgements and interrupt bytes lie
\* between them in the stream.  A packet that does not fit packet_buffer is cut before
\* its checksum is taken: this holds for packets that fit, or whose cut changes the sum.
ImplementsPacketChannel == Channel!Spec

Undamaged == bad.requests = 0 /\ ~closed /\ \A i \in DOMAIN sent : Len(sent[i]) < BufSize

\* A stream that was not damaged, of packets that fit the buffer with a terminator,
\* never costs a failure: framing, digits and acknowledgements fit together.
NoFailureWithoutFault == Undamaged => stub.failures = 0

\* When the debugger has stopped to expect acknowledgements the stub has stopped
\* to send them, and none is left on the way.
AckModesAgree ==
  client.noack => /\ stub.no_ack_mode \/ phase = "exit"
                  /\ \A i \in DOMAIN tx : tx[i].kind \notin {"+", "-"}

\* No run was interrupted in no-ack mode, in which nothing tells the debugger which of
\* the two stop replies to an interrupt is the one to drop.
InterruptsAcked == \A i, j \in DOMAIN sent : i < j /\ NoAck(sent[i]) => sent[j] # Intr

\* As long as no reply was damaged and no run interrupted in no-ack mode, the reply the
\* debugger takes was made for the packet it waits on: replies are never off by one.
RepliesInStep ==
  [][client.mode = "reply" /\ client'.mode = "idle" /\ bad.replies = 0 /\ InterruptsAcked
       => Head(tx).to = client.cur]_vars

\* No run before the current one was interrupted.
Calm == \A i \in DOMAIN sent : sent[i] = Intr => i > client.cur

OnlyInterrupts == \A i \in DOMAIN rx : rx[i] = CTRLC

\* The poll of continue_all_harts ends a run on any readable byte.  Up to and with the
\* first run that is interrupted, the only bytes on their way to a running target are
\* interrupts: no late acknowledgement, no remains of a packet.
RunsUndisturbed == phase = "run" /\ Calm => OnlyInterrupts

\* The debugger has detached before it sent the packet it waits on.
Detached == \E i \in DOMAIN sent : i < client.cur /\ Detach(sent[i])

\* A packet that is answered at once reaches the stub and its reply the debugger, unless
\* a byte or a reply was damaged, a packet was too long, or the debugger is gone:
\* receive_packet gives up at its first failure, and the stub never repeats a reply.
RequestAnswered ==
  client.mode # "idle" /\ ~Resumes(sent[client.cur]) /\ ~Kill(sent[client.cur])
     ~> client.mode = "idle" \/ ~Undamaged \/ bad.replies > 0 \/ Detached
==============================================================================
