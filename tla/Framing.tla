------------------------------ MODULE Framing ------------------------------
(***************************************************************************)
(* Messages of one server to another over a socket: NetMsg of              *)
(* src/net/net_msg.rs, the buffers of src/net/socket_event.rs and          *)
(* send_netmsg, write_to_socket, get_next_message and                      *)
(* try_dispatch_message of src/mgr/mio_event_mgr.rs.                       *)
(*                                                                         *)
(* A message is a head, which tells the length of it all, and a body; the  *)
(* socket carries bytes.  A byte is known by the message it is of and its  *)
(* place there, and the bytes of a message tell its length.  The socket    *)
(* takes as many bytes as it has room for, and gives them in pieces of any *)
(* size; what it did not take stays in out_buffer until the next message   *)
(* is sent, for nothing waits for the socket to have room again.           *)
(***************************************************************************)
EXTENDS Integers, FiniteSets, SequencesExt

CONSTANTS
    MinLen,     \* bytes of a head: 26 in the code
    ReadData,   \* the most bytes a message is received with: 65536 in the code
    TooBig,     \* bytes that are too many for one read: 655360 in the code
    MaxPack,    \* the longest message that is made: 0xFFFFFF in the code
    Lengths,    \* of the messages that are sent
    Room,       \* bytes the socket holds
    MaxMessages \* bound: the messages that are sent

ASSUME FramingAssumption ==
    /\ MinLen \in Nat \ {0} /\ ReadData \in Nat /\ MinLen <= ReadData
    /\ TooBig \in Nat /\ MaxPack \in Nat /\ Room \in Nat /\ MaxMessages \in Nat
    /\ Lengths \subseteq {l \in Nat : l >= MinLen}

VARIABLES
    sent,       \* history: the messages given to write_to_socket
    out_buffer, \* of the sender
    wire,       \* what the socket holds
    in_buffer,  \* of the receiver
    received,   \* messages given to apply_message
    ended,      \* one end was closed by its script
    sender,     \* whether the connection is in connect_ids of the sender
    receiver    \* and of the receiver

vars == <<sent, out_buffer, wire, in_buffer, received, ended, sender, receiver>>

Messages == 1..MaxMessages
Byte(m, len, k) == [of |-> m, len |-> len, at |-> k]

\* end_msg writes the length of it all into the head.
Bytes(m, len) == [k \in 1..len |-> Byte(m, len, k)]
IsByte(b) == b.of \in Messages /\ b.len \in Lengths /\ b.at \in 1..b.len

TypeOK ==
    /\ sent \in Seq(Lengths) /\ Len(sent) <= MaxMessages
    /\ \A s \in {out_buffer, wire, in_buffer} : \A k \in DOMAIN s : IsByte(s[k])
    /\ Len(wire) <= Room
    /\ received \in Seq(Messages)
    /\ ended \in BOOLEAN /\ sender \in BOOLEAN /\ receiver \in BOOLEAN

Init ==
    /\ sent = <<>> /\ received = <<>>
    /\ out_buffer = <<>> /\ wire = <<>> /\ in_buffer = <<>>
    /\ ended = FALSE /\ sender = TRUE /\ receiver = TRUE

-----------------------------------------------------------------------------
(***************************************************************************)
(* The sender.                                                             *)
(***************************************************************************)

SmallerOf(a, b) == IF a <= b THEN a ELSE b

\* Slip: one byte more than was written leaves the buffer.
WrittenAndOne(buffer, size) == SubSeq(buffer, size + 2, Len(buffer))

\* read_offset: what was written leaves the buffer.
Written(buffer, size) == SubSeq(buffer, size + 1, Len(buffer))

\* The socket takes less than everything, or nothing (WouldBlock), when it has
\* no room; nobody waits until it has.
WriteToSocket(bytes) ==
    LET buffer == out_buffer \o bytes
        size == IF receiver THEN SmallerOf(Len(buffer), Room - Len(wire)) ELSE 0
    IN  /\ wire' = wire \o SubSeq(buffer, 1, size)
        /\ out_buffer' = Written(buffer, size)

\* pack_protocol, pack_message: some messages are not made at all.
PackMessage(len) == len <= MaxPack

\* send_netmsg: of a message that end_msg has closed, and with read_head reads
\* back what it has written.
SendNetmsg(len) ==
    /\ sender
    /\ Len(sent) < MaxMessages
    /\ PackMessage(len)
    /\ sent' = Append(sent, len)
    /\ WriteToSocket(Bytes(Len(sent'), len))
    /\ UNCHANGED <<in_buffer, received, ended, sender, receiver>>

\* close_fd by its script, or the end of the receiver.  out_buffer goes too.
CloseSender ==
    /\ sender
    /\ sender' = FALSE
    /\ ended' = (ended \/ receiver)
    /\ out_buffer' = <<>>
    /\ UNCHANGED <<sent, wire, in_buffer, received, receiver>>

-----------------------------------------------------------------------------
(***************************************************************************)
(* The receiver.                                                           *)
(***************************************************************************)

\* Slip: the head is enough.
NextLengthOfHead(buffer) ==
    IF Len(buffer) < MinLen THEN 0
    ELSE SmallerOf(Len(buffer), SmallerOf(buffer[1].len, ReadData))

\* get_next_message: the length of what is taken from the buffer, 0 for none.
NextLength(buffer) ==
    IF Len(buffer) < MinLen THEN 0
    ELSE LET length == SmallerOf(buffer[1].len, ReadData)
         IN  IF Len(buffer) < length THEN 0 ELSE length

\* new_by_data: the data must be as long as it says (bytes that do not begin a
\* message say nothing of use).  It must hold a name too, which is so of what a
\* server makes.
NewByData(data) == data[1].at = 1 /\ Len(data) >= MinLen /\ Len(data) = data[1].len

Dispatched(messages, taken, ok) == [messages |-> messages, taken |-> taken, ok |-> ok]

\* Slip: one message of what has been read.
DispatchOne(buffer) ==
    LET length == NextLength(buffer)
        data == SubSeq(buffer, 1, length)
    IN  IF length = 0 THEN Dispatched(<<>>, 0, TRUE)
        ELSE IF ~ NewByData(data) THEN Dispatched(<<>>, length, FALSE)
        ELSE Dispatched(<<data[1].of>>, length, TRUE)

\* A turn of the loop of try_dispatch_message, when p bytes of the buffer are taken.
DispatchAt(buffer, dispatch, p) ==
    LET rest == SubSeq(buffer, p + 1, Len(buffer))
        length == NextLength(rest)
        data == SubSeq(rest, 1, length)
        after == dispatch[p + length]
    IN  IF length = 0 THEN Dispatched(<<>>, p, TRUE)
        ELSE IF ~ NewByData(data) THEN Dispatched(<<>>, p + length, FALSE)
        ELSE Dispatched(<<data[1].of>> \o after.messages, after.taken, after.ok)

\* try_dispatch_message: all messages of the buffer, up to one that is wrong.
Dispatch(buffer) ==
    LET dispatch[p \in 0..Len(buffer)] == DispatchAt(buffer, dispatch, p) IN dispatch[0]

\* The connection leaves connect_ids; the socket and its bytes go.
Drop ==
    /\ receiver' = FALSE
    /\ in_buffer' = <<>> /\ wire' = <<>>

\* read_data until there is no more, then the callback, which may kick.
Read ==
    /\ receiver
    /\ \E n \in 1..SmallerOf(Len(wire), TooBig) :
          LET buffer == in_buffer \o SubSeq(wire, 1, n)
              done == Dispatch(buffer)
          IN  /\ received' = received \o done.messages
              /\ IF done.ok
                 THEN /\ in_buffer' = SubSeq(buffer, done.taken + 1, Len(buffer))
                      /\ wire' = SubSeq(wire, n + 1, Len(wire))
                      /\ UNCHANGED receiver
                 ELSE Drop
    /\ UNCHANGED <<sent, out_buffer, ended, sender>>

\* The end of the stream, read after what was left of it, or too much at once:
\* the callback is not called, and what has been read is lost.
ReadEnd ==
    /\ receiver
    /\ ~ sender \/ Len(wire) > TooBig
    /\ Drop
    /\ UNCHANGED <<sent, out_buffer, received, ended, sender>>

\* close_fd by the script of the receiver.
CloseReceiver ==
    /\ receiver
    /\ ended' = TRUE
    /\ Drop
    /\ UNCHANGED <<sent, out_buffer, received, sender>>

-----------------------------------------------------------------------------

Next ==
    \/ \E len \in Lengths : SendNetmsg(len)
    \/ CloseSender \/ Read \/ ReadEnd \/ CloseReceiver

\* The poll thread of the receiver runs.
Fairness == WF_vars(Read) /\ WF_vars(ReadEnd)

Spec == Init /\ [][Next]_vars /\ Fairness

-----------------------------------------------------------------------------
(***************************************************************************)
(* Properties.                                                             *)
(***************************************************************************)

\* The byte after b, of the messages that were sent.
NextByte(b) == IF b.at < b.len THEN Byte(b.of, b.len, b.at + 1)
                               ELSE Byte(b.of + 1, sent[b.of + 1], 1)
LastByte(m) == Byte(m, sent[m], sent[m])

\* Bytes that follow on each other from the first of message m.
Stream(bytes, m) ==
    /\ bytes # <<>> => m <= Len(sent) /\ bytes[1] = Byte(m, sent[m], 1)
    /\ \A k \in 1..(Len(bytes) - 1) : bytes[k + 1] = NextByte(bytes[k])

\* However the bytes are cut up on their way, nothing is lost, doubled or put
\* in another order: what is under way is the bytes of the messages that have
\* not been received, from the first to the last.
BytesUnderWay ==
    receiver /\ sender =>
        LET bytes == in_buffer \o wire \o out_buffer IN
        /\ Stream(bytes, Len(received) + 1)
        /\ Len(received) < Len(sent) => bytes # <<>> /\ Last(bytes) = LastByte(Len(sent))

BytesInv == TypeOK /\ BytesUnderWay

\* Messages arrive whole, once and in order.
FitsReadData(m) == m[2] <= ReadData
Pipe == INSTANCE Channel WITH
            Message <- Messages \X Lengths, Fits <- FitsReadData,
            Window <- TooBig \div ReadData,
            sent <- [k \in DOMAIN sent |-> <<k, sent[k]>>],
            received <- [k \in DOMAIN received |-> <<received[k], sent[received[k]]>>],
            open <- receiver
InOrder == Pipe!Spec

\* A message that the socket has taken to the last byte is received, or the
\* connection ends.
TakenIsReceived ==
    \A m \in Messages :
        (m <= Len(sent) /\ \A k \in DOMAIN out_buffer : out_buffer[k].of # m)
            ~> (m \in ToSet(received) \/ ~ receiver)
=============================================================================
