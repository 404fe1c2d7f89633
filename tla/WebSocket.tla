------------------------------ MODULE WebSocket ------------------------------
(***************************************************************************)
(* The WebSocket frames of lamb/http/ws_session.cc between a WSConnection   *)
(* (the client, which masks) and a WSSession (the server).  A frame is      *)
(* written field by field, and read field by field: head, length, mask,     *)
(* data; each write or read may give way to the other end or fail.  The     *)
(* stream carries the fields; data is a message part, plain or masked.      *)
(***************************************************************************)
EXTENDS Integers, Sequences, Functions

CONSTANTS
    Sizes,       \* lengths of message parts
    Limit16,     \* 126: from this size on the length is a 16-bit field
    Limit64,     \* 65536: from this size on it needs 64 bits
    MaxMessage,  \* websocket.message.max_size
    ClientFrames, ServerFrames,   \* bounds: frames an end sends
    ClientPings, ServerPings,     \* bounds: pings an end sends
    Concurrent   \* another fiber sends while one receives

ASSUME WebSocketAssumption ==
    /\ Sizes \subseteq Nat /\ MaxMessage \in Nat
    /\ Limit16 \in 1..126 /\ Limit64 \in Nat /\ Limit16 < Limit64
    /\ Concurrent \in BOOLEAN

Ends == {"client", "server"}
Peer(e) == IF e = "client" THEN "server" ELSE "client"
Opcodes == {"CONTINUE", "TEXT_FRAME", "CLOSE"}      \* BIN_FRAME is treated as TEXT_FRAME

MaxFrames(e) == IF e = "client" THEN ClientFrames ELSE ServerFrames
MaxPings(e) == IF e = "client" THEN ClientPings ELSE ServerPings

VARIABLES
    wire,       \* fields on their way to an end
    open,       \* the end's stream is connected
    tx,         \* fields the end's sending call has still to write
    rx,         \* what the end's recvMessage() reads or writes next,
                \* "idle" outside of it
    head,       \* locals of recvMessage(): the frame's head
    parts,      \* ... and the parts read so far, with the opcode
    opcode,
    sent,       \* the frames sendMessage() was called for
    received,   \* the messages recvMessage() returned
    pings       \* calls of ping()

stream == <<wire, open>>
calls == <<tx, rx, head, parts, opcode>>
vars == <<stream, calls, sent, received, pings>>

NoHead == [op |-> "CONTINUE", fin |-> FALSE, payload |-> 0, mask |-> FALSE]

Init ==
    /\ wire = [e \in Ends |-> <<>>]
    /\ open = [e \in Ends |-> TRUE]
    /\ tx = [e \in Ends |-> <<>>]
    /\ rx = [e \in Ends |-> "idle"]
    /\ head = [e \in Ends |-> NoHead]
    /\ parts = [e \in Ends |-> <<>>]
    /\ opcode = [e \in Ends |-> "CONTINUE"]
    /\ sent = [e \in Ends |-> <<>>]
    /\ received = [e \in Ends |-> <<>>]
    /\ pings = [e \in Ends |-> 0]

Field(f, v) == [field |-> f, value |-> v]

(***************************************************************************)
(* WSSendMessage()                                                         *)
(***************************************************************************)
\* The seven bits of the head: 126 and 127 announce a length field.
Payload(size) == IF size < Limit16 THEN size ELSE IF size < Limit64 THEN 126 ELSE 127

Data(e, size) == Field("data", [size |-> size, masked |-> e = "client"])

\* A 64-bit length is written as an uninitialized uint16_t.
LengthField(size) ==
    IF Payload(size) = 126 THEN <<Field("len16", size)>>
    ELSE IF Payload(size) = 127 THEN <<Field("len16", 0)>>
    ELSE <<>>

Frame(e, op, size, fin) ==
    <<Field("head", [op |-> op, fin |-> fin, payload |-> Payload(size), mask |-> e = "client"])>>
      \o LengthField(size)
      \o (IF e = "client" THEN <<Field("mask", 0)>> ELSE <<>>)
      \o <<Data(e, size)>>

Call(e) == open[e] /\ tx[e] = <<>> /\ (rx[e] = "idle" \/ Concurrent)

SendMessage(e) ==
    /\ Call(e)
    /\ Len(sent[e]) < MaxFrames(e)
    /\ \E op \in Opcodes, size \in Sizes, fin \in BOOLEAN :
          /\ op = "CLOSE" => fin /\ size > 0
          /\ tx' = [tx EXCEPT ![e] = Frame(e, op, size, fin)]
          /\ sent' = [sent EXCEPT ![e] = Append(@, [op |-> op, size |-> size, fin |-> fin])]
    /\ UNCHANGED <<stream, rx, head, parts, opcode, received, pings>>

Control(op) == Field("head", [op |-> op, fin |-> TRUE, payload |-> 0, mask |-> FALSE])

\* WSPing(): only a head.
Ping(e) ==
    /\ Call(e)
    /\ pings[e] < MaxPings(e)
    /\ tx' = [tx EXCEPT ![e] = <<Control("PING")>>]
    /\ pings' = [pings EXCEPT ![e] = @ + 1]
    /\ UNCHANGED <<stream, rx, head, parts, opcode, sent, received>>

\* What is written to an end that has closed its stream is lost.
Deliver(e, field) ==
    wire' = IF open[Peer(e)] THEN [wire EXCEPT ![Peer(e)] = Append(@, field)] ELSE wire

\* writeFixSize() of an empty part returns 0, which counts as a failure.
Writable(field) == field.field = "data" => field.value.size > 0

WriteField(e) ==
    /\ tx[e] # <<>> /\ open[e]
    /\ Writable(tx[e][1])
    /\ Deliver(e, tx[e][1])
    /\ tx' = [tx EXCEPT ![e] = Tail(@)]
    /\ UNCHANGED <<open, rx, head, parts, opcode, sent, received, pings>>

\* The stream stays open.
WriteFails_StaysOpen(e) ==
    /\ tx[e] # <<>>
    /\ ~Writable(tx[e][1]) \/ ~open[Peer(e)] \/ ~open[e]
    /\ tx' = [tx EXCEPT ![e] = <<>>]
    /\ UNCHANGED <<open, wire, rx, head, parts, opcode, sent, received, pings>>

\* A failed write closes the stream; TCP fails only when the other end is gone.
WriteFails(e) ==
    /\ tx[e] # <<>>
    /\ ~Writable(tx[e][1]) \/ ~open[Peer(e)] \/ ~open[e]
    /\ tx' = [tx EXCEPT ![e] = <<>>]
    /\ open' = [open EXCEPT ![e] = FALSE]
    /\ UNCHANGED <<wire, rx, head, parts, opcode, sent, received, pings>>

(***************************************************************************)
(* WSRecvMessage()                                                         *)
(***************************************************************************)
Receive(e) ==
    /\ open[e] /\ rx[e] = "idle" /\ (tx[e] = <<>> \/ Concurrent)
    /\ rx' = [rx EXCEPT ![e] = "head"]
    /\ parts' = [parts EXCEPT ![e] = <<>>]
    /\ opcode' = [opcode EXCEPT ![e] = "CONTINUE"]
    /\ UNCHANGED <<stream, tx, head, sent, received, pings>>

\* readFixSize() of a field.  That the field at the front is the one that is
\* expected is FramesInStep; without it the bytes of one are taken for another.
Take(e, at, field) ==
    /\ rx[e] = at /\ open[e]
    /\ wire[e] # <<>> /\ Head(wire[e]).field = field
    /\ wire' = [wire EXCEPT ![e] = Tail(@)]

\* The field recvMessage() waits for.
Expected == [head |-> "head", len16 |-> "len16", len64 |-> "len64", mask |-> "mask", data |-> "data"]

Leave(e) == open' = [open EXCEPT ![e] = FALSE] /\ rx' = [rx EXCEPT ![e] = "idle"]

Total(ps) == SumFunction([i \in DOMAIN ps |-> ps[i].size])

\* Where reading goes once the length is known.
AfterLength(h) == IF h.mask THEN "mask" ELSE "data"

TooLong(e, length) == Total(parts[e]) + length >= MaxMessage

ReadHead(e) ==
    LET h == Head(wire[e]).value
    IN  /\ Take(e, "head", "head")
        /\ head' = [head EXCEPT ![e] = h]
        /\ \/ /\ h.op = "PING"
              /\ rx' = [rx EXCEPT ![e] = "pong"] /\ UNCHANGED open
           \/ /\ h.op = "PONG"
              /\ UNCHANGED <<rx, open>>
           \/ /\ h.op = "CLOSE" \/ (e = "server" /\ ~h.mask /\ h.op \notin {"PING", "PONG"})
              /\ Leave(e)
           \/ /\ h.op \in {"CONTINUE", "TEXT_FRAME"} /\ (e = "server" => h.mask)
              /\ \/ /\ h.payload \in {126, 127}
                    /\ rx' = [rx EXCEPT ![e] = IF h.payload = 126 THEN "len16" ELSE "len64"]
                    /\ UNCHANGED open
                 \/ /\ h.payload \notin {126, 127} /\ ~TooLong(e, h.payload)
                    /\ rx' = [rx EXCEPT ![e] = AfterLength(h)]
                    /\ UNCHANGED open
                 \/ /\ h.payload \notin {126, 127} /\ TooLong(e, h.payload)
                    /\ Leave(e)
        /\ UNCHANGED <<tx, parts, opcode, sent, received, pings>>

ReadLength(e) ==
    /\ Take(e, "len16", "len16")
    /\ \/ /\ TooLong(e, Head(wire[e]).value) /\ Leave(e)
       \/ /\ ~TooLong(e, Head(wire[e]).value)
          /\ rx' = [rx EXCEPT ![e] = AfterLength(head[e])]
          /\ UNCHANGED open
    /\ UNCHANGED <<tx, head, parts, opcode, sent, received, pings>>

ReadMask(e) ==
    /\ Take(e, "mask", "mask")
    /\ rx' = [rx EXCEPT ![e] = "data"]
    /\ UNCHANGED <<open, tx, head, parts, opcode, sent, received, pings>>

\* The first opcode that is not CONTINUE counts.
OpcodeAfter(e) == IF opcode[e] = "CONTINUE" THEN head[e].op ELSE opcode[e]

\* The part is unmasked; with fin the message is complete.
ReadData(e) ==
    LET d == Head(wire[e]).value
        part == [d EXCEPT !.masked = @ # head[e].mask]
        all == Append(parts[e], part)
    IN  /\ Take(e, "data", "data")
        /\ parts' = [parts EXCEPT ![e] = all]
        /\ opcode' = [opcode EXCEPT ![e] = OpcodeAfter(e)]
        /\ rx' = [rx EXCEPT ![e] = IF head[e].fin THEN "idle" ELSE "head"]
        /\ received' = IF head[e].fin
                       THEN [received EXCEPT ![e] = Append(@, [op |-> OpcodeAfter(e), parts |-> all])]
                       ELSE received
        /\ UNCHANGED <<open, tx, head, sent, pings>>

\* A pong starts a new message.
Pong_Resets(e) ==
    /\ rx[e] = "pong" /\ open[e]
    /\ Deliver(e, Control("PONG"))
    /\ rx' = [rx EXCEPT ![e] = "head"]
    /\ parts' = [parts EXCEPT ![e] = <<>>]
    /\ UNCHANGED <<open, tx, head, opcode, sent, received, pings>>

\* WSPong(), inside recvMessage().
Pong(e) ==
    /\ rx[e] = "pong" /\ open[e]
    /\ Deliver(e, Control("PONG"))
    /\ rx' = [rx EXCEPT ![e] = "head"]
    /\ UNCHANGED <<open, tx, head, parts, opcode, sent, received, pings>>

\* A read fails: the other end has closed and everything is read, or the
\* receive timeout expired, or this stream was closed by a failed write.
ReadFails(e) ==
    /\ rx[e] # "idle"
    /\ wire[e] = <<>> \/ ~open[e]
    /\ Leave(e)
    /\ UNCHANGED <<wire, tx, head, parts, opcode, sent, received, pings>>

EndStep(e) ==
    \/ SendMessage(e) \/ Ping(e) \/ WriteField(e) \/ WriteFails(e)
    \/ Receive(e) \/ ReadHead(e) \/ ReadLength(e) \/ ReadMask(e) \/ ReadData(e)
    \/ Pong(e) \/ ReadFails(e)

Next == \E e \in Ends : EndStep(e)

Spec == Init /\ [][Next]_vars
-----------------------------------------------------------------------------
\* What a reader has of the first n frames: the messages that are done, and the opcode
\* and the parts of the one that is not.  A message is parts up to one with fin, under
\* the first opcode that is not CONTINUE.
NothingRead == [done |-> <<>>, op |-> "CONTINUE", parts |-> <<>>]
WithFrame(acc, f) ==
    LET op == IF acc.op = "CONTINUE" THEN f.op ELSE acc.op
        ps == Append(acc.parts, [size |-> f.size, masked |-> FALSE])
    IN  IF f.fin
        THEN [done |-> Append(acc.done, [op |-> op, parts |-> ps]), op |-> "CONTINUE", parts |-> <<>>]
        ELSE [done |-> acc.done, op |-> op, parts |-> ps]
Reading(frames) ==
    LET upto[n \in 0..Len(frames)] ==
          IF n = 0 THEN NothingRead ELSE WithFrame(upto[n - 1], frames[n])
    IN  upto

\* The messages that a sequence of frames stands for.
Messages(frames) == Reading(frames)[Len(frames)].done

\* The reader never takes one field of a frame for another: what the sender
\* writes for a part of any length is what the reader expects
\* (ws_session.cc:127-167 against 206-246).
FramesInStep ==
    \A e \in Ends :
        rx[e] \in DOMAIN Expected /\ wire[e] # <<>> => Head(wire[e]).field = Expected[rx[e]]

\* recvMessage() returns the messages of the other end, in order, complete,
\* unmasked and under their own opcode, also with pings between their parts
\* (ws_session.cc:103-196).
MessagesIntact ==
    \A e \in Ends :
        LET whole == Messages(sent[Peer(e)])
        IN  /\ Len(received[e]) <= Len(whole)
            /\ \A i \in 1..Len(received[e]) : received[e][i] = whole[i]
=============================================================================
