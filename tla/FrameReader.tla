----------------------------- MODULE FrameReader -----------------------------
(***************************************************************************)
(* The receiving half of a PanelClient: frames off a byte stream that      *)
(* arrives in pieces, read by a recv() that its timeout or its caller may  *)
(* interrupt anywhere, with a second, bounded wait once part of a frame is *)
(* in.  A byte is the place it has in what the panel sent.                 *)
(***************************************************************************)
EXTENDS Naturals, Sequences

CONSTANTS
    Frame,       \* [size : Nat, json : BOOLEAN], what the panel may send
    FRAME_MAX,
    HEADER,      \* bytes of a frame header
    FramesMax,   \* bound: frames sent
    CancelsMax   \* bound: reads cancelled by recv's caller (the code's callers
                 \* give the connection up then, so once)

ASSUME ReaderAssumption ==
    /\ Frame \subseteq [size : Nat, json : BOOLEAN]
    /\ FRAME_MAX \in Nat \ {0} /\ HEADER \in Nat \ {0}
    /\ FramesMax \in Nat /\ CancelsMax \in Nat

VARIABLES
    sent,     \* the frames the panel has sent
    wire,     \* their bytes not read yet
    link,     \* "up", "eof", or "timedout": the stream holds a TimeoutError
    buf,      \* FrameReader._buf
    length,   \* FrameReader._length, NoLength for None
    reads,    \* recv: idle, in its first wait, in its stall wait, quiet (it
              \* raised TimeoutError), over (it raised anything else)
    got,      \* the messages recv has returned
    end,      \* ghost: why it is over
    cancels

readerVars == <<sent, wire, link, buf, length, reads, got, end, cancels>>

NoLength == 0
Byte == (1..FramesMax) \X Nat

ReaderTypeOK ==
    /\ sent \in Seq(Frame) /\ Len(sent) <= FramesMax
    /\ wire \in Seq(Byte) /\ link \in {"up", "eof", "timedout"}
    /\ buf \in Seq(Byte) /\ length \in 0..FRAME_MAX
    /\ Len(buf) < IF length = NoLength THEN HEADER ELSE length
    /\ reads \in {"idle", "first", "stall", "quiet", "over"}
    /\ got \in Seq(Frame) /\ end \in {"open", "refused", "gone"}
    /\ cancels \in 0..CancelsMax

ReaderInit ==
    /\ sent = <<>> /\ wire = <<>> /\ link = "up"
    /\ buf = <<>> /\ length = NoLength /\ reads = "idle"
    /\ got = <<>> /\ end = "open" /\ cancels = 0

------------------------------------------------------------------------------
(* Frames                                                                  *)

\* _frame_length's bounds.
Fits(n) == n \in 1..FRAME_MAX

Valid(f) == Fits(f.size) /\ f.json

Header(i) == [k \in 1..HEADER |-> <<i, k>>]
Payload(i, n) == [k \in 1..n |-> <<i, HEADER + k>>]
Bytes(i, f) == Header(i) \o Payload(i, f.size)

\* What a header reads as: the size of its frame, or, if its bytes are from
\* anywhere else, anything.
Announced(b) ==
    IF \E i \in DOMAIN sent : b = Header(i)
    THEN {sent[i].size : i \in {j \in DOMAIN sent : b = Header(j)}}
    ELSE 0..FRAME_MAX + 1

------------------------------------------------------------------------------
(* recv()                                                                  *)

InProgress == length # NoLength \/ buf # <<>>
Reading == reads \in {"first", "stall"}

Begins ==
    /\ reads \in {"idle", "quiet"}
    /\ reads' = "first"
    /\ UNCHANGED <<sent, wire, link, buf, length, got, end, cancels>>

Wanted == (IF length = NoLength THEN HEADER ELSE length) - Len(buf)

Finish(why) == reads' = "over" /\ end' = why

\* The header is in.
HeaderIn(b) ==
    /\ \E n \in Announced(b) :
         IF Fits(n) THEN length' = n /\ UNCHANGED <<reads, end>>
         ELSE Finish("refused") /\ UNCHANGED length
    /\ UNCHANGED got

\* The payload is in: a message, or InvalidMessage.
PayloadIn(b) ==
    /\ length' = NoLength
    /\ \/ \E i \in DOMAIN sent :
            /\ b = Payload(i, sent[i].size) /\ sent[i].json
            /\ got' = Append(got, sent[i])
            /\ reads' = "idle" /\ UNCHANGED end
       \/ /\ ~\E i \in DOMAIN sent : b = Payload(i, sent[i].size) /\ sent[i].json
          /\ Finish("refused") /\ UNCHANGED got

\* The stream gives n bytes of those wanted; what is read is kept in _buf.
Read(n) ==
    LET b == buf \o SubSeq(wire, 1, n) IN
    /\ Reading /\ link # "timedout"
    /\ n <= Wanted /\ n <= Len(wire)
    /\ wire' = SubSeq(wire, n + 1, Len(wire))
    /\ IF n < Wanted
       THEN buf' = b /\ UNCHANGED <<length, reads, got, end>>
       ELSE buf' = <<>> /\ IF length = NoLength THEN HeaderIn(b) ELSE PayloadIn(b)
    /\ UNCHANGED <<sent, link, cancels>>

\* The stream is at its end.
ReadEof ==
    /\ Reading /\ link = "eof" /\ wire = <<>>
    /\ Finish("gone")
    /\ UNCHANGED <<sent, wire, link, buf, length, got, cancels>>

\* (slip) What the interrupted read had is gone.
TimesOutForgetting ==
    /\ reads = "first" /\ reads' = "quiet"
    /\ buf' = <<>> /\ length' = NoLength
    /\ UNCHANGED <<sent, wire, link, got, end, cancels>>

\* recv's timeout, or the TimeoutError of a connection that timed out: nothing
\* of a frame is in, or its rest gets _FRAME_STALL.
ReadTimesOut ==
    /\ reads = "first"
    /\ reads' = IF InProgress THEN "stall" ELSE "quiet"
    /\ UNCHANGED <<sent, wire, link, buf, length, got, end, cancels>>

\* (slip) A torn frame is waited for again.
StallEndsQuietly ==
    /\ reads = "stall" /\ reads' = "quiet"
    /\ UNCHANGED <<sent, wire, link, buf, length, got, end, cancels>>

\* "a frame stopped halfway"
StallEnds ==
    /\ reads = "stall"
    /\ Finish("gone")
    /\ UNCHANGED <<sent, wire, link, buf, length, got, cancels>>

\* The caller of recv is cancelled, or has a deadline of its own.
ReadCancelled ==
    /\ Reading /\ cancels < CancelsMax
    /\ cancels' = cancels + 1
    /\ reads' = "idle"
    /\ UNCHANGED <<sent, wire, link, buf, length, got, end>>

------------------------------------------------------------------------------
(* The panel and the network (external)                                    *)

PanelSends(f) ==
    /\ link = "up" /\ end = "open" /\ Len(sent) < FramesMax
    /\ sent' = Append(sent, f)
    /\ wire' = wire \o Bytes(Len(sent'), f)
    /\ UNCHANGED <<link, buf, length, reads, got, end, cancels>>

\* The connection ends, with any part of the bytes never arriving.
LinkEnds ==
    /\ link = "up" /\ link' \in {"eof", "timedout"}
    /\ \E n \in 0..Len(wire) : wire' = SubSeq(wire, 1, n)
    /\ UNCHANGED <<sent, buf, length, reads, got, end, cancels>>

ReaderNext ==
    \/ Begins \/ ReadEof \/ ReadTimesOut \/ StallEnds \/ ReadCancelled
    \/ \E n \in 1..Len(wire) : Read(n)
    \/ LinkEnds \/ \E f \in Frame : PanelSends(f)

ReaderSpec == ReaderInit /\ [][ReaderNext]_readerVars

\* recv's timeouts, and a caller that reads on (_async_listen).  Nothing is
\* assumed of the panel's bytes.
ReaderFairness == WF_readerVars(Begins) /\ WF_readerVars(ReadTimesOut) /\ WF_readerVars(StallEnds)

FairReaderSpec == ReaderSpec /\ ReaderFairness

------------------------------------------------------------------------------
(* Properties                                                              *)

\* However the bytes arrive and wherever reads are interrupted, the caller
\* gets the panel's messages, in order, and a refusal only of what is none
\* (HA10: the next message is never read at the wrong boundary).
Channel == INSTANCE MessageChannel
IsChannel == Channel!Spec

\* A frame that has begun is finished, or the link is given up: it is never
\* taken for silence for long (HA10).
TornFrameEnds == InProgress ~> ~InProgress \/ reads = "over"

\* "TimeoutError means only that nothing arrived: a quiet link".
TimeoutMeansQuiet ==
    [][reads # "quiet" /\ reads' = "quiet" => link # "timedout"]_readerVars
==============================================================================
