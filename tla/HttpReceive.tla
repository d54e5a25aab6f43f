---------------------------- MODULE HttpReceive -----------------------------
(***************************************************************************)
(* How HttpSession::recvRequest() and HttpConnection::recvResponse() cut   *)
(* the messages out of the bytes of a connection: a header, then a body    *)
(* whose length the header tells, or that comes in chunks (responses).     *)
(* Bytes are their places in the stream, 1, 2, ...; the buffer holds those *)
(* after `used` up to `read`.  The parser takes every byte it is given and *)
(* keeps nothing of a token that goes on in the next read: a header field  *)
(* or a chunk size cut in two is misread.  From there on nothing is said;  *)
(* the receiver is in state "torn".                                        *)
(* Names have the prefix Http: the module is checked beside others.        *)
(***************************************************************************)
EXTENDS Integers, Sequences

CONSTANTS Messages,   \* sequences of messages a peer may send
          HeadSize,   \* bytes of a header ...
          FieldAt,    \* ... of which the framing field takes this one and the next
          SizeBytes,  \* bytes of a chunk's size line
          BuffSize,   \* the receive buffer
          Pipelined   \* the peer sends a message before the last one is answered

Crlf == 2

\* A body of known length is one piece; chunks end with an empty one.
HttpMessage == [chunked : BOOLEAN, sizes : Seq(Nat)]
Framed(m) ==
    /\ m \in HttpMessage /\ m.sizes # <<>>
    /\ IF m.chunked THEN \A i \in 1 .. Len(m.sizes) : m.sizes[i] = 0 <=> i = Len(m.sizes)
       ELSE Len(m.sizes) = 1

ASSUME HttpAssumption ==
    /\ \A ms \in Messages :
           ms \in Seq(HttpMessage) /\ ms # <<>> /\ \A k \in 1 .. Len(ms) : Framed(ms[k])
    /\ HeadSize \in Nat \ {0} /\ FieldAt \in 1 .. HeadSize - 1 /\ SizeBytes \in Nat \ {0}
    /\ BuffSize \in Nat /\ BuffSize > HeadSize /\ BuffSize > SizeBytes /\ Pipelined \in BOOLEAN

VARIABLES messages,  \* what the peer sends: [chunked, sizes], each message's pieces
          current,   \* the number of the message that is received
          arrived,   \* bytes that have reached the socket
          read, used,\* bytes read from it, and bytes taken from the buffer
          hpc,       \* where the receiver is
          need,      \* bytes still to be read of a body or of a chunk with its CRLF
          part,      \* which chunk it is at
          body       \* the places of the bytes received as the body

httpVars == <<messages, current, arrived, read, used, hpc, need, part, body>>

-----------------------------------------------------------------------------
(* The stream                                                              *)

\* A plain body is one piece; a chunk has its size line and CRLF around it.
PieceLength(m, i) == m.sizes[i] + (IF m.chunked THEN SizeBytes + Crlf ELSE 0)
\* Bytes of m before its piece i, and of ms before its message k.
Before(m, i) ==
    LET bytes[j \in 1 .. Len(m.sizes) + 1] ==
            IF j = 1 THEN HeadSize ELSE bytes[j - 1] + PieceLength(m, j - 1)
    IN  bytes[i]
LengthOf(m) == Before(m, Len(m.sizes) + 1)
StartOf(ms, k) ==
    LET bytes[j \in 1 .. Len(ms) + 1] ==
            IF j = 1 THEN 0 ELSE bytes[j - 1] + LengthOf(ms[j - 1])
    IN  bytes[k]

Message == messages[current]
MessageStart == StartOf(messages, current)

Span(from, to) == [j \in 1 .. to - from |-> from + j]
\* The body of a message that begins after `start`, up to its piece i, without
\* what is around the pieces.
Piece(m, start, i) ==
    LET at == start + Before(m, i) + (IF m.chunked THEN SizeBytes ELSE 0)
    IN  Span(at, at + m.sizes[i])
Pieces(m, start, i) ==
    LET places[j \in 0 .. Len(m.sizes)] ==
            IF j = 0 THEN <<>> ELSE places[j - 1] \o Piece(m, start, j)
    IN  places[i]

Buffered == read - used

HttpTypeOK ==
    /\ messages \in Messages /\ current \in 1 .. Len(messages)
    /\ hpc \in {"head", "plain", "size", "chunk", "done", "closed", "torn"}
    /\ arrived \in Nat /\ read \in 0 .. arrived /\ used \in 0 .. read
    /\ need \in Nat /\ part \in Nat /\ body \in Seq(Nat)

HttpInit ==
    /\ messages \in Messages /\ current = 1
    /\ arrived = 0 /\ read = 0 /\ used = 0
    /\ hpc = "head" /\ need = 0 /\ part = 1 /\ body = <<>>

\* Bytes arrive: of the message that is awaited, or of more than that.
Arrives ==
    /\ arrived < StartOf(messages, IF Pipelined THEN Len(messages) + 1 ELSE current + 1)
    /\ arrived' = arrived + 1
    /\ UNCHANGED <<messages, current, read, used, hpc, need, part, body>>

\* The peer closes, or a timeout passes: the session or connection is closed.
ReadFails ==
    /\ hpc \in {"head", "plain", "size", "chunk"} /\ arrived = read
    /\ hpc' = "closed"
    /\ UNCHANGED <<messages, current, arrived, read, used, need, part, body>>

\* read() returns between one byte and what it is asked for.
Take(n, most) == n \in 1 .. most /\ n <= arrived - read /\ read' = read + n

-----------------------------------------------------------------------------
(* The receiver                                                            *)

\* The header: all that is read is parsed, until the header ends.
ReadHead(n) ==
    LET end == MessageStart + HeadSize  field == MessageStart + FieldAt IN
    /\ hpc = "head" /\ Take(n, BuffSize)
    /\ \/ read = field /\ hpc' = "torn" /\ used' = read'
       \/ read # field /\ read' < end /\ hpc' = "head" /\ used' = read'
       \/ read # field /\ read' >= end /\ used' = end
          /\ hpc' = IF Message.chunked THEN "size" ELSE "plain"
    /\ need' = IF Message.chunked THEN 0 ELSE Message.sizes[1]
    /\ part' = 1 /\ body' = <<>>
    /\ UNCHANGED <<messages, current, arrived>>

Complete(b) == body' = b /\ hpc' = "done"

\* A body of known length: what the buffer has of it, and readFixSize() the rest.
PlainBuffered ==
    /\ hpc = "plain" /\ body = <<>> /\ Buffered > 0
    /\ LET n == IF need >= Buffered THEN Buffered ELSE need IN
        /\ need' = need - n
        /\ body' = Span(used, used + n)
        /\ hpc' = IF need = n THEN "done" ELSE "plain"
    /\ used' = read
    /\ UNCHANGED <<messages, current, arrived, read, part>>

PlainEmpty ==
    /\ hpc = "plain" /\ Buffered = 0 /\ need = 0
    /\ Complete(body)
    /\ UNCHANGED <<messages, current, arrived, read, used, need, part>>

ReadFixSize(n) ==
    /\ hpc = "plain" /\ Buffered = 0 /\ Take(n, need)
    /\ used' = read' /\ need' = need - n
    /\ body' = body \o Span(read, read')
    /\ hpc' = IF need = n THEN "done" ELSE "plain"
    /\ UNCHANGED <<messages, current, arrived, part>>

\* A chunk's size line: the buffer is read into when it is empty or holds a part
\* of the line only; that part has been parsed and is lost.
ReadSizeLine(n) ==
    /\ hpc = "size" /\ Buffered = 0 /\ Take(n, BuffSize)
    /\ UNCHANGED <<messages, current, arrived, used, hpc, need, part, body>>

ParseSizeLine ==
    LET size == Message.sizes[part] IN
    /\ hpc = "size" /\ Buffered > 0
    /\ IF Buffered < SizeBytes
       THEN hpc' = "torn" /\ UNCHANGED <<used, need, part, body>>
       ELSE LET at == used + SizeBytes  len == Buffered - SizeBytes IN
            IF size + Crlf <= len
            THEN /\ body' = body \o Span(at, at + size)
                 /\ used' = at + size + Crlf
                 /\ hpc' = IF size = 0 THEN "done" ELSE "size"
                 /\ part' = part + 1
                 /\ UNCHANGED need
            ELSE /\ body' = body \o Span(at, read)
                 /\ used' = read
                 /\ need' = size + Crlf - len
                 /\ hpc' = "chunk"
                 /\ UNCHANGED part
    /\ UNCHANGED <<messages, current, arrived, read>>

\* Mutant of ReadChunk: the CRLF stays in the body.
ReadChunkKeepsCrlf(n) ==
    /\ hpc = "chunk" /\ Take(n, IF need > BuffSize THEN BuffSize ELSE need)
    /\ used' = read' /\ need' = need - n
    /\ body' = body \o Span(read, read')
    /\ \/ need > n /\ hpc' = "chunk" /\ UNCHANGED part
       \/ need = n /\ hpc' = (IF Message.sizes[part] = 0 THEN "done" ELSE "size") /\ part' = part + 1
    /\ UNCHANGED <<messages, current, arrived>>

\* The rest of a chunk and its CRLF, which is cut off in the end.
ReadChunk(n) ==
    /\ hpc = "chunk" /\ Take(n, IF need > BuffSize THEN BuffSize ELSE need)
    /\ used' = read' /\ need' = need - n
    /\ LET more == body \o Span(read, read') IN
        body' = IF need = n THEN SubSeq(more, 1, Len(more) - Crlf) ELSE more
    /\ \/ need > n /\ hpc' = "chunk" /\ UNCHANGED part
       \/ need = n /\ hpc' = (IF Message.sizes[part] = 0 THEN "done" ELSE "size") /\ part' = part + 1
    /\ UNCHANGED <<messages, current, arrived>>

\* The message is handled or answered and the next one received, with a parser
\* and a buffer of its own: HttpServer::handleClient(), or the pool's next user.
ReceiveNext ==
    /\ hpc = "done" /\ current < Len(messages)
    /\ current' = current + 1
    /\ hpc' = "head" /\ used' = read /\ need' = 0 /\ part' = 1 /\ body' = <<>>
    /\ UNCHANGED <<messages, arrived, read>>

HttpNext ==
    \/ Arrives \/ ReadFails \/ PlainBuffered \/ PlainEmpty \/ ParseSizeLine \/ ReceiveNext
    \/ \E n \in 1 .. arrived - read : ReadHead(n) \/ ReadFixSize(n) \/ ReadSizeLine(n) \/ ReadChunk(n)

HttpSpec == HttpInit /\ [][HttpNext]_httpVars

-----------------------------------------------------------------------------
(* Properties                                                              *)

\* Every message received is the one that was sent, however the network cuts the
\* stream outside the tokens: its body is whole and has nothing else in it, and
\* the next message begins where this one has ended, none of its bytes taken.
MessageExact ==
    hpc = "done" => /\ body = Pieces(Message, MessageStart, Len(Message.sizes))
                    /\ read = MessageStart + LengthOf(Message)
=============================================================================
