----------------------------- MODULE DnsSession -----------------------------
(***************************************************************************)
(* One authenticated session of the DNS tunnel: two byte streams carried   *)
(* by queries and answers that are lost, repeated and reordered on the     *)
(* way (forgedns/session).  Downstream is stop-and-wait: one chunk is in   *)
(* flight, every answer replays it, and it leaves the queue when a query   *)
(* acknowledges its sequence number, or acknowledges nothing and has       *)
(* another number than the query before.  Upstream, numbered frames pass a *)
(* reorder buffer.  The session begins after the handshake and ends before *)
(* its eviction; every step of it is one Ingest, under Manager.mu.         *)
(*                                                                         *)
(* The client is not in the repository.  What it does is what the server   *)
(* asks of it: it accepts the chunk whose sequence number it expects,      *)
(* acknowledges the last one it accepted in every query, as soon as there  *)
(* is one, numbers its data frames from zero and its polls as it likes, and*)
(* takes the answer to a query as the word that the frame it carried has   *)
(* arrived.                                                                *)
(*                                                                         *)
(* A frame, and a byte of the downstream, is the number of its place in    *)
(* its stream; the 16-bit sequence numbers are modulo SeqSpace.            *)
(***************************************************************************)
EXTENDS Integers, Sequences, FiniteSets, FiniteSetsExt

CONSTANTS
    SeqSpace,         \* 65536
    ChunkSize, MaxOutboundBytes, MaxReorderFrames,
    Window,           \* data frames the client has unanswered at once
    PollNumbers,      \* sequence numbers the client gives its polls
    Reach,            \* queries, and answers, that can still arrive
    Streams,          \* bound: pairs of lengths, in bytes down and frames up
    MaxExpiries       \* bound: in-flight chunks that expire

\* Half the numbers tell old from new, and the buffer takes what a client has open.
ASSUME SessionAssumption ==
    /\ SeqSpace \in Nat /\ SeqSpace % 2 = 0
    /\ ChunkSize \in Nat \ {0} /\ MaxOutboundBytes \in Nat \ {0}
    /\ Window \in Nat \ {0} /\ Reach \in Nat \ {0}
    /\ Window + Reach <= SeqSpace \div 2
    /\ MaxReorderFrames \in Nat /\ MaxReorderFrames >= Window - 1
    /\ PollNumbers \subseteq 0 .. SeqSpace - 1
    /\ Streams \subseteq Nat \X Nat /\ MaxExpiries \in Nat

VARIABLES
    lengths,     \* of the two streams of this session
    outbound,    \* bytes queued for the client, the chunk in flight first
    inflight,    \* that chunk, or <<>>
    seqOut,      \* its sequence number
    nextSeqIn,   \* the data frame the reassembly waits for
    reorder,     \* frames held out of order, by sequence number
    inbound,     \* frames reassembled, in the order they left
    lastReq,     \* the sequence number of the last query, or Nothing
    produced,    \* bytes the destination has written
    queries,     \* on their way to the server, the latest last
    answers,     \* on their way to the client
    client,
    expiries,
    cut,         \* ghost: the chunk first sent under seqOut
    recut,       \* ghost: another was later sent under the same number
    presumed     \* ghost: a chunk left the queue and no query acknowledged it

server == <<outbound, inflight, seqOut, nextSeqIn, reorder, inbound, lastReq>>
chunkHistory == <<cut, recut, presumed>>
session == <<lengths, server, produced, queries, answers, client, expiries, chunkHistory>>

-----------------------------------------------------------------------------
Nothing == -1

Octets == lengths[1]
Frames == lengths[2]

Seqs == 0 .. SeqSpace - 1

\* A poll carries no frame; the first queries acknowledge nothing.
Queries == [frame : 0 .. Frames - 1 \cup {Nothing}, seq : Seqs, ack : Seqs \cup {Nothing}]

Chunks == UNION {[1 .. n -> 1 .. Octets] : n \in 0 .. ChunkSize}

Answers == [frame : 0 .. Frames - 1 \cup {Nothing}, seq : Seqs, payload : Chunks]

SessionInit ==
    /\ lengths \in Streams
    /\ outbound = <<>> /\ inflight = <<>> /\ seqOut = 0
    /\ nextSeqIn = 0 /\ reorder = [s \in Seqs |-> Nothing] /\ inbound = <<>>
    /\ lastReq = Nothing /\ produced = 0
    /\ queries = <<>> /\ answers = <<>>
    /\ client = [got |-> <<>>, accepted |-> 0, answered |-> {}]
    /\ expiries = 0 /\ cut = <<>> /\ recut = FALSE /\ presumed = FALSE

\* What is sent pushes out what was sent Reach messages before it.
Push(net, msg) == IF Len(net) < Reach THEN Append(net, msg) ELSE Append(Tail(net), msg)

-----------------------------------------------------------------------------
(* The client *)

LastAccepted == IF client.accepted = 0 THEN Nothing ELSE (client.accepted - 1) % SeqSpace

Send(frame, seq) ==
    /\ queries' = Push(queries, [frame |-> frame, seq |-> seq, ack |-> LastAccepted])
    /\ UNCHANGED <<lengths, server, produced, answers, client, expiries, chunkHistory>>

Poll == \E seq \in PollNumbers : Send(Nothing, seq)

\* A new data frame, or an old one whose answer has not come.
SendFrame(n) ==
    /\ n \in 0 .. Frames - 1 /\ n \notin client.answered
    /\ \A k \in 0 .. n - Window : k \in client.answered
    /\ Send(n, n % SeqSpace)

ReceiveAnswer(i) ==
    /\ i \in 1 .. Len(answers)
    /\ LET a == answers[i]
           new == a.payload # <<>> /\ a.seq = client.accepted % SeqSpace
       IN client' =
            [got |-> IF new THEN client.got \o a.payload ELSE client.got,
             accepted |-> IF new THEN client.accepted + 1 ELSE client.accepted,
             answered |-> IF a.frame = Nothing THEN client.answered ELSE client.answered \cup {a.frame}]
    /\ UNCHANGED <<lengths, server, produced, queries, answers, expiries, chunkHistory>>

-----------------------------------------------------------------------------
(* Ingest: acknowledgement, upstream data, answer *)

\* An acknowledgement must be of the chunk in flight; a query without one stands
\* for one if it is not the last query again.
Commits(q) ==
    /\ inflight # <<>>
    /\ IF q.ack # Nothing THEN q.ack = seqOut ELSE lastReq # Nothing /\ q.seq # lastReq

\* a comes before b, in half the sequence space.
SeqBefore(a, b) == a # b /\ (b - a) % SeqSpace < SeqSpace \div 2

Held == {s \in Seqs : reorder[s] # Nothing}

\* Consumed, held already, or out of order when there is no room.
Refused(seq) ==
    \/ SeqBefore(seq, nextSeqIn)
    \/ reorder[seq] # Nothing
    \/ Cardinality(Held) >= MaxReorderFrames /\ seq # nextSeqIn

\* How many frames from nextSeqIn on are in the buffer.
RunLength(buffer) ==
    Max({n \in 0 .. SeqSpace : \A k \in 0 .. n - 1 : buffer[(nextSeqIn + k) % SeqSpace] # Nothing})

\* Faulty variant: what waits behind a frame is not released with it.
Upstream_Stuck(frame) ==
    LET seq == frame % SeqSpace IN
    IF frame = Nothing \/ Refused(seq) THEN UNCHANGED <<nextSeqIn, reorder, inbound>>
    ELSE IF seq = nextSeqIn
         THEN /\ inbound' = Append(inbound, frame) /\ nextSeqIn' = (seq + 1) % SeqSpace
              /\ UNCHANGED reorder
         ELSE reorder' = [reorder EXCEPT ![seq] = frame] /\ UNCHANGED <<nextSeqIn, inbound>>

Upstream(frame) ==
    LET seq == frame % SeqSpace IN
    IF frame = Nothing \/ Refused(seq) THEN UNCHANGED <<nextSeqIn, reorder, inbound>>
    ELSE LET buffer == [reorder EXCEPT ![seq] = frame]
             run == RunLength(buffer)
             place(k) == (nextSeqIn + k) % SeqSpace
         IN /\ inbound' = inbound \o [k \in 1 .. run |-> buffer[place(k - 1)]]
            /\ reorder' = [s \in Seqs |->
                             IF \E k \in 0 .. run - 1 : s = place(k) THEN Nothing ELSE buffer[s]]
            /\ nextSeqIn' = place(run)

\* The queue once q's acknowledgement has been dealt with.
Rest(q) == IF Commits(q) THEN SubSeq(outbound, Len(inflight) + 1, Len(outbound)) ELSE outbound

FirstChunk(queue) == SubSeq(queue, 1, Min({ChunkSize, Len(queue)}))

Ingest(i) ==
    /\ i \in 1 .. Len(queries)
    /\ LET q == queries[i]
           fresh == Commits(q) \/ inflight = <<>>
           chunk == IF fresh THEN FirstChunk(Rest(q)) ELSE inflight
           seq == IF Commits(q) THEN (seqOut + 1) % SeqSpace ELSE seqOut
           first == IF Commits(q) THEN <<>> ELSE cut
       IN /\ outbound' = Rest(q) /\ inflight' = chunk /\ seqOut' = seq /\ lastReq' = q.seq
          /\ Upstream(q.frame)
          /\ answers' = Push(answers, [frame |-> q.frame, seq |-> seq, payload |-> chunk])
          /\ cut' = IF first = <<>> THEN chunk ELSE first
          /\ recut' = (recut \/ (first # <<>> /\ chunk # first))
          /\ presumed' = (presumed \/ (Commits(q) /\ q.ack = Nothing))
    /\ UNCHANGED <<lengths, produced, queries, client, expiries>>

\* The bridge asks for OutboundRoom and queues no more than that.
QueueOutbound(n) ==
    /\ n \in 1 .. MaxOutboundBytes - Len(outbound)
    /\ produced + n <= Octets
    /\ outbound' = outbound \o [k \in 1 .. n |-> produced + k]
    /\ produced' = produced + n
    /\ UNCHANGED <<lengths, inflight, seqOut, nextSeqIn, reorder, inbound, lastReq>>
    /\ UNCHANGED <<queries, answers, client, expiries, chunkHistory>>

\* The chunk was not acknowledged in InFlightTTL; its bytes stay queued.
ExpireInFlight ==
    /\ inflight # <<>>
    /\ expiries < MaxExpiries /\ expiries' = expiries + 1
    /\ inflight' = <<>>
    /\ UNCHANGED <<lengths, outbound, seqOut, nextSeqIn, reorder, inbound, lastReq>>
    /\ UNCHANGED <<produced, queries, answers, client, chunkHistory>>

-----------------------------------------------------------------------------
SessionNext ==
    \/ Poll
    \/ \E n \in 0 .. Frames - 1 : SendFrame(n)
    \/ \E i \in 1 .. Reach : Ingest(i) \/ ReceiveAnswer(i)
    \/ \E n \in 1 .. MaxOutboundBytes : QueueOutbound(n)
    \/ ExpireInFlight

SessionSpec == SessionInit /\ [][SessionNext]_session

-----------------------------------------------------------------------------
(* Properties *)

SessionTypeOK ==
    /\ lengths \in Streams /\ outbound \in Seq(1 .. Octets) /\ Len(outbound) <= MaxOutboundBytes
    /\ inflight = SubSeq(outbound, 1, Len(inflight)) /\ Len(inflight) <= ChunkSize
    /\ seqOut \in Seqs /\ nextSeqIn \in Seqs /\ lastReq \in Seqs \cup {Nothing}
    /\ reorder \in [Seqs -> 0 .. Frames - 1 \cup {Nothing}]
    /\ Cardinality(Held) <= MaxReorderFrames
    /\ produced \in 0 .. Octets
    /\ expiries \in 0 .. MaxExpiries /\ recut \in BOOLEAN /\ presumed \in BOOLEAN
    /\ \A i \in 1 .. Len(queries) : queries[i] \in Queries
    /\ \A i \in 1 .. Len(answers) : answers[i] \in Answers

Increasing(s) == \A i, j \in 1 .. Len(s) : i < j => s[i] < s[j]

\* "downstream bytes are NOT removed from the queue when they are sent": the
\* client has every byte that has left the queue.
DownstreamIntact == \A b \in 1 .. produced - Len(outbound) : b <= Len(client.got) /\ client.got[b] = b

\* The client gets no byte twice and none before an earlier one, whatever is
\* repeated or reordered on the way and whatever has expired or been presumed
\* received; and every byte, as long as no sequence number has stood for two
\* different chunks and every chunk that left the queue was acknowledged.
DownstreamExact == Increasing(client.got) /\ (~recut /\ ~presumed => DownstreamIntact)

\* A frame whose query was answered is not lost: it has left the reassembly
\* or waits in it.
AnsweredIsHeld ==
    \A n \in client.answered :
        \/ \E i \in 1 .. Len(inbound) : inbound[i] = n
        \/ \E s \in Seqs : reorder[s] = n

\* Upstream frames leave the reassembly in order, each of them once, though
\* their numbers wrap, and none that was answered is lost.
UpstreamExact == (\A i \in 1 .. Len(inbound) : inbound[i] = i - 1) /\ AnsweredIsHeld

-----------------------------------------------------------------------------
(* A session implements two reliable streams *)

\* The bytes of the destination, to the client.
ToClient == INSTANCE ReliableStream WITH
    First <- 1, offered <- produced,
    arrived <- {client.got[i] : i \in 1 .. Len(client.got)}, delivered <- client.got,
    settled <- 1 .. produced - Len(outbound), broken <- (recut \/ presumed)

\* The frames of the client, to the destination.
ToServer == INSTANCE ReliableStream WITH
    First <- 0, offered <- Frames,
    arrived <- {inbound[i] : i \in 1 .. Len(inbound)} \cup {reorder[s] : s \in Held},
    delivered <- inbound, settled <- client.answered, broken <- FALSE

\* Whatever is lost, repeated and reordered and however the numbers wrap, every
\* step of a session is one of two streams that deliver in order, once and as soon
\* as they can, and in which no end lets go of what the other has not got.
StreamsCarried == ToClient!Spec /\ ToServer!Spec

=============================================================================
