----------------------------- MODULE DnsEgress -----------------------------
(***************************************************************************)
(* The egress bridge of a tunnel zone (forgedns/egress): one connection to *)
(* the outside per tunnel session.  Four kinds of goroutine meet in its    *)
(* table of connections:                                                   *)
(*                                                                         *)
(*   handlers   one per DNS query: hand a session's bytes to its           *)
(*              connection, which the first of them dials;                 *)
(*   pumps      one per connection: read, and queue for the client;        *)
(*   sweeper    closes what belongs to no session, or has gone quiet;      *)
(*   Shutdown   closes everything and waits.                               *)
(*                                                                         *)
(* A step is one critical section of Bridge.mu or one blocking call.  The  *)
(* bytes themselves are not modelled, only that there are some.            *)
(***************************************************************************)
EXTENDS Integers, FiniteSets

CONSTANTS
    Sessions,
    Handlers,
    MaxConns,     \* Options.MaxConns
    MaxSlots,     \* bound: connections opened in all
    MaxEvictions, \* bound: sessions evicted
    MaxReads      \* bound: reads of the destinations that yield bytes

\* 0 stands for no slot and for no session.
ASSUME EgressAssumption == MaxSlots \in Nat /\ 0 \notin Sessions

VARIABLES
    live,      \* sessions the manager holds
    table,     \* Bridge.conns: the slot of a session, or None
    slot,      \* upstreamConn, by order of creation
    handler,
    pump,      \* the pump of a slot
    sweeper,
    shutdown,  \* stage of Shutdown
    dead,      \* the process has panicked
    evictions, reads,
    early      \* ghost: sessions that lost their slot during its dial

bridge == <<table, slot>>
bounds == <<evictions, reads>>
ghosts == <<dead, early>>
egress == <<live, bridge, handler, pump, sweeper, shutdown, bounds, ghosts>>

-----------------------------------------------------------------------------
None == 0
Slots == 1 .. MaxSlots

\* nc is the connection; used says that lastUsed is recent.
NewSlot(s) == [session |-> s, nc |-> "none", done |-> FALSE, used |-> TRUE]

Used == {i \in Slots : slot[i].session \in Sessions}
Unused == Slots \ Used
Fresh(i) == i \in Unused /\ \A j \in Unused : i <= j
Tabled == {s \in Sessions : table[s] # None}

Idle == [pc |-> "idle"]

EgressInit ==
    /\ live = {}
    /\ table = [s \in Sessions |-> None]
    /\ slot = [i \in Slots |-> [session |-> None]]
    /\ handler = [h \in Handlers |-> Idle]
    /\ pump = [i \in Slots |-> "none"]
    /\ sweeper = [pc |-> "wait"]
    /\ shutdown = [pc |-> "running"]
    /\ dead = FALSE /\ evictions = 0 /\ reads = 0 /\ early = {}

Stopping == shutdown.pc # "running"   \* b.closed is set, b.stop is closed

-----------------------------------------------------------------------------
(* Close, for the session s.  The slot leaves the table under the lock; once.Do
   then closes done, and the connection if there is one by then. *)

CloseSlot(i) ==
    slot' = [slot EXCEPT ![i].done = TRUE, ![i].nc = IF @ = "open" THEN "closed" ELSE @]

Close(s) ==
    IF table[s] = None THEN UNCHANGED <<bridge, early>>
    ELSE /\ table' = [table EXCEPT ![s] = None]
         /\ CloseSlot(table[s])
         /\ early' = IF slot[table[s]].nc = "none" THEN early \cup {s} ELSE early

-----------------------------------------------------------------------------
(* The session manager, as the bridge sees it *)

\* EvictIdle: the client has been silent for longer than the TTL, which is longer
\* than a dial.
Evict(s) ==
    /\ ~dead /\ s \in live /\ evictions < MaxEvictions
    /\ \A h \in Handlers : handler[h].pc \in {"connect", "dial"} => handler[h].session # s
    /\ live' = live \ {s} /\ evictions' = evictions + 1
    /\ UNCHANGED <<bridge, handler, pump, sweeper, shutdown, reads, ghosts>>

-----------------------------------------------------------------------------
(* Handlers *)

To(h, state) == handler' = [handler EXCEPT ![h] = state]

\* A query of s arrives: the manager ingests its frame, making the session if it
\* is new, and Deliver takes what bytes there are.  A query without bytes keeps
\* the connection from looking idle.
Query(h, s) ==
    /\ ~dead /\ handler[h] = Idle
    /\ live' = live \cup {s}
    /\ \/ To(h, [pc |-> "connect", session |-> s]) /\ UNCHANGED slot
       \/ /\ table[s] # None
          /\ slot' = [slot EXCEPT ![table[s]].used = TRUE]
          /\ UNCHANGED handler
    /\ UNCHANGED <<table, pump, sweeper, shutdown, bounds, ghosts>>

\* Faulty variant: the slot is not reserved before the dial.
Connect_Unreserved(h) ==
    LET s == handler[h].session IN
    /\ ~dead /\ handler[h].pc = "connect"
    /\ IF shutdown.pc = "running" /\ table[s] = None /\ Unused # {}
       THEN \E i \in Slots : /\ Fresh(i)
                             /\ slot' = [slot EXCEPT ![i] = NewSlot(s)]
                             /\ To(h, [pc |-> "dial", session |-> s, slot |-> i])
       ELSE To(h, Idle) /\ UNCHANGED slot
    /\ UNCHANGED <<live, table, pump, sweeper, shutdown, bounds, ghosts>>

\* connFor: the session's slot, or a new one, reserved before dialing.
Connect(h) ==
    LET s == handler[h].session IN
    /\ ~dead /\ handler[h].pc = "connect"
    /\ \/ /\ shutdown.pc # "running"
          /\ To(h, Idle) /\ UNCHANGED bridge
       \/ /\ shutdown.pc = "running" /\ table[s] # None
          /\ slot' = [slot EXCEPT ![table[s]].used = TRUE]
          /\ To(h, [pc |-> "write", session |-> s, slot |-> table[s]])
          /\ UNCHANGED table
       \/ /\ shutdown.pc = "running" /\ table[s] = None
          /\ Cardinality(Tabled) >= MaxConns \/ Unused = {}
          /\ To(h, Idle) /\ UNCHANGED bridge
       \/ /\ shutdown.pc = "running" /\ table[s] = None
          /\ Cardinality(Tabled) < MaxConns
          /\ \E i \in Slots :
                /\ Fresh(i)
                /\ slot' = [slot EXCEPT ![i] = NewSlot(s)]
                /\ table' = [table EXCEPT ![s] = i]
                /\ To(h, [pc |-> "dial", session |-> s, slot |-> i])
    /\ UNCHANGED <<live, pump, sweeper, shutdown, bounds, ghosts>>

\* What a pump does next: it looks at done and stop, and then reads.
Resume(i) == IF slot[i].done \/ Stopping THEN "close" ELSE "read"

Dialed(h) ==
    LET i == handler[h].slot IN
    /\ ~dead /\ handler[h].pc = "dial"
    /\ slot' = [slot EXCEPT ![i].nc = "open", ![i].used = TRUE]
    /\ pump' = [pump EXCEPT ![i] = Resume(i)]
    /\ To(h, [handler[h] EXCEPT !.pc = "write"])
    /\ UNCHANGED <<live, table, sweeper, shutdown, bounds, ghosts>>

\* A failed dial deletes whatever the session has in the table by now, and then
\* closes done, outside once: if Close has been there, that is a panic.
DialFails(h) ==
    LET s == handler[h].session
        i == handler[h].slot
    IN
    /\ ~dead /\ handler[h].pc = "dial"
    /\ table' = [table EXCEPT ![s] = None]
    /\ dead' = slot[i].done
    /\ slot' = [slot EXCEPT ![i].done = TRUE]
    /\ To(h, Idle)
    /\ UNCHANGED <<live, pump, sweeper, shutdown, bounds, early>>

\* Write.  The slot may still be another handler's reservation, with no connection
\* in it: that is a nil dereference.
Write(h) ==
    LET s == handler[h].session
        nc == slot[handler[h].slot].nc
    IN
    /\ ~dead /\ handler[h].pc = "write"
    /\ To(h, Idle)
    /\ dead' = (nc = "none")
    /\ \/ nc # "closed" /\ UNCHANGED <<bridge, early>>
       \/ nc # "none" /\ Close(s)
    /\ UNCHANGED <<live, pump, sweeper, shutdown, bounds>>

-----------------------------------------------------------------------------
(* pumpDown *)

PumpTo(i, pc) == pump' = [pump EXCEPT ![i] = pc]

\* The destination sends something, or ends the stream.
Read(i) ==
    /\ ~dead /\ pump[i] = "read" /\ slot[i].nc = "open"
    /\ \/ reads < MaxReads /\ reads' = reads + 1 /\ PumpTo(i, "queue")
       \/ UNCHANGED reads /\ PumpTo(i, "close")
    /\ UNCHANGED <<live, bridge, handler, sweeper, shutdown, evictions, ghosts>>

ReadClosed(i) ==
    /\ ~dead /\ pump[i] = "read" /\ slot[i].nc = "closed"
    /\ PumpTo(i, "close")
    /\ UNCHANGED <<live, bridge, handler, sweeper, shutdown, bounds, ghosts>>

\* enqueue: there is no room, and the connection or the bridge is closed.
PumpGivesUp(i) ==
    /\ ~dead /\ pump[i] = "queue"
    /\ slot[i].done \/ Stopping
    /\ PumpTo(i, "close")
    /\ UNCHANGED <<live, bridge, handler, sweeper, shutdown, bounds, ghosts>>

\* enqueue: there is room.  QueueOutbound makes the session anew if it has been
\* evicted.
Enqueue(i) ==
    /\ ~dead /\ pump[i] = "queue"
    /\ live' = live \cup {slot[i].session}
    /\ slot' = [slot EXCEPT ![i].used = TRUE]
    /\ PumpTo(i, Resume(i))
    /\ UNCHANGED <<table, handler, sweeper, shutdown, bounds, ghosts>>

\* The deferred Close, by session: what it closes need not be this slot.
PumpEnds(i) ==
    /\ ~dead /\ pump[i] = "close"
    /\ PumpTo(i, "ended")
    /\ Close(slot[i].session)
    /\ UNCHANGED <<live, handler, sweeper, shutdown, bounds, dead>>

-----------------------------------------------------------------------------
(* sweep *)

\* IdleTimeout passes for a connection; it is longer than any dial.
GoesQuiet(i) ==
    /\ ~dead /\ i \in Used /\ slot[i].nc = "open" /\ slot[i].used
    /\ slot' = [slot EXCEPT ![i].used = FALSE]
    /\ UNCHANGED <<live, table, handler, pump, sweeper, shutdown, bounds, ghosts>>

\* LiveIDs, before the lock.
SweepLook ==
    /\ ~dead /\ sweeper.pc = "wait" /\ ~Stopping
    /\ sweeper' = [pc |-> "mark", live |-> live]
    /\ UNCHANGED <<live, bridge, handler, pump, shutdown, bounds, ghosts>>

\* Faulty variant: only quiet connections are doomed.
Doomed_QuietOnly(seen) == {s \in Tabled : ~slot[table[s]].used}

Doomed(seen) == {s \in Tabled : s \notin seen \/ ~slot[table[s]].used}

SweepOn(doomed) == IF doomed = {} THEN [pc |-> "wait"] ELSE [pc |-> "close", doomed |-> doomed]

SweepMark ==
    /\ ~dead /\ sweeper.pc = "mark"
    /\ sweeper' = SweepOn(Doomed(sweeper.live))
    /\ UNCHANGED <<live, bridge, handler, pump, shutdown, bounds, ghosts>>

SweepClose ==
    /\ ~dead /\ sweeper.pc = "close"
    /\ \E s \in sweeper.doomed : sweeper' = SweepOn(sweeper.doomed \ {s}) /\ Close(s)
    /\ UNCHANGED <<live, handler, pump, shutdown, bounds, dead>>

SweepStops ==
    /\ ~dead /\ sweeper.pc = "wait" /\ Stopping
    /\ sweeper' = [pc |-> "ended"]
    /\ UNCHANGED <<live, bridge, handler, pump, shutdown, bounds, ghosts>>

-----------------------------------------------------------------------------
(* Shutdown *)

ShutdownOn(ids) == IF ids = {} THEN [pc |-> "join"] ELSE [pc |-> "close", ids |-> ids]

ShutdownBegins ==
    /\ ~dead /\ shutdown.pc = "running"
    /\ shutdown' = ShutdownOn(Tabled)
    /\ UNCHANGED <<live, bridge, handler, pump, sweeper, bounds, ghosts>>

ShutdownCloses ==
    /\ ~dead /\ shutdown.pc = "close"
    /\ \E s \in shutdown.ids : shutdown' = ShutdownOn(shutdown.ids \ {s}) /\ Close(s)
    /\ UNCHANGED <<live, handler, pump, sweeper, bounds, dead>>

\* wg.Wait
ShutdownReturns ==
    /\ ~dead /\ shutdown.pc = "join"
    /\ sweeper.pc = "ended" /\ \A i \in Slots : pump[i] \in {"none", "ended"}
    /\ shutdown' = [pc |-> "returned"]
    /\ UNCHANGED <<live, bridge, handler, pump, sweeper, bounds, ghosts>>

-----------------------------------------------------------------------------
Handle(h) == Connect(h) \/ Dialed(h) \/ DialFails(h) \/ Write(h)
Pump(i) == ReadClosed(i) \/ PumpGivesUp(i) \/ PumpEnds(i)
Sweep == SweepLook \/ SweepMark \/ SweepClose \/ SweepStops
Shutdown == ShutdownCloses \/ ShutdownReturns

EgressNext ==
    \/ \E s \in Sessions : Evict(s) \/ \E h \in Handlers : Query(h, s)
    \/ \E h \in Handlers : Handle(h)
    \/ \E i \in Slots : Pump(i) \/ Read(i) \/ Enqueue(i) \/ GoesQuiet(i)
    \/ Sweep \/ ShutdownBegins \/ Shutdown

EgressSpec == EgressInit /\ [][EgressNext]_egress

-----------------------------------------------------------------------------
(* Properties *)

EgressTypeOK ==
    /\ live \subseteq Sessions
    /\ table \in [Sessions -> {None} \cup Used]
    /\ \A i \in Used : slot[i].nc \in {"none", "open", "closed"}
    /\ \A i \in Slots : pump[i] \in {"none", "read", "queue", "close", "ended"}
    /\ early \subseteq Sessions

\* A connection that is open is one the table knows, or one whose pump is about
\* to close it: nothing is open that nobody will ever close.  The exception is a
\* session whose slot was closed during the dial (by the sweeper, Shutdown, the
\* pump of an earlier connection): the connection then opens in no table.
OpenIsAccounted ==
    \A i \in Used :
        slot[i].nc = "open" =>
            \/ table[slot[i].session] = i
            \/ slot[i].session \in early

\* Shutdown returns, whatever pumps wait for; except, again, after a slot was
\* closed during its dial.
ShutdownEnds == Stopping ~> (shutdown.pc = "returned" \/ early # {} \/ dead)

\* What the sweeper is for: the connection of an evicted session is closed, unless
\* the session comes back, be it by bytes the destination sends.
EvictedIsClosed ==
    \A s \in Sessions :
        (s \notin live /\ table[s] # None) ~> (table[s] = None \/ s \in live \/ dead)
=============================================================================
