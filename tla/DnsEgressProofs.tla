--------------------------- MODULE DnsEgressProofs ---------------------------
(***************************************************************************)
(* For any sessions, handlers and slots: a connection that is open is in   *)
(* the table, except for a session that lost its slot during the dial.     *)
(***************************************************************************)
EXTENDS DnsEgress, TLAPS

-----------------------------------------------------------------------------
(* Types *)

\* A slot that is taken has all its fields.
Taken == [session : Sessions, nc : {"none", "open", "closed"}, done : BOOLEAN, used : BOOLEAN]
SlotStates == Taken \cup {[session |-> None]}

HandlerStates ==
    {Idle} \cup [pc : {"connect"}, session : Sessions]
           \cup [pc : {"dial", "write"}, session : Sessions, slot : Slots]

\* What handlers, pumps, the sweeper and Shutdown have in hand exists.
InHand ==
    /\ \A h \in Handlers : handler[h].pc \in {"dial", "write"} => handler[h].slot \in Used
    /\ \A i \in Slots : pump[i] # "none" => i \in Used
    /\ sweeper.pc = "mark" => sweeper.live \subseteq Sessions
    /\ sweeper.pc = "close" => sweeper.doomed \subseteq Sessions
    /\ shutdown.pc = "close" => shutdown.ids \subseteq Sessions

Types ==
    /\ live \subseteq Sessions /\ early \subseteq Sessions
    /\ table \in [Sessions -> {None} \cup Used]
    /\ slot \in [Slots -> SlotStates]
    /\ handler \in [Handlers -> HandlerStates]
    /\ pump \in [Slots -> {"none", "read", "queue", "close", "ended"}]
    /\ InHand

\* Fields of what is taken.
LEMMA TakenSlots ==
    ASSUME slot \in [Slots -> SlotStates]
    PROVE  /\ \A i \in Used : slot[i] \in Taken
           /\ \A i \in Slots : i \notin Used => slot[i] = [session |-> None]
BY EgressAssumption DEF SlotStates, Taken, Used, None

LEMMA HandlerFields ==
    ASSUME handler \in [Handlers -> HandlerStates], NEW h \in Handlers
    PROVE  /\ handler[h].pc \in {"connect", "dial", "write"} => handler[h].session \in Sessions
           /\ handler[h].pc \in {"dial", "write"} => handler[h].slot \in Slots
           /\ handler[h].pc \in {"idle", "connect", "dial", "write"}
           /\ handler[h].pc = "dial" =>
                 [handler[h] EXCEPT !.pc = "write"] =
                    [pc |-> "write", session |-> handler[h].session, slot |-> handler[h].slot]
BY DEF HandlerStates, Idle

\* Changing a slot that is taken, but not its session, leaves the same slots taken.
LEMMA SlotUpdated ==
    ASSUME slot \in [Slots -> SlotStates], NEW i \in Used, NEW t \in Taken,
           t.session = slot[i].session, slot' = [slot EXCEPT ![i] = t]
    PROVE  /\ slot' \in [Slots -> SlotStates] /\ Used' = Used
           /\ slot'[i] = t /\ \A j \in Slots : j # i => slot'[j] = slot[j]
BY DEF Used, SlotStates

\* The updates of one field.
LEMMA FieldsUpdated ==
    ASSUME NEW t \in Taken
    PROVE  /\ \A b \in BOOLEAN : [t EXCEPT !.used = b] \in Taken /\ [t EXCEPT !.used = b].nc = t.nc
                                 /\ [t EXCEPT !.used = b].session = t.session
           /\ [t EXCEPT !.done = TRUE] \in Taken /\ [t EXCEPT !.done = TRUE].nc = t.nc
           /\ [t EXCEPT !.done = TRUE].session = t.session
BY DEF Taken

-----------------------------------------------------------------------------
(* Steps that touch the bridge *)

\* The sessions of slots stay, and no connection opens.
NoneOpens ==
    /\ slot' \in [Slots -> SlotStates] /\ Used' = Used
    /\ \A i \in Used : /\ slot'[i].session = slot[i].session
                       /\ \/ slot'[i].nc = slot[i].nc
                          \/ slot[i].nc = "open" /\ slot'[i].nc = "closed"

LEMMA UsedChanges ==
    ASSUME slot \in [Slots -> SlotStates], NEW i \in Used, NEW b \in BOOLEAN,
           slot' = [slot EXCEPT ![i].used = b]
    PROVE  NoneOpens
<1> DEFINE t == [slot[i] EXCEPT !.used = b]
<1>1. slot[i] \in Taken /\ i \in Slots
  BY TakenSlots DEF Used
<1>2. t \in Taken /\ t.nc = slot[i].nc /\ t.session = slot[i].session
  BY <1>1, FieldsUpdated
<1>3. slot' = [slot EXCEPT ![i] = t]
  OBVIOUS
<1> HIDE DEF t
<1>4. /\ slot' \in [Slots -> SlotStates] /\ Used' = Used
      /\ slot'[i] = t /\ \A j \in Slots : j # i => slot'[j] = slot[j]
  BY <1>2, <1>3, SlotUpdated
<1> QED
  BY <1>2, <1>4 DEF NoneOpens, Used

LEMMA DoneChanges ==
    ASSUME slot \in [Slots -> SlotStates], NEW i \in Used,
           slot' = [slot EXCEPT ![i].done = TRUE]
    PROVE  NoneOpens
<1> DEFINE t == [slot[i] EXCEPT !.done = TRUE]
<1>1. slot[i] \in Taken /\ i \in Slots
  BY TakenSlots DEF Used
<1>2. t \in Taken /\ t.nc = slot[i].nc /\ t.session = slot[i].session
  BY <1>1, FieldsUpdated
<1>3. slot' = [slot EXCEPT ![i] = t]
  OBVIOUS
<1> HIDE DEF t
<1>4. /\ slot' \in [Slots -> SlotStates] /\ Used' = Used
      /\ slot'[i] = t /\ \A j \in Slots : j # i => slot'[j] = slot[j]
  BY <1>2, <1>3, SlotUpdated
<1> QED
  BY <1>2, <1>4 DEF NoneOpens, Used

\* Close: the session loses its slot; a connection is closed, a dial remembered.
Closed(s) ==
    /\ NoneOpens
    /\ table' \in [Sessions -> {None} \cup Used]
    /\ table'[s] = None /\ \A t \in Sessions \ {s} : table'[t] = table[t]
    /\ early \subseteq early' /\ early' \subseteq early \cup {s}
    /\ table[s] # None => /\ slot[table[s]].nc = "none" => s \in early'
                          /\ slot'[table[s]].nc # "open"

LEMMA CloseCloses ==
    ASSUME Types, NEW s \in Sessions, Close(s)
    PROVE  Closed(s)
<1>1. CASE table[s] = None
  BY <1>1 DEF Types, Close, Closed, NoneOpens, bridge, Used
<1>2. CASE table[s] # None
  <2> DEFINE i == table[s]
             t == [slot[i] EXCEPT !.done = TRUE, !.nc = IF @ = "open" THEN "closed" ELSE @]
  <2>1. i \in Used /\ i \in Slots
    BY <1>2 DEF Types, Used
  <2>2. slot[i] \in Taken
    BY <2>1, TakenSlots DEF Types
  <2>3. /\ t \in Taken /\ t.session = slot[i].session /\ t.nc # "open"
        /\ t.nc = slot[i].nc \/ (slot[i].nc = "open" /\ t.nc = "closed")
    BY <2>2 DEF Taken
  <2>4. slot' = [slot EXCEPT ![i] = t]
    BY <1>2 DEF Close, CloseSlot
  <2>5. table' = [table EXCEPT ![s] = None] /\ early' = IF slot[i].nc = "none" THEN early \cup {s} ELSE early
    BY <1>2 DEF Close
  <2> HIDE DEF t
  <2>6. /\ slot' \in [Slots -> SlotStates] /\ Used' = Used
        /\ slot'[i] = t /\ \A j \in Slots : j # i => slot'[j] = slot[j]
    BY <2>1, <2>3, <2>4, SlotUpdated DEF Types
  <2>7. NoneOpens
    BY <2>3, <2>6 DEF NoneOpens, Used
  <2> QED
    BY <1>2, <2>3, <2>5, <2>6, <2>7 DEF Closed, Types
<1> QED
  BY <1>1, <1>2

-----------------------------------------------------------------------------
(* The invariant *)

\* A dial is for a slot that has no connection and that is the session's in the
\* table, unless it was closed meanwhile; and no slot is dialed twice.
Dialing ==
    /\ \A h \in Handlers : handler[h].pc = "dial" =>
          /\ slot[handler[h].slot].nc = "none"
          /\ slot[handler[h].slot].session = handler[h].session
          /\ table[handler[h].session] = handler[h].slot \/ handler[h].session \in early
    /\ \A h, k \in Handlers :
          handler[h].pc = "dial" /\ handler[k].pc = "dial" /\ handler[h].slot = handler[k].slot => h = k

EgressInv == Types /\ Dialing /\ OpenIsAccounted

LEMMA EgressStarts == EgressInit => EgressInv
<1> SUFFICES ASSUME EgressInit PROVE EgressInv
  OBVIOUS
<1>1. Used = {}
  BY EgressAssumption DEF EgressInit, Used, None
<1>2. Types
  BY <1>1 DEF EgressInit, Types, SlotStates, HandlerStates, InHand, Idle
<1> QED
  BY <1>1, <1>2 DEF EgressInit, EgressInv, Dialing, OpenIsAccounted, Idle

\* Handlers do not begin to dial.
NoDial == \A h \in Handlers : handler'[h].pc = "dial" => handler'[h] = handler[h]

\* A step that opens nothing and leaves the table alone.
LEMMA KeepAccounts ==
    ASSUME EgressInv, NoneOpens, UNCHANGED <<table, early>>, NoDial
    PROVE  Dialing' /\ OpenIsAccounted'
<1> USE DEF EgressInv, Types, InHand
<1>1. Dialing'
  <2>1. \A h \in Handlers : handler[h].pc = "dial" => handler[h].slot \in Used
    OBVIOUS
  <2> QED
    BY <2>1 DEF Dialing, NoDial, NoneOpens
<1>2. OpenIsAccounted'
  BY DEF OpenIsAccounted, NoneOpens
<1> QED
  BY <1>1, <1>2

\* A step that closes a session.
LEMMA CloseAccounts ==
    ASSUME EgressInv, NEW s \in Sessions, Closed(s), NoDial
    PROVE  Dialing' /\ OpenIsAccounted'
<1> USE DEF EgressInv, Types, InHand
<1>1. Dialing'
  <2>1. \A h \in Handlers : handler[h].pc = "dial" =>
             handler[h].slot \in Used /\ handler[h].session \in Sessions
    BY HandlerFields
  <2>2. ASSUME NEW h \in Handlers, handler[h].pc = "dial"
        PROVE  /\ slot'[handler[h].slot].nc = "none"
               /\ slot'[handler[h].slot].session = handler[h].session
               /\ table'[handler[h].session] = handler[h].slot \/ handler[h].session \in early'
    BY <2>1, <2>2 DEF Dialing, Closed, NoneOpens
  <2> QED
    BY <2>1, <2>2 DEF Dialing, NoDial
<1>2. OpenIsAccounted'
  <2> SUFFICES ASSUME NEW i \in Used, slot'[i].nc = "open", slot'[i].session \notin early'
               PROVE  table'[slot'[i].session] = i
    BY DEF OpenIsAccounted, Closed, NoneOpens
  <2>1. slot[i].nc = "open" /\ slot'[i].session = slot[i].session /\ slot[i].session \in Sessions
    BY DEF Closed, NoneOpens, Used
  <2>2. table[slot[i].session] = i
    BY <2>1 DEF OpenIsAccounted, Closed
  <2>3. slot[i].session # s
    BY <2>1, <2>2 DEF Closed, Used, Slots, None
  <2> QED
    BY <2>1, <2>2, <2>3 DEF Closed
<1> QED
  BY <1>1, <1>2

\* Where a handler goes, the others stay.
LEMMA HandlerMoves ==
    ASSUME handler \in [Handlers -> HandlerStates], NEW h \in Handlers, NEW state \in HandlerStates,
           To(h, state)
    PROVE  /\ handler' \in [Handlers -> HandlerStates] /\ handler'[h] = state
           /\ \A k \in Handlers : k # h => handler'[k] = handler[k]
           /\ state.pc # "dial" => NoDial
           /\ Idle \in HandlerStates
BY DEF To, NoDial, HandlerStates

\* Taking a slot for the session of a handler.
LEMMA Reserves ==
    ASSUME EgressInv, NEW h \in Handlers, NEW i \in Unused, NEW s \in Sessions,
           table[s] = None,
           slot' = [slot EXCEPT ![i] = NewSlot(s)], table' = [table EXCEPT ![s] = i],
           To(h, [pc |-> "dial", session |-> s, slot |-> i]),
           UNCHANGED <<live, pump, sweeper, shutdown, early>>
    PROVE  EgressInv'
<1> USE DEF EgressInv, Types
<1>1. NewSlot(s) \in Taken /\ NewSlot(s).nc = "none" /\ NewSlot(s).session = s
  BY DEF NewSlot, Taken
<1>2. i \in Slots /\ i \notin Used
  BY DEF Unused
<1>3. /\ slot' \in [Slots -> SlotStates] /\ slot'[i] = NewSlot(s)
      /\ \A j \in Slots : j # i => slot'[j] = slot[j]
  BY <1>1, <1>2 DEF SlotStates
<1>4. Used' = Used \cup {i}
  BY <1>1, <1>2, <1>3 DEF Used
<1>5. table' \in [Sessions -> {None} \cup Used'] /\ table'[s] = i
      /\ \A t \in Sessions \ {s} : table'[t] = table[t]
  BY <1>4
<1>6. [pc |-> "dial", session |-> s, slot |-> i] \in HandlerStates
  BY <1>2 DEF HandlerStates
<1>7. /\ handler' \in [Handlers -> HandlerStates]
      /\ handler'[h] = [pc |-> "dial", session |-> s, slot |-> i]
      /\ \A k \in Handlers : k # h => handler'[k] = handler[k]
  BY <1>6, HandlerMoves
<1>8. InHand'
  BY <1>4, <1>7 DEF InHand
<1>9. Types'
  BY <1>3, <1>5, <1>7, <1>8
<1>10. \A k \in Handlers : k # h /\ handler[k].pc = "dial" =>
            handler[k].slot # i /\ handler[k].slot \in Slots /\ handler[k].session \in Sessions
  BY <1>2, HandlerFields DEF InHand
<1>11. Dialing'
  <2>1. ASSUME NEW k \in Handlers, k # h, handler[k].pc = "dial"
        PROVE  /\ slot'[handler[k].slot].nc = "none"
               /\ slot'[handler[k].slot].session = handler[k].session
               /\ table'[handler[k].session] = handler[k].slot \/ handler[k].session \in early'
    <3>1. handler[k].slot # None
      BY <2>1, <1>10 DEF Slots, None
    <3>2. handler[k].session = s => handler[k].session \in early
      BY <2>1, <3>1 DEF Dialing
    <3> QED
      BY <2>1, <3>2, <1>3, <1>5, <1>10 DEF Dialing
  <2> QED
    BY <2>1, <1>1, <1>3, <1>5, <1>7, <1>10 DEF Dialing
<1>12. OpenIsAccounted'
  <2> SUFFICES ASSUME NEW j \in Used', slot'[j].nc = "open", slot'[j].session \notin early
               PROVE  table'[slot'[j].session] = j
    BY DEF OpenIsAccounted
  <2>1. j # i /\ j \in Used /\ slot'[j] = slot[j]
    BY <1>1, <1>3, <1>4 DEF Used
  <2>2. table[slot[j].session] = j /\ slot[j].session \in Sessions
    BY <2>1 DEF OpenIsAccounted, Used
  <2>3. slot[j].session # s
    BY <2>1, <2>2 DEF Used, Slots, None
  <2> QED
    BY <1>5, <2>1, <2>2, <2>3
<1> QED
  BY <1>9, <1>11, <1>12

\* What handlers, pumps, sweeper and Shutdown have in hand stays, when the slots do.
LEMMA TypesKept ==
    ASSUME Types, slot' \in [Slots -> SlotStates], Used' = Used,
           table' \in [Sessions -> {None} \cup Used],
           live' \subseteq Sessions, early' \subseteq Sessions,
           handler' \in [Handlers -> HandlerStates],
           pump' \in [Slots -> {"none", "read", "queue", "close", "ended"}],
           \A h \in Handlers : \/ handler'[h].pc \notin {"dial", "write"}
                               \/ handler'[h].slot \in Used,
           \A i \in Slots : pump'[i] # "none" => i \in Used,
           sweeper' = sweeper \/ sweeper'.pc \notin {"mark", "close"},
           shutdown' = shutdown \/ shutdown'.pc # "close"
    PROVE  Types'
BY DEF Types, InHand

LEMMA HandlersKeep ==
    ASSUME EgressInv, NEW h \in Handlers, Handle(h)
    PROVE  EgressInv'
<1> USE DEF EgressInv
<1>0. /\ handler \in [Handlers -> HandlerStates] /\ Idle \in HandlerStates /\ Idle.pc = "idle"
      /\ slot \in [Slots -> SlotStates] /\ table \in [Sessions -> {None} \cup Used]
  BY DEF Types, HandlerStates, Idle
<1>1. ASSUME To(h, Idle), NoneOpens, UNCHANGED <<live, pump, sweeper, shutdown>>,
             table' \in [Sessions -> {None} \cup Used], early' \subseteq Sessions
      PROVE  Types' /\ NoDial
  <2>1. /\ handler' \in [Handlers -> HandlerStates] /\ handler'[h] = Idle /\ NoDial
        /\ \A k \in Handlers : k # h => handler'[k] = handler[k]
    BY <1>0, <1>1, HandlerMoves
  <2>2. Types'
    BY <1>0, <1>1, <2>1, TypesKept DEF Types, InHand, NoneOpens
  <2> QED
    BY <2>1, <2>2
<1>2. CASE Connect(h)
  <2> DEFINE s == handler[h].session
  <2>1. s \in Sessions
    BY <1>0, <1>2, HandlerFields DEF Connect
  <2>2. CASE To(h, Idle) /\ UNCHANGED bridge
    <3>1. NoneOpens
      BY <1>0, <2>2 DEF NoneOpens, bridge, Used
    <3> QED
      BY <1>0, <1>1, <1>2, <2>2, <3>1, KeepAccounts DEF Connect, ghosts, bridge, Types
  <2>3. CASE /\ table[s] # None
             /\ slot' = [slot EXCEPT ![table[s]].used = TRUE]
             /\ To(h, [pc |-> "write", session |-> s, slot |-> table[s]])
             /\ UNCHANGED table
    <3>1. table[s] \in Used /\ table[s] \in Slots
      BY <1>0, <2>1, <2>3 DEF Used
    <3>2. NoneOpens
      BY <1>0, <2>3, <3>1, UsedChanges
    <3>3. [pc |-> "write", session |-> s, slot |-> table[s]] \in HandlerStates
      BY <2>1, <3>1 DEF HandlerStates
    <3>4. /\ handler' \in [Handlers -> HandlerStates] /\ NoDial
          /\ handler'[h] = [pc |-> "write", session |-> s, slot |-> table[s]]
          /\ \A k \in Handlers : k # h => handler'[k] = handler[k]
      BY <1>0, <2>3, <3>3, HandlerMoves
    <3>5. Types'
      BY <1>2, <2>3, <3>1, <3>2, <3>4, TypesKept DEF Connect, Types, InHand, NoneOpens, ghosts
    <3> QED
      BY <1>2, <2>3, <3>2, <3>4, <3>5, KeepAccounts DEF Connect, ghosts
  <2>4. ASSUME NEW i \in Slots, Fresh(i), table[s] = None,
               slot' = [slot EXCEPT ![i] = NewSlot(s)], table' = [table EXCEPT ![s] = i],
               To(h, [pc |-> "dial", session |-> s, slot |-> i])
        PROVE  EgressInv'
    BY <1>2, <2>1, <2>4, Reserves DEF Connect, Fresh, ghosts
  <2> QED
    BY <1>2, <2>2, <2>3, <2>4 DEF Connect
<1>3. CASE Dialed(h)
  <2> DEFINE i == handler[h].slot
             s == handler[h].session
             t == [slot[i] EXCEPT !.nc = "open", !.used = TRUE]
  <2>1. i \in Used /\ i \in Slots /\ s \in Sessions /\ slot[i].session = s
        /\ (table[s] = i \/ s \in early)
    BY <1>0, <1>3, HandlerFields DEF Dialed, Types, InHand, Dialing
  <2>2. slot[i] \in Taken
    BY <1>0, <2>1, TakenSlots
  <2>3. t \in Taken /\ t.session = slot[i].session /\ t.nc = "open"
    BY <2>2 DEF Taken
  <2>4. slot' = [slot EXCEPT ![i] = t] /\ handler[h].pc = "dial"
        /\ UNCHANGED <<live, table, sweeper, shutdown, early>>
    BY <1>3 DEF Dialed, ghosts
  <2> HIDE DEF t
  <2>5. /\ slot' \in [Slots -> SlotStates] /\ Used' = Used
        /\ slot'[i] = t /\ \A j \in Slots : j # i => slot'[j] = slot[j]
    BY <1>0, <2>1, <2>3, <2>4, SlotUpdated
  <2>6. To(h, [pc |-> "write", session |-> s, slot |-> i])
    BY <1>0, <1>3, HandlerFields DEF Dialed
  <2>7. [pc |-> "write", session |-> s, slot |-> i] \in HandlerStates
    BY <2>1 DEF HandlerStates
  <2>8. /\ handler' \in [Handlers -> HandlerStates] /\ NoDial
        /\ handler'[h] = [pc |-> "write", session |-> s, slot |-> i]
        /\ \A k \in Handlers : k # h => handler'[k] = handler[k]
    BY <1>0, <2>6, <2>7, HandlerMoves
  <2>9. /\ pump' \in [Slots -> {"none", "read", "queue", "close", "ended"}]
        /\ \A j \in Slots : pump'[j] # "none" => j \in Used
    BY <1>3, <2>1 DEF Dialed, Resume, Types, InHand
  <2>10. Types'
    BY <2>1, <2>4, <2>5, <2>8, <2>9, TypesKept DEF Types, InHand
  <2>11. Dialing'
    <3>1. ASSUME NEW k \in Handlers, k # h, handler[k].pc = "dial"
          PROVE  handler[k].slot # i /\ handler[k].slot \in Slots
      BY <1>0, <2>4, <3>1, HandlerFields DEF Dialing
    <3> QED
      BY <2>4, <2>5, <2>8, <3>1 DEF Dialing
  <2>12. OpenIsAccounted'
    <3>1. \A j \in Used : j # i => slot'[j] = slot[j]
      BY <2>5 DEF Used
    <3> QED
      BY <2>1, <2>3, <2>4, <2>5, <3>1 DEF OpenIsAccounted
  <2> QED
    BY <2>10, <2>11, <2>12
<1>4. CASE DialFails(h)
  <2> DEFINE i == handler[h].slot
             s == handler[h].session
  <2>1. i \in Used /\ s \in Sessions /\ slot[i].nc = "none" /\ (table[s] = i \/ s \in early)
    BY <1>0, <1>4, HandlerFields DEF DialFails, Types, InHand, Dialing
  <2>2. NoneOpens /\ UNCHANGED <<live, pump, sweeper, shutdown, early>> /\ To(h, Idle)
    BY <1>0, <1>4, <2>1, DoneChanges DEF DialFails
  <2>3. table' = [table EXCEPT ![s] = None] /\ handler[h].pc = "dial"
    BY <1>4 DEF DialFails
  <2>4. table' \in [Sessions -> {None} \cup Used]
    BY <1>0, <2>3
  <2>5. Types' /\ NoDial
    BY <1>1, <2>2, <2>4 DEF Types
  <2>6. /\ handler'[h].pc = "idle" /\ \A k \in Handlers : k # h => handler'[k] = handler[k]
    BY <1>0, <2>2, HandlerMoves
  <2>7. Dialing'
    <3>1. ASSUME NEW k \in Handlers, k # h, handler[k].pc = "dial"
          PROVE  /\ handler[k].slot \in Used /\ handler[k].session \in Sessions
                 /\ handler[k].session = s => handler[k].session \in early
      <4>1. handler[k].slot \in Used /\ handler[k].session \in Sessions
        BY <1>0, <3>1, HandlerFields DEF Types, InHand
      <4>2. handler[k].slot # i
        BY <2>3, <3>1 DEF Dialing
      <4>3. table[handler[k].session] = handler[k].slot \/ handler[k].session \in early
        BY <3>1 DEF Dialing
      <4> QED
        BY <2>1, <4>1, <4>2, <4>3
    <3> QED
      BY <1>0, <2>2, <2>3, <2>6, <3>1 DEF Dialing, NoneOpens
  <2>8. OpenIsAccounted'
    <3> SUFFICES ASSUME NEW j \in Used, slot'[j].nc = "open", slot'[j].session \notin early
                 PROVE  table'[slot'[j].session] = j
      BY <2>2 DEF OpenIsAccounted, NoneOpens
    <3>1. slot[j].nc = "open" /\ slot'[j].session = slot[j].session
      BY <2>2 DEF NoneOpens
    <3>2. table[slot[j].session] = j
      BY <2>2, <3>1 DEF OpenIsAccounted
    <3>3. slot[j].session # s
      BY <2>1, <3>1, <3>2
    <3> QED
      BY <1>0, <2>3, <3>1, <3>2, <3>3
  <2> QED
    BY <2>5, <2>7, <2>8
<1>5. CASE Write(h)
  <2> DEFINE s == handler[h].session
  <2>1. s \in Sessions /\ To(h, Idle) /\ UNCHANGED <<live, pump, sweeper, shutdown>>
    BY <1>0, <1>5, HandlerFields DEF Write
  <2>2. CASE UNCHANGED <<bridge, early>>
    <3>1. NoneOpens
      BY <1>0, <2>2 DEF NoneOpens, bridge, Used
    <3> QED
      BY <1>0, <1>1, <2>1, <2>2, <3>1, KeepAccounts DEF bridge, Types
  <2>3. CASE Close(s)
    <3>1. Closed(s)
      BY <2>1, <2>3, CloseCloses
    <3>2. Types' /\ NoDial
      BY <1>1, <2>1, <3>1 DEF Closed, Types
    <3> QED
      BY <2>1, <3>1, <3>2, CloseAccounts
  <2> QED
    BY <1>5, <2>2, <2>3 DEF Write
<1> QED
  BY <1>2, <1>3, <1>4, <1>5 DEF Handle

LEMMA PumpsKeep ==
    ASSUME EgressInv, NEW i \in Slots,
           Pump(i) \/ Read(i) \/ Enqueue(i) \/ GoesQuiet(i)
    PROVE  EgressInv'
<1> USE DEF EgressInv
<1>0. /\ handler \in [Handlers -> HandlerStates] /\ slot \in [Slots -> SlotStates]
      /\ UNCHANGED <<handler, sweeper, shutdown>>
      /\ pump[i] # "none" => i \in Used /\ slot[i].session \in Sessions
  BY DEF Types, InHand, Pump, Read, Enqueue, GoesQuiet, ReadClosed, PumpGivesUp, PumpEnds, Used
<1>1. NoDial
  BY <1>0 DEF NoDial
<1>2. ASSUME NEW pc \in {"read", "queue", "close", "ended"}, PumpTo(i, pc), i \in Used
      PROVE  /\ pump' \in [Slots -> {"none", "read", "queue", "close", "ended"}]
             /\ \A j \in Slots : pump'[j] # "none" => j \in Used
  BY <1>2 DEF PumpTo, Types, InHand
<1>3. ASSUME NoneOpens, UNCHANGED <<table, early>>, live' \subseteq Sessions,
             pump' \in [Slots -> {"none", "read", "queue", "close", "ended"}],
             \A j \in Slots : pump'[j] # "none" => j \in Used
      PROVE  EgressInv'
  <2>1. Types'
    BY <1>0, <1>3, TypesKept DEF Types, InHand, NoneOpens
  <2> QED
    BY <1>1, <1>3, <2>1, KeepAccounts
<1>4. CASE Read(i) \/ ReadClosed(i) \/ PumpGivesUp(i)
  <2>1. UNCHANGED <<live, bridge, early>> /\ pump[i] # "none"
        /\ (PumpTo(i, "queue") \/ PumpTo(i, "close"))
    BY <1>4 DEF Read, ReadClosed, PumpGivesUp, ghosts
  <2>2. NoneOpens
    BY <1>0, <2>1 DEF NoneOpens, bridge, Used
  <2> QED
    BY <1>0, <1>2, <1>3, <2>1, <2>2 DEF bridge, Types
<1>5. CASE Enqueue(i)
  <2>1. i \in Used /\ live' \subseteq Sessions /\ UNCHANGED <<table, early>>
    BY <1>0, <1>5 DEF Enqueue, ghosts, Types
  <2>2. NoneOpens
    BY <1>0, <1>5, <2>1, UsedChanges DEF Enqueue
  <2>3. PumpTo(i, "close") \/ PumpTo(i, "read")
    BY <1>5 DEF Enqueue, Resume
  <2> QED
    BY <1>2, <1>3, <2>1, <2>2, <2>3
<1>6. CASE GoesQuiet(i)
  <2>1. NoneOpens
    BY <1>0, <1>6, UsedChanges DEF GoesQuiet
  <2> QED
    BY <1>3, <1>6, <2>1 DEF GoesQuiet, ghosts, Types, InHand
<1>7. CASE PumpEnds(i)
  <2>1. Closed(slot[i].session) /\ slot[i].session \in Sessions
    BY <1>0, <1>7, CloseCloses DEF PumpEnds
  <2>2. /\ pump' \in [Slots -> {"none", "read", "queue", "close", "ended"}]
        /\ \A j \in Slots : pump'[j] # "none" => j \in Used
    BY <1>0, <1>2, <1>7 DEF PumpEnds
  <2>3. Types'
    BY <1>0, <1>7, <2>1, <2>2, TypesKept DEF PumpEnds, Types, InHand, Closed, NoneOpens
  <2> QED
    BY <1>1, <2>1, <2>3, CloseAccounts
<1> QED
  BY <1>4, <1>5, <1>6, <1>7 DEF Pump

LEMMA SweepKeeps ==
    ASSUME EgressInv, Sweep \/ ShutdownBegins \/ Shutdown
    PROVE  EgressInv'
<1> USE DEF EgressInv
<1>0. /\ handler \in [Handlers -> HandlerStates] /\ slot \in [Slots -> SlotStates]
      /\ UNCHANGED <<handler, live, pump>>
  BY DEF Types, Sweep, SweepLook, SweepMark, SweepClose, SweepStops,
     ShutdownBegins, Shutdown, ShutdownCloses, ShutdownReturns
<1>1. NoDial
  BY <1>0 DEF NoDial
<1>2. ASSUME UNCHANGED <<bridge, early>>, InHand' PROVE EgressInv'
  <2>1. NoneOpens
    BY <1>0, <1>2 DEF NoneOpens, bridge, Used
  <2>2. Types'
    BY <1>0, <1>2, <2>1 DEF Types, NoneOpens, bridge
  <2> QED
    BY <1>1, <1>2, <2>1, <2>2, KeepAccounts DEF bridge
<1>3. ASSUME NEW s \in Sessions, Close(s),
             \/ /\ shutdown' = shutdown
                /\ sweeper'.pc = "close" => sweeper'.doomed \subseteq Sessions
                /\ sweeper'.pc # "mark"
             \/ /\ sweeper' = sweeper
                /\ shutdown'.pc = "close" => shutdown'.ids \subseteq Sessions
      PROVE EgressInv'
  <2>1. Closed(s)
    BY <1>3, CloseCloses
  <2>2. InHand'
    BY <1>0, <1>3, <2>1 DEF Types, InHand, Closed, NoneOpens
  <2>3. Types'
    BY <1>0, <2>1, <2>2 DEF Types, Closed, NoneOpens
  <2> QED
    BY <1>1, <1>3, <2>1, <2>3, CloseAccounts
<1>4. CASE SweepLook \/ SweepMark \/ SweepStops \/ ShutdownBegins \/ ShutdownReturns
  <2>1. UNCHANGED <<bridge, early>>
    BY <1>4 DEF SweepLook, SweepMark, SweepStops, ShutdownBegins, ShutdownReturns, ghosts
  <2>2. Used' = Used
    BY <2>1 DEF bridge, Used
  <2>3. InHand'
    BY <1>0, <1>4, <2>1, <2>2 DEF SweepLook, SweepMark, SweepStops, ShutdownBegins, ShutdownReturns,
       InHand, Types, Tabled, SweepOn, ShutdownOn, Doomed
  <2> QED
    BY <1>2, <2>1, <2>3
<1>5. CASE SweepClose
  <2>1. PICK s \in sweeper.doomed : sweeper' = SweepOn(sweeper.doomed \ {s}) /\ Close(s)
    BY <1>5 DEF SweepClose
  <2>2. sweeper.doomed \subseteq Sessions /\ shutdown' = shutdown
    BY <1>5 DEF SweepClose, Types, InHand
  <2> QED
    BY <1>3, <2>1, <2>2 DEF SweepOn
<1>6. CASE ShutdownCloses
  <2>1. PICK s \in shutdown.ids : shutdown' = ShutdownOn(shutdown.ids \ {s}) /\ Close(s)
    BY <1>6 DEF ShutdownCloses
  <2>2. shutdown.ids \subseteq Sessions /\ sweeper' = sweeper
    BY <1>6 DEF ShutdownCloses, Types, InHand
  <2> QED
    BY <1>3, <2>1, <2>2 DEF ShutdownOn
<1> QED
  BY <1>4, <1>5, <1>6 DEF Sweep, Shutdown

LEMMA SessionsKeep ==
    ASSUME EgressInv, NEW s \in Sessions,
           Evict(s) \/ \E h \in Handlers : Query(h, s)
    PROVE  EgressInv'
<1> USE DEF EgressInv
<1>0. /\ handler \in [Handlers -> HandlerStates] /\ slot \in [Slots -> SlotStates]
      /\ table \in [Sessions -> {None} \cup Used]
      /\ live' \subseteq Sessions /\ UNCHANGED <<table, pump, sweeper, shutdown, early>>
  BY DEF Types, Evict, Query, bridge, ghosts
<1>1. ASSUME NoneOpens, NoDial, handler' \in [Handlers -> HandlerStates],
             \A h \in Handlers : \/ handler'[h].pc \notin {"dial", "write"}
                                 \/ handler'[h].slot \in Used
      PROVE EgressInv'
  <2>1. Types'
    BY <1>0, <1>1, TypesKept DEF Types, InHand, NoneOpens
  <2> QED
    BY <1>0, <1>1, <2>1, KeepAccounts
<1>2. CASE UNCHANGED <<slot, handler>>
  <2>1. NoneOpens /\ NoDial
    BY <1>0, <1>2 DEF NoneOpens, NoDial, Used
  <2> QED
    BY <1>0, <1>1, <1>2, <2>1 DEF Types, InHand
<1>3. ASSUME NEW h \in Handlers, To(h, [pc |-> "connect", session |-> s]), UNCHANGED slot
      PROVE  EgressInv'
  <2>1. [pc |-> "connect", session |-> s] \in HandlerStates
    BY DEF HandlerStates
  <2>2. /\ handler' \in [Handlers -> HandlerStates] /\ NoDial
        /\ handler'[h] = [pc |-> "connect", session |-> s]
        /\ \A k \in Handlers : k # h => handler'[k] = handler[k]
    BY <1>0, <1>3, <2>1, HandlerMoves
  <2>3. NoneOpens
    BY <1>0, <1>3 DEF NoneOpens, Used
  <2> QED
    BY <1>1, <2>2, <2>3 DEF Types, InHand
<1>4. ASSUME table[s] # None, slot' = [slot EXCEPT ![table[s]].used = TRUE], UNCHANGED handler
      PROVE  EgressInv'
  <2>1. NoneOpens
    BY <1>0, <1>4, UsedChanges
  <2>2. NoDial
    BY <1>4 DEF NoDial
  <2> QED
    BY <1>0, <1>1, <1>4, <2>1, <2>2 DEF Types, InHand
<1> QED
  BY <1>2, <1>3, <1>4 DEF Evict, Query, bridge

LEMMA EgressInvariant == EgressSpec => []EgressInv
<1>1. EgressInv /\ [EgressNext]_egress => EgressInv'
  <2> SUFFICES ASSUME EgressInv, [EgressNext]_egress PROVE EgressInv'
    OBVIOUS
  <2>1. CASE UNCHANGED egress
    BY <2>1 DEF egress, bridge, bounds, ghosts, EgressInv, Types, InHand, Dialing, OpenIsAccounted, Used
  <2>2. CASE EgressNext
    BY <2>2, EgressAssumption, SessionsKeep, HandlersKeep, PumpsKeep, SweepKeeps DEF EgressNext
  <2> QED
    BY <2>1, <2>2
<1> QED
  BY EgressAssumption, EgressStarts, <1>1, PTL DEF EgressSpec

\* The table, the slots and the pumps keep the shape the code gives them.
THEOREM EgressTypeCorrect == EgressSpec => []EgressTypeOK
<1>1. EgressInv => EgressTypeOK
  BY EgressAssumption, TakenSlots DEF EgressInv, Types, EgressTypeOK, Taken
<1> QED
  BY EgressAssumption, EgressInvariant, <1>1, PTL

\* No connection to the outside is open that the table has lost: whatever closes
\* sessions (the sweeper, Shutdown, a pump, a failed write) while others dial,
\* read and write, unless a session lost its slot while it was being dialed.
THEOREM EgressAccounted == EgressSpec => []OpenIsAccounted
<1>1. EgressInv => OpenIsAccounted
  BY DEF EgressInv
<1> QED
  BY EgressAssumption, EgressInvariant, <1>1, PTL
=============================================================================
