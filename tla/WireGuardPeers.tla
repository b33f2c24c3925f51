--------------------------- MODULE WireGuardPeers ---------------------------
(***************************************************************************)
(* The clients of one WireGuard inbound: internal/wgpeer, its table        *)
(* (internal/store/wgpeer.go) and its two callers in internal/api.         *)
(*                                                                         *)
(* A client is one row: a tunnel address, which is the lowest free one     *)
(* when the row is made, and a key pair.  EnsurePeer makes the row on      *)
(* first use.  A subscription calls it for the client that asks, a reload  *)
(* for every client entitled to the inbound, after which it lists all rows *)
(* as the peers of the server.  Reading, choosing an address and inserting *)
(* are separate statements, and only (inbound, client) is unique.          *)
(*                                                                         *)
(* Rotate and Release have no caller in the program and are left out, so   *)
(* no row is ever released and an address is free or held.                 *)
(***************************************************************************)
EXTENDS Integers

CONSTANTS Clients,     \* users assigned to the inbound
          PeerCallers, \* goroutines: subscription handlers and reloads
          Pools,       \* ranges an operator gives the inbound: the addresses
                       \* that Pool.iter yields, but the server's own
          MaxKeys,     \* bound: key pairs generated
          Anyone       \* no client in particular

ASSUME PeersAssumption ==
    Pools \subseteq SUBSET (Nat \ {0}) /\ MaxKeys \in Nat /\ Anyone \notin Clients

VARIABLES entitled,  \* the clients a reload renders
          peers,     \* client -> its row
          calls,     \* caller -> its call of EnsurePeer, or of applyWGPeers
          minted,    \* key pairs generated so far
          served,    \* the peers last rendered, and the users they were for
          given,     \* <<client, row>>: what clients downloaded
          shared     \* {c, d}: one's row was made while the other's was

wireguard == <<entitled, peers, calls, minted, served, given, shared>>

PeerRows == [address : {0} \cup UNION Pools, key : 0..MaxKeys]
NoRow == [address |-> 0, key |-> 0]

\* A call's pc; the users still to ensure and those it began with; the client
\* it is at, with the row it would insert and the rows inserted since it read.
NoCall == [pc |-> "idle", kind |-> "fetch", todo |-> {}, users |-> {},
           at |-> Anyone, row |-> NoRow, missed |-> {}]
Stages == {"idle", "next", "allocate", "insert", "made", "reread", "list"}
Calls == [pc : Stages, kind : {"fetch", "reload"}, todo : SUBSET Clients,
          users : SUBSET Clients, at : Clients \cup {Anyone}, row : PeerRows,
          missed : SUBSET Clients]

Known == {c \in Clients : peers[c] # NoRow}

PeersInit ==
    /\ entitled \in SUBSET Clients
    /\ peers = [c \in Clients |-> NoRow]
    /\ calls = [k \in PeerCallers |-> NoCall]
    /\ minted = 0
    /\ served = [users |-> {}, peers |-> {}]
    /\ given = {} /\ shared = {}

-----------------------------------------------------------------------------
(* The callers. *)

\* An operator or the scheduler suspends a client, or lets it back.
Entitle(c) ==
    /\ entitled' = IF c \in entitled THEN entitled \ {c} ELSE entitled \cup {c}
    /\ UNCHANGED <<peers, calls, minted, served, given, shared>>

\* A client fetches its subscription; suspended ones are answered too.
Fetch(k, c) ==
    /\ calls[k].pc = "idle"
    /\ calls' = [calls EXCEPT ![k] = [NoCall EXCEPT !.pc = "next", !.todo = {c}]]
    /\ UNCHANGED <<entitled, peers, minted, served, given, shared>>

\* A reload reads who is entitled; with nobody the inbound keeps its own peer.
Reload(k) ==
    /\ calls[k].pc = "idle"
    /\ \/ /\ entitled = {}
          /\ served' = [users |-> {}, peers |-> {}] /\ UNCHANGED calls
       \/ /\ entitled # {}
          /\ calls' = [calls EXCEPT ![k] = [NoCall EXCEPT
                         !.pc = "next", !.kind = "reload", !.todo = entitled, !.users = entitled]]
          /\ UNCHANGED served
    /\ UNCHANGED <<entitled, peers, minted, given, shared>>

\* EnsurePeer for c is over: a fetch hands the row out, if there is one; a
\* reload goes on with the next user.
Ended(k, c, row) ==
    /\ calls' = [calls EXCEPT ![k] =
         IF @.kind = "fetch" THEN NoCall
         ELSE [@ EXCEPT !.pc = IF calls[k].todo = {c} THEN "list" ELSE "next",
                        !.todo = calls[k].todo \ {c},
                        !.at = Anyone, !.row = NoRow, !.missed = {}]]
    /\ given' = IF calls[k].kind = "fetch" /\ row # NoRow THEN given \cup {<<c, row>>} ELSE given

-----------------------------------------------------------------------------
(* EnsurePeer. *)

\* The existing peer is the answer.
Found(k, c) ==
    /\ calls[k].pc = "next" /\ c \in calls[k].todo
    /\ c \in Known
    /\ Ended(k, c, peers[c])
    /\ UNCHANGED <<entitled, peers, minted, served, shared>>

Unknown(k, c) ==
    /\ calls[k].pc = "next" /\ c \in calls[k].todo
    /\ c \notin Known
    /\ calls' = [calls EXCEPT ![k].pc = "allocate", ![k].at = c]
    /\ UNCHANGED <<entitled, peers, minted, served, given, shared>>

\* What reservations and Allocate block.
Taken_Entitled == {peers[c].address : c \in Known \cap entitled}

Taken == {peers[c].address : c \in Known}

\* The rows are read, the lowest free address is chosen and keys are generated;
\* with no address free the client gets none.  The range is the one this call
\* found in its copy of the inbound, which may have been edited since.
Allocate(k) ==
    /\ calls[k].pc = "allocate" /\ minted < MaxKeys
    /\ \E pool \in Pools :
       \/ /\ pool \subseteq Taken
          /\ Ended(k, calls[k].at, NoRow) /\ UNCHANGED minted
       \/ \E a \in pool \ Taken :
             /\ \A b \in pool \ Taken : a <= b
             /\ minted' = minted + 1
             /\ calls' = [calls EXCEPT ![k].pc = "insert", ![k].missed = {},
                                       ![k].row = [address |-> a, key |-> minted + 1]]
             /\ UNCHANGED given
    /\ UNCHANGED <<entitled, peers, served, shared>>

\* The row is inserted, and the callers that have read the rows miss it.  The
\* insert is refused when the client has a row by now, or fails by itself.
Insert(k) ==
    /\ calls[k].pc = "insert"
    /\ LET c == calls[k].at IN
       \/ /\ c \notin Known
          /\ peers' = [peers EXCEPT ![c] = calls[k].row]
          /\ shared' = shared \cup {{c, d} : d \in calls[k].missed}
          /\ calls' = [j \in PeerCallers |->
               IF j = k THEN [calls[k] EXCEPT !.pc = "made"]
               ELSE IF calls[j].pc = "insert" THEN [calls[j] EXCEPT !.missed = @ \cup {c}]
               ELSE calls[j]]
       \/ /\ calls' = [calls EXCEPT ![k].pc = "reread"]
          /\ UNCHANGED <<peers, shared>>
    /\ UNCHANGED <<entitled, minted, served, given>>

\* The winner answers with the row it made.
Made(k) ==
    /\ calls[k].pc = "made"
    /\ Ended(k, calls[k].at, calls[k].row)
    /\ UNCHANGED <<entitled, peers, minted, served, shared>>

Reread_OwnRow(k) ==
    /\ calls[k].pc = "reread"
    /\ Ended(k, calls[k].at, calls[k].row)
    /\ UNCHANGED <<entitled, peers, minted, served, shared>>

\* The loser reads the winner's row, or reports its error if there is none.
Reread(k) ==
    /\ calls[k].pc = "reread"
    /\ Ended(k, calls[k].at, peers[calls[k].at])
    /\ UNCHANGED <<entitled, peers, minted, served, shared>>

\* ServerPeers: every row is a peer of the server.
ServerPeers == {<<c, peers[c]>> : c \in Known}

\* The reload renders them; with no row at all the inbound keeps its own peer.
Render(k) ==
    /\ calls[k].pc = "list"
    /\ served' = [users |-> calls[k].users, peers |-> ServerPeers]
    /\ calls' = [calls EXCEPT ![k] = NoCall]
    /\ UNCHANGED <<entitled, peers, minted, given, shared>>

\* The panel is killed: calls are lost, rows are not.
PeersCrash ==
    /\ \E k \in PeerCallers : calls[k].pc # "idle"
    /\ calls' = [k \in PeerCallers |-> NoCall]
    /\ UNCHANGED <<entitled, peers, minted, served, given, shared>>

PeersNext ==
    \/ \E c \in Clients : Entitle(c)
    \/ \E k \in PeerCallers, c \in Clients : Fetch(k, c) \/ Found(k, c) \/ Unknown(k, c)
    \/ \E k \in PeerCallers :
          Reload(k) \/ Allocate(k) \/ Insert(k) \/ Made(k) \/ Reread(k) \/ Render(k)
    \/ PeersCrash

PeersSpec == PeersInit /\ [][PeersNext]_wireguard

-----------------------------------------------------------------------------
(* Properties. *)

PeersTypeOK ==
    /\ entitled \subseteq Clients /\ minted \in 0..MaxKeys
    /\ peers \in [Clients -> PeerRows]
    /\ calls \in [PeerCallers -> Calls]
    /\ served \in [users : SUBSET Clients, peers : SUBSET (Clients \X PeerRows)]
    /\ given \subseteq Clients \X PeerRows
    /\ shared \subseteq SUBSET Clients

\* Two clients hold one tunnel address only if the row of one was inserted
\* between the other's reading of the rows and its own insert: allocation by
\* EnsurePeer is exact except for that window, over crashes and failed inserts.
AddressesDistinct ==
    \A c, d \in Known : c # d /\ peers[c].address = peers[d].address => {c, d} \in shared

\* Whatever a client ever downloaded is what the server lists for it: the loser
\* of a race for one row answers with the winner's keys, never with its own.
IdentityAgreed == \A g \in given : peers[g[1]] = g[2]

\* applyWGPeers "fills a WireGuard-family node's peer list from its assigned
\* users": a client that is not among the users of a reload is no peer in it.
PeersAreEntitled == \A p \in served.peers : p[1] \in served.users
=============================================================================
