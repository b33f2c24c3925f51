---------------------------- MODULE MCPanelSafe ----------------------------
(***************************************************************************)
(* The safety of parts of the panel that share no state, checked in one    *)
(* run: `part' says which one moves, and the others stay where they began, *)
(* so the states are the sum of the parts' and not their product.          *)
(***************************************************************************)
EXTENDS Supervisor, Reload, Directory, Routing, WireGuardPeers, CorePins, AddressLimit, TLC

CONSTANTS x1, x2, y1, y2, z1, z2, w1, w2,
          Pair,     \* {x1, x2}: users, credentials, groups, handlers, releases, addresses
          Twins,    \* {y1, y2}: inbounds, shapes of a configuration, goroutines
          Narrow, Wide \* the ranges of a WireGuard inbound

VARIABLE part

\* A range that is edited: a client may be left without an address.
Ranges == {Narrow, Wide}

-----------------------------------------------------------------------------
PanelInit ==
    /\ part \in {"reload", "supervisor", "directory", "routing", "peers", "pins", "limits"}
    /\ Init /\ ReloadInit /\ DirectoryInit /\ RoutingInit /\ PeersInit /\ PinsInit /\ AddressesInit
    /\ kind = "xray"   \* the only one with a hot apply
    /\ part # "directory" => ~schema
    /\ part # "peers" => entitled = {}
    /\ part # "limits" => \A u \in Accounts : allowance[u].limit = 0

PanelNext ==
    /\ UNCHANGED part
    /\ \/ /\ part = "reload" /\ ReloadNext
          /\ UNCHANGED <<vars, directory, routing, wireguard, pins, addresses>>
       \/ /\ part = "supervisor" /\ Next
          /\ UNCHANGED <<reloading, directory, routing, wireguard, pins, addresses>>
       \/ /\ part = "directory" /\ DirectoryNext
          /\ UNCHANGED <<vars, reloading, routing, wireguard, pins, addresses>>
       \/ /\ part = "routing" /\ RoutingNext
          /\ UNCHANGED <<vars, reloading, directory, wireguard, pins, addresses>>
       \/ /\ part = "peers" /\ PeersNext
          /\ UNCHANGED <<vars, reloading, directory, routing, pins, addresses>>
       \/ /\ part = "pins" /\ PinsNext
          /\ UNCHANGED <<vars, reloading, directory, routing, wireguard, addresses>>
       \/ /\ part = "limits" /\ AddressesNext
          /\ UNCHANGED <<vars, reloading, directory, routing, wireguard, pins>>

panel == <<part, vars, reloading, directory, routing, wireguard, pins, addresses>>

PanelSpec == PanelInit /\ [][PanelNext]_panel

\* Names of a kind are alike, whatever they name in a part.
PanelSymmetry == Permutations(Pair) \cup Permutations(Twins)

=============================================================================
