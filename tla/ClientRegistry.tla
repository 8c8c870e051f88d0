---------------------------- MODULE ClientRegistry ----------------------------
(***************************************************************************)
(* The connected web clients (src/client_manager.rs).  A client opens one  *)
(* connection per role under one client id; the registry counts them and   *)
(* holds, per client, a watch channel on which another browser can close   *)
(* all of them (src/app.rs, close_webclient and close_other_webclients).   *)
(*                                                                         *)
(* The registry's lock is never held over an await, so each operation is   *)
(* one action.  What is not atomic is arriving and leaving.  A connection  *)
(* has its lease before its session runs: a WebTransport client may take   *)
(* for ever to open its stream.  A dropped lease is taken out of the       *)
(* counts by a task of its own, which runs some time later, while the same *)
(* client may already be connecting again.                                 *)
(***************************************************************************)
EXTENDS Naturals, FiniteSets

CONSTANTS
  Connections,  \* connections
  Clients,   \* client ids
  Roles,
  ClientOf,  \* the client id of each connection
  RoleOf,    \* and its role
  Silent,    \* connections whose client takes nothing from its socket any more
  Channels,  \* identities of watch channels
  Unlisted

ASSUME RegistryAssumption ==
  /\ IsFiniteSet(Connections)
  /\ ClientOf \in [Connections -> Clients]
  /\ RoleOf \in [Connections -> Roles]
  /\ Silent \subseteq Connections
  /\ Unlisted \notin [roles : [Roles -> Nat], close_tx : Channels]

VARIABLES
  clients,   \* the registry: for each client id its role counts and its channel
  closed,    \* the value in each watch channel
  lease,     \* where each connection is with its lease
  close_rx   \* the channel each lease listens to

registryVars == <<clients, closed, lease, close_rx>>

Entries == [roles : [Roles -> Nat], close_tx : Channels]
NoRoles == [r \in Roles |-> 0]

Goes(s, place) == lease' = [lease EXCEPT ![s] = place]

\* A lease exists, and with it a receiver of the client's channel.
Leased(s) == lease[s] \in {"opening", "connected", "closing"}

Receivers(ch) == {s \in Connections : Leased(s) /\ close_rx[s] = ch}

\* The connections of a client in one role that are in its counts.
Counted(c, r) ==
  {s \in Connections : ClientOf[s] = c /\ RoleOf[s] = r /\ (Leased(s) \/ lease[s] = "dropped")}

Fresh(ch) ==
  /\ Receivers(ch) = {}
  /\ \A c \in Clients : clients[c] # Unlisted => clients[c].close_tx # ch

-----------------------------------------------------------------------------
\* Slip: every lease gets a channel of its own, which the registry forgets.
RegisterApart(s) ==
  LET c == ClientOf[s] IN
  /\ lease[s] = "off"
  /\ \E ch \in Channels :
       /\ Fresh(ch)
       /\ closed' = [closed EXCEPT ![ch] = FALSE]
       /\ clients' = [clients EXCEPT ![c] =
            IF @ = Unlisted THEN [roles |-> [NoRoles EXCEPT ![RoleOf[s]] = 1], close_tx |-> ch]
                        ELSE [@ EXCEPT !.roles[RoleOf[s]] = @ + 1]]
       /\ close_rx' = [close_rx EXCEPT ![s] = ch]
  /\ Goes(s, "opening")

\* The first connection of a client makes its entry and the channel.
Register(s) ==
  LET c   == ClientOf[s]
      old == IF clients[c] = Unlisted THEN NoRoles ELSE clients[c].roles
  IN
  /\ lease[s] = "off"
  /\ \E ch \in Channels :
       /\ IF clients[c] = Unlisted
          THEN Fresh(ch) /\ closed' = [closed EXCEPT ![ch] = FALSE]
          ELSE ch = clients[c].close_tx /\ UNCHANGED closed
       /\ clients' = [clients EXCEPT ![c] =
            [roles |-> [old EXCEPT ![RoleOf[s]] = @ + 1], close_tx |-> ch]]
       /\ close_rx' = [close_rx EXCEPT ![s] = ch]
  /\ Goes(s, "opening")

\* The WebSocket is upgraded, or the client has opened its WebTransport stream.
Open(s) ==
  /\ lease[s] = "opening"
  /\ Goes(s, "connected")
  /\ UNCHANGED <<clients, closed, close_rx>>

\* A send on a watch channel without receivers fails and changes nothing.
Close(cs) ==
  /\ closed' = [ch \in Channels |->
       closed[ch] \/ \E c \in cs : /\ clients[c] # Unlisted
                                   /\ clients[c].close_tx = ch
                                   /\ Receivers(ch) # {}]
  /\ UNCHANGED <<clients, lease, close_rx>>

CloseAll(c) == Close({c})
CloseOthers(c) == Close(Clients \ {c})

\* wait_for_client_close: the channel holds TRUE.
SeeClose(s) ==
  /\ lease[s] = "connected"
  /\ closed[close_rx[s]]
  /\ Goes(s, "closing")
  /\ UNCHANGED <<clients, closed, close_rx>>

\* Slip: a session that was told to close keeps waiting for its client.
DropUntold(s) ==
  /\ lease[s] \in {"opening", "connected"}
  /\ Goes(s, "dropped")
  /\ UNCHANGED <<clients, closed, close_rx>>

\* The session ends, by itself or after its Close frame, or never began; the
\* drop of its lease spawns the task that takes it out of the counts.
DropLease(s) ==
  /\ Leased(s)
  /\ Goes(s, "dropped")
  /\ UNCHANGED <<clients, closed, close_rx>>

\* Slip: an entry without roles stays.
UnregisterKeeps(s) ==
  LET c == ClientOf[s]
      r == RoleOf[s]
  IN
  /\ lease[s] = "dropped"
  /\ clients' = [clients EXCEPT ![c] =
       IF @ = Unlisted THEN Unlisted
       ELSE [@ EXCEPT !.roles[r] = IF @ = 0 THEN 0 ELSE @ - 1]]
  /\ Goes(s, "off")
  /\ UNCHANGED <<closed, close_rx>>

Unregister(s) ==
  LET c     == ClientOf[s]
      r     == RoleOf[s]
      count == clients[c].roles[r]
      left  == [clients[c].roles EXCEPT ![r] = IF count = 0 THEN 0 ELSE count - 1]
  IN
  /\ lease[s] = "dropped"
  /\ IF clients[c] = Unlisted
     THEN UNCHANGED clients
     ELSE clients' = [clients EXCEPT ![c] =
            IF left = NoRoles THEN Unlisted ELSE [roles |-> left, close_tx |-> clients[c].close_tx]]
  /\ Goes(s, "off")
  /\ UNCHANGED <<closed, close_rx>>

-----------------------------------------------------------------------------
RegistryInit ==
  /\ clients = [c \in Clients |-> Unlisted]
  /\ closed = [ch \in Channels |-> FALSE]
  /\ lease = [s \in Connections |-> "off"]
  /\ close_rx \in [Connections -> Channels]

RegistryNext ==
  \/ \E s \in Connections : Register(s) \/ Open(s) \/ SeeClose(s) \/ DropLease(s) \/ Unregister(s)
  \/ \E c \in Clients : CloseAll(c) \/ CloseOthers(c)

RegistrySpec == RegistryInit /\ [][RegistryNext]_registryVars

(***************************************************************************)
(* A session watches the channel in every select of its supervisor, and    *)
(* spawned tasks run.  Its Close frame goes out, and ends it, unless its   *)
(* client is silent: then the frame may wait for room for ever.  A session *)
(* that nobody closes, or that does not begin, may stay for ever.          *)
(***************************************************************************)
RegistryFairness ==
  \A s \in Connections :
    /\ WF_registryVars(SeeClose(s))
    /\ WF_registryVars(s \notin Silent /\ lease[s] = "closing" /\ DropLease(s))
    /\ WF_registryVars(Unregister(s))

RegistryFairSpec == RegistrySpec /\ RegistryFairness

-----------------------------------------------------------------------------
(* Properties. *)

\* The state has the shape the code's types give it.
RegistryTypeOK ==
  /\ clients \in [Clients -> Entries \cup {Unlisted}]
  /\ closed \in [Channels -> BOOLEAN]
  /\ lease \in [Connections -> {"off", "opening", "connected", "closing", "dropped"}]
  /\ close_rx \in [Connections -> Channels]

\* The registry's counts are the connections of each client in each role that
\* have a lease or whose unregistration is still to run, and a client is listed
\* exactly while there is one: reconnecting before the old connection is
\* unregistered neither loses the new one nor keeps the old one.
CountsAreConnections ==
  \A c \in Clients :
    IF clients[c] = Unlisted
    THEN \A r \in Roles : Counted(c, r) = {}
    ELSE /\ \A r \in Roles : clients[c].roles[r] = Cardinality(Counted(c, r))
         /\ \E r \in Roles : Counted(c, r) # {}

\* Closing a client reaches all of it: every lease listens to the channel in
\* its client's entry, however often the entry was removed and made again.
LeasesAreReached ==
  \A s \in Connections :
    Leased(s) => /\ clients[ClientOf[s]] # Unlisted
                 /\ close_rx[s] = clients[ClientOf[s]].close_tx

\* A connection of a closed client ends and leaves the counts, unless its client
\* is silent.  Closing it before its session runs is not lost: the session sees
\* it when it does.
ClosedConnectionsEnd ==
  \A s \in Connections \ Silent : lease[s] = "connected" /\ closed[close_rx[s]] ~> lease[s] = "off"

=============================================================================
