----------------------------- MODULE MCConnections -----------------------------
(***************************************************************************)
(* How things end, for TLC: the input session of a client, the registry of *)
(* the clients, the peer behind a WebRTC connection, and the launcher with *)
(* all it has started.  They share no state that any of them waits for, so *)
(* that a behaviour is one of one of them, and the others stand still.     *)
(*                                                                         *)
(* The registry has one client with two connections in one role (the old   *)
(* one and its reconnection) and one in another, and a second client.      *)
(***************************************************************************)
EXTENDS InputSession, ClientRegistry, RtcPeer, Launcher, TLC

CONSTANTS shift, lshift, rshift

BothSides  == [l \in {shift} |-> {lshift, rshift}]
MCFallback == [l \in {shift} |-> lshift]

CONSTANTS first, second, video, input, s1, s2, s3, s4

MCClientOf == (s1 :> first) @@ (s2 :> first) @@ (s3 :> first) @@ (s4 :> second)
MCRoleOf   == (s1 :> input) @@ (s2 :> input) @@ (s3 :> video) @@ (s4 :> input)

MCOptionModes == [x |-> {"auto", "no"}, dbus |-> {"auto", "no"}, audio |-> {"no"}]

VARIABLE part

connectionVars == <<vars, registryVars, rtcVars, launcherVars, part>>

\* A launcher that is over.
LauncherRests ==
  /\ mode = [k \in {"x", "dbus", "audio"} |-> "no"] /\ bare = TRUE
  /\ stop = TRUE /\ at = [task |-> "kill", n |-> 0]
  /\ env = [k \in {"x", "dbus", "audio"} |-> "inherited"]
  /\ answered = [k \in {"x", "dbus", "audio"} |-> {}]
  /\ children = <<>>
  /\ leader = [s \in Services |-> "none"] /\ helpers = [s \in Services |-> "none"]
  /\ termed = {} /\ killed = {} /\ recycled = {} /\ struck = {}

\* The parts that stand still begin in one state.  What close_rx holds before there
\* is a lease means nothing.
ConnectionsInit ==
  /\ part \in {"input", "registry", "peer", "launcher"}
  /\ Init /\ RegistryInit /\ RtcInit
  /\ IF part = "launcher" THEN LauncherInit ELSE LauncherRests
  /\ close_rx = [s \in Connections |-> CHOOSE ch \in Channels : TRUE]
  /\ part # "peer" => feed = "none"

ConnectionsNext ==
  /\ UNCHANGED part
  /\ \/ part = "input" /\ Next /\ UNCHANGED <<registryVars, rtcVars, launcherVars>>
     \/ part = "registry" /\ RegistryNext /\ UNCHANGED <<vars, rtcVars, launcherVars>>
     \/ part = "peer" /\ RtcNext /\ UNCHANGED <<vars, registryVars, launcherVars>>
     \/ part = "launcher" /\ LauncherNext /\ UNCHANGED <<vars, registryVars, rtcVars>>

\* No fair action of an input session or of the registry is enabled before its
\* part has taken a step, and a launcher that is over has none.
ConnectionsSpec ==
  /\ ConnectionsInit /\ [][ConnectionsNext]_connectionVars
  /\ Fairness /\ RegistryFairness /\ LauncherFairness /\ (part = "peer" => RtcFairness)
=============================================================================
