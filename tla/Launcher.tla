------------------------------ MODULE Launcher ------------------------------
(***************************************************************************)
(* The portable launcher (src/src/launcher/): it looks for a display, a     *)
(* session bus and an audio service on the host, starts a private one for   *)
(* each that is missing, then the desktop and the server, and watches them  *)
(* until one exits or a signal comes.  When it ends, Drop of Processes      *)
(* stops the process groups it has started.                                 *)
(***************************************************************************)
EXTENDS Naturals, Sequences

CONSTANTS
  OptionModes, \* for each kind of service, the modes the user may choose
  Helping      \* bound of the model: the children whose groups have other members

\* The services in the order of run(), and the children they may need.
Kinds    == <<"x", "dbus", "audio">>
Services == {"x", "dbus", "audio", "desktop", "server"}

\* Where each may be found on the host, in the order they are tried: what the
\* launcher's own environment says, then the sockets of the user's services.
Hosts == [x     |-> <<"inherited">>,
          dbus  |-> <<"inherited", "run">>,
          audio |-> <<"inherited", "xdg", "run">>]
Endpoints == {"inherited", "run", "xdg", "private"}

ASSUME LauncherAssumption ==
  /\ OptionModes \in [{"x", "dbus", "audio"} -> SUBSET {"auto", "yes", "no"}]
  /\ Helping \subseteq Services

VARIABLES
  mode,      \* Options: headless, dbus, audio: auto, yes (private), no
  bare,      \* --launcher none
  stop,      \* STOP
  at,        \* what run() is about, and what of it is next
  env,       \* Processes.env: where the children will look for each service
  answered,  \* the places that have answered a probe
  children,  \* Processes.children, in the order they were started
  leader,    \* each child: none, running, zombie, reaped
  helpers,   \* the rest of its group: none, mild, or deaf to SIGTERM
  termed,    \* groups that were sent SIGTERM
  killed,    \* groups that were sent SIGKILL
  recycled,  \* children whose number names another's group by now
  struck     \* of those, the ones that were sent a signal

launcherVars == <<mode, bare, stop, at, env, answered, children, leader, helpers,
                  termed, killed, recycled, struck>>
Options == <<mode, bare>>
Found   == <<env, answered>>
Groups  == <<children, leader, helpers, termed, killed, recycled, struck>>

-----------------------------------------------------------------------------
(* run().  The service after the i-th is looked for, then the desktop is started. *)

Turns(task, n) == at' = [task |-> task, n |-> n]
Bail           == Turns("terminate", Len(children))
Probing(i)     == at.task = Kinds[i]
NextService(i) == IF i < Len(Kinds) THEN Turns(Kinds[i + 1], 1) ELSE Turns("desktop", 1)
Reusable(k)    == IF k = "x" THEN mode[k] # "yes" ELSE mode[k] = "auto"
Unnamed(k)     == k # "x" /\ mode[k] = "no"

\* Neither looked for nor started.
PassOver(i) ==
  /\ Probing(i) /\ Unnamed(Kinds[i])
  /\ NextService(i)
  /\ UNCHANGED stop /\ UNCHANGED Options /\ UNCHANGED Found /\ UNCHANGED Groups

\* x_probe, bus_probe, pulse_probe, of the n-th place.  A probe sees the environment
\* the children will get.
ProbeHost(i) ==
  LET k == Kinds[i] IN
  /\ Probing(i) /\ Reusable(k) /\ at.n <= Len(Hosts[k])
  /\ env' = [env EXCEPT ![k] = Hosts[k][at.n]]
  /\ \/ answered' = [answered EXCEPT ![k] = @ \cup {Hosts[k][at.n]}] /\ NextService(i)
     \/ answered' = answered /\ Turns(k, at.n + 1)
  /\ UNCHANGED stop /\ UNCHANGED Options /\ UNCHANGED Groups

\* There is no such variable or socket: nothing is set.
NoSuchPlace(i) ==
  /\ Probing(i) /\ Reusable(Kinds[i])
  /\ at.n <= Len(Hosts[Kinds[i]]) /\ (at.n > 1 \/ Kinds[i] = "dbus")
  /\ Turns(Kinds[i], at.n + 1)
  /\ UNCHANGED stop /\ UNCHANGED Options /\ UNCHANGED Found /\ UNCHANGED Groups

\* Processes::spawn: a group of its own, entered only once it runs.
Spawned(s) ==
  /\ children' = Append(children, s)
  /\ leader' = [leader EXCEPT ![s] = "running"]
  /\ \E h \in IF s \in Helping THEN {"none", "mild", "deaf"} ELSE {"none"} : helpers' = [helpers EXCEPT ![s] = h]
  /\ UNCHANGED <<termed, killed, recycled, struck>>

\* Slip: the last place that was tried stays in the environment.
StartPrivateUnset(i) ==
  LET k == Kinds[i] IN
  /\ Probing(i) /\ ~Unnamed(k) /\ (Reusable(k) => at.n > Len(Hosts[k]))
  /\ ~(k = "x" /\ mode[k] = "no")
  /\ Spawned(k)
  /\ env' = IF Reusable(k) THEN env ELSE [env EXCEPT ![k] = "private"]
  /\ Turns("wait", i)
  /\ UNCHANGED <<stop, answered>> /\ UNCHANGED Options

\* Xtiny, dbus-daemon, pulseaudio.
StartPrivate(i) ==
  LET k == Kinds[i] IN
  /\ Probing(i) /\ ~Unnamed(k) /\ (Reusable(k) => at.n > Len(Hosts[k]))
  /\ ~(k = "x" /\ mode[k] = "no")
  /\ Spawned(k)
  /\ env' = [env EXCEPT ![k] = "private"]
  /\ Turns("wait", i)
  /\ UNCHANGED <<stop, answered>> /\ UNCHANGED Options

\* The display is taken, --headless no, a file that cannot be written, a program
\* that does not start.
StartFails ==
  /\ at.task \in {Kinds[i] : i \in DOMAIN Kinds} \cup {"desktop", "server"}
  /\ Bail
  /\ UNCHANGED stop /\ UNCHANGED Options /\ UNCHANGED Found /\ UNCHANGED Groups

\* Slip: only the child that was started last is looked at.
EnsureAliveLast ==
  /\ at.task \in {"wait", "watch"}
  /\ children # <<>>
  /\ leader[children[Len(children)]] = "zombie"
  /\ leader' = [leader EXCEPT ![children[Len(children)]] = "reaped"]
  /\ Bail
  /\ UNCHANGED <<stop, children, helpers, termed, killed, recycled, struck>>
  /\ UNCHANGED Options /\ UNCHANGED Found

\* ensure_alive: the first child that has exited is reaped, and ends the launcher.
EnsureAlive ==
  /\ at.task \in {"wait", "watch"}
  /\ \E i \in DOMAIN children :
       /\ leader[children[i]] = "zombie"
       /\ \A j \in 1..i - 1 : leader[children[j]] # "zombie"
       /\ leader' = [leader EXCEPT ![children[i]] = "reaped"]
  /\ Bail
  /\ UNCHANGED <<stop, children, helpers, termed, killed, recycled, struck>>
  /\ UNCHANGED Options /\ UNCHANGED Found

\* wait_ready: everybody is alive and the new service answers.
BecomesReady ==
  /\ at.task = "wait" /\ ~stop
  /\ \A i \in DOMAIN children : leader[children[i]] = "running"
  /\ answered' = [answered EXCEPT ![Kinds[at.n]] = @ \cup {"private"}]
  /\ NextService(at.n)
  /\ UNCHANGED <<stop, env>> /\ UNCHANGED Options /\ UNCHANGED Groups

\* After eight seconds, or on a signal.
NeverReady ==
  /\ at.task = "wait"
  /\ Bail
  /\ UNCHANGED stop /\ UNCHANGED Options /\ UNCHANGED Found /\ UNCHANGED Groups

\* On a private display, unless it is to stay bare.
StartDesktop ==
  /\ at.task = "desktop"
  /\ IF env["x"] = "private" /\ ~bare THEN Spawned("desktop") ELSE UNCHANGED Groups
  /\ Turns("server", 1)
  /\ UNCHANGED stop /\ UNCHANGED Options /\ UNCHANGED Found

StartServer ==
  /\ at.task = "server"
  /\ Spawned("server")
  /\ Turns("watch", 1)
  /\ UNCHANGED stop /\ UNCHANGED Options /\ UNCHANGED Found

SeeStop ==
  /\ at.task = "watch" /\ stop
  /\ Bail
  /\ UNCHANGED stop /\ UNCHANGED Options /\ UNCHANGED Found /\ UNCHANGED Groups

-----------------------------------------------------------------------------
(* Drop of Processes. *)

GroupLives(s) == leader[s] # "reaped" \/ helpers[s] # "none"

\* Slip: only the children that are still there are told.
TerminateLeaders ==
  /\ at.task = "terminate" /\ at.n > 0
  /\ termed' = IF leader[children[at.n]] = "running" THEN termed \cup {children[at.n]} ELSE termed
  /\ Turns("terminate", at.n - 1)
  /\ UNCHANGED <<stop, children, leader, helpers, killed, recycled, struck>>
  /\ UNCHANGED Options /\ UNCHANGED Found

\* SIGTERM to every group, the last one first, whatever has become of its leader.
Terminate ==
  /\ at.task = "terminate" /\ at.n > 0
  /\ LET s == children[at.n] IN
     /\ termed' = IF GroupLives(s) THEN termed \cup {s} ELSE termed
     /\ struck' = IF ~GroupLives(s) /\ s \in recycled THEN struck \cup {s} ELSE struck
  /\ Turns("terminate", at.n - 1)
  /\ UNCHANGED <<stop, children, leader, helpers, killed, recycled>>
  /\ UNCHANGED Options /\ UNCHANGED Found

\* try_wait of them all, every 20 ms and for two seconds, while one lives.
Poll ==
  /\ at = [task |-> "terminate", n |-> 0]
  /\ leader' = [s \in Services |-> IF leader[s] = "zombie" THEN "reaped" ELSE leader[s]]
  /\ \/ /\ \A s \in Services : leader[s] # "running"
        /\ Turns("kill", Len(children))
     \/ /\ leader' # leader
        /\ UNCHANGED at
  /\ UNCHANGED <<stop, children, helpers, termed, killed, recycled, struck>>
  /\ UNCHANGED Options /\ UNCHANGED Found

Deadline ==
  /\ at = [task |-> "terminate", n |-> 0]
  /\ Turns("kill", Len(children))
  /\ UNCHANGED stop /\ UNCHANGED Options /\ UNCHANGED Found /\ UNCHANGED Groups

\* Slip: of the group only its leader is killed.
KillLeader ==
  /\ at.task = "kill" /\ at.n > 0
  /\ LET s == children[at.n] IN
     /\ leader' = [leader EXCEPT ![s] = "reaped"]
     /\ killed' = IF leader[s] = "running" THEN killed \cup {s} ELSE killed
  /\ Turns("kill", at.n - 1)
  /\ UNCHANGED <<stop, children, helpers, termed, recycled, struck>>
  /\ UNCHANGED Options /\ UNCHANGED Found

\* SIGKILL to the groups whose leader still runs, and wait for it.
Kill ==
  /\ at.task = "kill" /\ at.n > 0
  /\ LET s == children[at.n] IN
     /\ leader' = [leader EXCEPT ![s] = "reaped"]
     /\ IF leader[s] = "running"
        THEN killed' = killed \cup {s} /\ helpers' = [helpers EXCEPT ![s] = "none"]
        ELSE UNCHANGED <<killed, helpers>>
  /\ Turns("kill", at.n - 1)
  /\ UNCHANGED <<stop, children, termed, recycled, struck>>
  /\ UNCHANGED Options /\ UNCHANGED Found

Over == at = [task |-> "kill", n |-> 0]

-----------------------------------------------------------------------------
(* The processes and the host. *)

LeaderExits(s) ==
  /\ leader[s] = "running"
  /\ leader' = [leader EXCEPT ![s] = "zombie"]
  /\ UNCHANGED <<at, stop, children, helpers, termed, killed, recycled, struck>>
  /\ UNCHANGED Options /\ UNCHANGED Found

HelpersExit(s) ==
  /\ helpers[s] = "mild"
  /\ helpers' = [helpers EXCEPT ![s] = "none"]
  /\ UNCHANGED <<at, stop, children, leader, termed, killed, recycled, struck>>
  /\ UNCHANGED Options /\ UNCHANGED Found

\* A number is free when its process is reaped and its group empty.
Recycle(s) ==
  /\ leader[s] = "reaped" /\ helpers[s] = "none" /\ s \notin recycled
  /\ recycled' = recycled \cup {s}
  /\ UNCHANGED <<at, stop, children, leader, helpers, termed, killed, struck>>
  /\ UNCHANGED Options /\ UNCHANGED Found

\* SIGINT or SIGTERM.
Signal ==
  /\ ~stop /\ ~Over
  /\ stop' = TRUE
  /\ UNCHANGED at /\ UNCHANGED Options /\ UNCHANGED Found /\ UNCHANGED Groups

LauncherInit ==
  /\ mode \in [{"x", "dbus", "audio"} -> {"auto", "yes", "no"}]
  /\ \A k \in {"x", "dbus", "audio"} : mode[k] \in OptionModes[k]
  /\ bare \in BOOLEAN
  /\ stop = FALSE
  /\ at = [task |-> "x", n |-> 1]
  /\ env = [k \in {"x", "dbus", "audio"} |-> "inherited"]
  /\ answered = [k \in {"x", "dbus", "audio"} |-> {}]
  /\ children = <<>>
  /\ leader = [s \in Services |-> "none"] /\ helpers = [s \in Services |-> "none"]
  /\ termed = {} /\ killed = {} /\ recycled = {} /\ struck = {}

Run ==
  \/ \E i \in DOMAIN Kinds : PassOver(i) \/ ProbeHost(i) \/ NoSuchPlace(i) \/ StartPrivate(i)
  \/ StartFails \/ EnsureAlive \/ BecomesReady \/ NeverReady
  \/ StartDesktop \/ StartServer \/ SeeStop
  \/ Terminate \/ Poll \/ Deadline \/ Kill

LauncherNext ==
  \/ Run
  \/ Signal
  \/ \E s \in Services : LeaderExits(s) \/ HelpersExit(s) \/ Recycle(s)

LauncherSpec == LauncherInit /\ [][LauncherNext]_launcherVars

\* The launcher is scheduled.
LauncherFairness == WF_launcherVars(Run)

-----------------------------------------------------------------------------
(* Properties. *)

\* The state has its shape.
LauncherTypeOK ==
  /\ at.task \in {"x", "dbus", "audio", "wait", "desktop", "server", "watch", "terminate", "kill"}
  /\ at.n \in 0..5
  /\ env \in [{"x", "dbus", "audio"} -> Endpoints]
  /\ answered \in [{"x", "dbus", "audio"} -> SUBSET Endpoints]
  /\ children \in Seq(Services)
  /\ leader \in [Services -> {"none", "running", "zombie", "reaped"}]
  /\ helpers \in [Services -> {"none", "mild", "deaf"}]
  /\ \A S \in {termed, killed, recycled, struck} : S \subseteq Services
  /\ stop \in BOOLEAN /\ bare \in BOOLEAN

\* The desktop and the server are told places that have answered, however many were
\* tried in vain before.
ServerIsServed ==
  leader["server"] # "none" =>
    \A k \in {"x", "dbus", "audio"} : Unnamed(k) \/ env[k] \in answered[k]

\* When the launcher is gone no child is left, and nobody of its group who was not
\* told to end.  Who is deaf to that is left only where the leader ended before it
\* would have been killed.
NothingLeftBehind ==
  Over => \A s \in Services :
    /\ leader[s] \in {"none", "reaped"}
    /\ helpers[s] # "none" => s \in termed /\ s \notin killed

\* What doc/portable.md says: only owned process groups are terminated.
OnlyOwnGroups == struck = {}

\* A signal, or the exit of any child, ends the launcher.
LauncherEnds == stop \/ (\E s \in Services : leader[s] = "zombie") ~> Over
=============================================================================
