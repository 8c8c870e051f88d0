----------------------------- MODULE SettingsSync -----------------------------
(***************************************************************************)
(* How the stream settings get about (web/app.js, from                     *)
(* streamReconnectSettingsKey to maybeScheduleSettingsReconnect, and       *)
(* connect).  A page asks for what its controls show, in the URL of its    *)
(* sockets and in no other way.  The server runs what was asked for last,  *)
(* and says so to everybody in a hello.  A page that hears of settings     *)
(* other than its own takes them over, and reconnects with them.           *)
(*                                                                         *)
(* An acquire of a hub is one step here; CaptureHub has its parts.         *)
(***************************************************************************)
EXTENDS Naturals, Sequences, FiniteSets

CONSTANTS
  Browsers,
  MaxConns,     \* bound of the model: connections at a time, the sockets of one connect() each
  Values,       \* of each medium: what the controls may show
  Broken,       \* values whose encoder does not start
  Cpu,          \*   and what runs in their place,
  CpuShown,     \*   which the controls show as this
  Stored,       \* settings the browsers come with
  Combined,     \* one session for all media (WebRTC media), or one for each
  MaxEvents,    \* bound of the model: changes by users and connections lost
  MaxInbox,     \* bound of the model: hellos on their way in a socket
  Unset

Media    == {"video", "audio"}
Settings == [Media -> UNION {Values[m] : m \in Media}]

\* What the controls can show.
Selectable == {s \in Settings : \A m \in Media : s[m] \in Values[m]}

Conns == 1 .. MaxConns

\* The sessions of a connection that send hellos.
Lanes == IF Combined THEN {"all"} ELSE {"control", "video", "audio"}

\* What the server keeps of a connection.
Connected == [asked : Selectable, cut : BOOLEAN, lease : [Media -> {"wanted", "held", "left"}],
              unseen : SUBSET Lanes]

\* A capture that could not run as it was asked for runs on the CPU.
HubStates == [config : {Cpu} \cup UNION {Values[m] : m \in Media}, fallback : BOOLEAN]

\* The CPU's encoder starts, and no encoder of a sound is broken.
ASSUME SyncAssumption ==
  /\ Values \in [Media -> SUBSET UNION {Values[m] : m \in Media}]
  /\ Broken \subseteq Values["video"] \ Values["audio"]
  /\ CpuShown \in Values["video"] \ Broken /\ \A m \in Media : Cpu \notin Values[m]
  /\ Browsers # {} /\ Stored \subseteq Selectable
  /\ Combined \in BOOLEAN /\ MaxEvents \in Nat /\ MaxConns \in Nat /\ MaxInbox \in Nat \ {0}
  /\ Unset \notin Nat \cup Selectable \cup Connected \cup HubStates \cup UNION {Values[m] : m \in Media}

VARIABLES
  tab,      \* the page in each browser
  conn,     \* each connection, Unset or its sessions at the server
  inbox,    \* the hellos on their way in each of its sockets
  capture,  \* what each hub runs, Unset or its state
  happened,
  picked    \* what a user picked last, if all was settled then; otherwise Unset

syncVars == <<tab, conn, inbox, capture, happened, picked>>

\* Nothing is under way.
Quiet ==
  /\ \A b \in Browsers : tab[b].at = "open" /\ ~tab[b].recent /\ ~tab[b].timer
  /\ \A c \in Conns : conn[c] # Unset =>
       /\ ~conn[c].cut /\ conn[c].unseen = {}
       /\ \A m \in Media : conn[c].lease[m] = "held"
       /\ \A l \in Lanes : inbox[c][l] = <<>>

\* What the controls can show of what runs.
Shown(state) == IF state = Unset THEN Unset ELSE IF state.config = Cpu THEN CpuShown ELSE state.config
Running      == [m \in Media |-> Shown(capture[m])]
Agreed       == \A b \in Browsers : tab[b].shows = Running
\* The pages know it too.
Known        == \A b \in Browsers : tab[b].applied = Running

-----------------------------------------------------------------------------
(* The page. *)

NewPage(s) == [at |-> "waiting", shows |-> s, applied |-> Unset, pending |-> Unset,
             recent |-> FALSE, timer |-> FALSE, uses |-> Unset]

\* Slip: what the page waits for is not forgotten when it is there.
MarkedStillPending(page, s) == [page EXCEPT !.applied = s]

\* markAppliedStreamSettings
Marked(page, s) == [page EXCEPT !.applied = s, !.pending = IF @ = s THEN Unset ELSE @]

\* syncPendingStreamSettings, then maybeScheduleSettingsReconnect.
Edited(page, s) ==
  LET same == s = page.applied
  IN  [page EXCEPT !.shows = s,
                   !.pending = IF same THEN Unset ELSE s,
                   !.recent = @ \/ ~same,
                   !.timer = page.at = "open" /\ page.applied # Unset /\ ~same]

\* closeConnection; the page connects again after a while.
Closed(page) == [page EXCEPT !.at = "waiting", !.timer = FALSE, !.uses = Unset]
Cut(c) ==
  /\ conn' = [conn EXCEPT ![c].cut = TRUE, ![c].unseen = {}]
  /\ inbox' = [inbox EXCEPT ![c] = [l \in Lanes |-> <<>>]]

\* reconnectWithCurrentStreamSettings
Reconnects(b, page) ==
  /\ tab' = [tab EXCEPT ![b] = Closed([page EXCEPT !.pending = page.shows])]
  /\ Cut(page.uses)

Page(b, page) == tab' = [tab EXCEPT ![b] = page]

\* A user changes the controls.
Edit(b, s) ==
  /\ happened < MaxEvents
  /\ happened' = happened + 1 /\ picked' = IF Quiet /\ Agreed /\ Known THEN s ELSE Unset
  /\ Page(b, Edited(tab[b], s))
  /\ UNCHANGED <<conn, inbox, capture>>

\* SETTINGS_RECONNECT_DELAY_MS after the last change.
Expire(b) ==
  /\ tab[b].recent
  /\ Page(b, [tab[b] EXCEPT !.recent = FALSE])
  /\ UNCHANGED <<conn, inbox, capture, happened, picked>>

\* settingsReconnectTimer, which was set at that change.
TimerFires(b) ==
  LET page == [tab[b] EXCEPT !.timer = FALSE]
  IN
  /\ tab[b].timer /\ ~tab[b].recent
  /\ IF page.shows = page.applied
     THEN Page(b, page) /\ UNCHANGED <<conn, inbox>>
     ELSE Reconnects(b, page)
  /\ UNCHANGED <<capture, happened, picked>>

\* connect(), which reads the controls and opens the sockets.
Connects(b) ==
  \E c \in Conns :
  /\ tab[b].at = "waiting"
  /\ conn[c] = Unset /\ \A d \in 1 .. c - 1 : conn[d] # Unset
  /\ Page(b, [tab[b] EXCEPT !.at = "opening", !.uses = c])
  /\ conn' = [conn EXCEPT ![c] = [asked |-> tab[b].shows, cut |-> FALSE,
                                  lease |-> [m \in Media |-> "wanted"],
                                  unseen |-> Lanes \cap {"control"}]]
  /\ UNCHANGED <<inbox, capture, happened, picked>>

\* All sockets are open.  maybeScheduleSettingsReconnect, which follows, does
\* nothing while state.connecting holds, and it holds.
Opened(b) ==
  /\ tab[b].at = "opening"
  /\ Page(b, Marked([tab[b] EXCEPT !.at = "open"], conn[tab[b].uses].asked))
  /\ UNCHANGED <<conn, inbox, capture, happened, picked>>

\* handleRoleSocketClose, and the catch of connect().  The network, or forward_frames,
\* which ends the session when it finds no capture while that is being replaced.
Lost(b) ==
  /\ tab[b].uses # Unset /\ happened < MaxEvents
  /\ happened' = happened + 1 /\ picked' = Unset
  /\ Page(b, Closed(tab[b])) /\ Cut(tab[b].uses)
  /\ UNCHANGED capture

\* A hello.  A medium that does not run it does not mention.
Heard(b, hello) == [m \in Media |-> IF hello[m] = Unset THEN tab[b].shows[m] ELSE hello[m]]

\* What force does besides.
Forced(page, hello) ==
  IF hello.force THEN [page EXCEPT !.timer = FALSE, !.pending = Unset, !.recent = FALSE] ELSE page

\* Settings of others that are left alone: the user is about to have other ones, or
\* they are not the ones the page waits for.
Ignored(page, s) == page.recent \/ (page.applied # Unset /\ page.pending \notin {Unset, s})

\* syncServerStreamSettings
Hear(b, l) ==
  LET c     == tab[b].uses
      page  == tab[b]
      hello == Head(inbox[c][l])
      s     == Heard(b, hello)
      taken == Marked([Forced(page, hello) EXCEPT !.shows = s], s)
      rest  == inbox' = [inbox EXCEPT ![c][l] = Tail(@)] /\ UNCHANGED conn
  IN
  /\ c # Unset /\ inbox[c][l] # <<>>
  /\ \/ s = page.shows /\ Page(b, Forced(Marked(page, s), hello)) /\ rest
     \/ s # page.shows /\ ~hello.force /\ Ignored(page, s) /\ UNCHANGED tab /\ rest
     \/ s # page.shows /\ ~hello.force /\ ~page.recent /\ page.applied = Unset
        /\ Page(b, Marked(page, s)) /\ rest
     \/ /\ s # page.shows /\ (hello.force \/ (~Ignored(page, s) /\ page.applied # Unset))
        /\ IF page.at = "open" THEN Reconnects(b, taken) ELSE Page(b, taken) /\ rest
  /\ UNCHANGED <<capture, happened, picked>>

-----------------------------------------------------------------------------
(* The server. *)

Runs(m, want) ==
  IF want \in Broken THEN [config |-> Cpu, fallback |-> TRUE] ELSE [config |-> want, fallback |-> FALSE]

\* The sessions that watch what runs.  One for all media does when it has both.
Watching(k) ==
  IF k = Unset \/ k.cut THEN {}
  ELSE {l \in Lanes : \/ l = "control"
                      \/ l = "video" /\ k.lease.video = "held"
                      \/ l = "all" /\ \A m \in Media : k.lease[m] = "held"}

\* acquire of a hub, ensure_active and the first hello of the session to come.  The session
\* that has both media takes the audio second.  A socket that is gone is noticed later.
Acquire(c, m) ==
  LET k     == conn[c]
      held  == [k EXCEPT !.lease[m] = "held"]
      other == ~(capture[m] # Unset /\ capture[m].config = k.asked[m])
      first == IF k.cut THEN {} ELSE Lanes \cap ({m} \cup {"all" : x \in {m} \cap {"audio"}})
  IN
  /\ k # Unset /\ k.lease[m] = "wanted"
  /\ Combined /\ m = "audio" => k.lease["video"] = "held"
  /\ capture' = IF other THEN [capture EXCEPT ![m] = Runs(m, k.asked[m])] ELSE capture
  /\ conn' = [d \in Conns |->
       LET kd == IF d = c THEN held ELSE conn[d]
           new == (IF other THEN Watching(kd) ELSE {}) \cup (IF d = c THEN first ELSE {})
       IN  IF kd = Unset THEN Unset ELSE [kd EXCEPT !.unseen = @ \cup new]]
  /\ UNCHANGED <<tab, inbox, happened, picked>>

\* send_hello, of what runs now.  Without a video there is nothing to say, and the audio
\* session does not wait for one.
Tell(c, l) ==
  /\ conn[c] # Unset /\ l \in conn[c].unseen
  /\ IF capture.video = Unset
     THEN l = "audio" /\ UNCHANGED inbox
     ELSE /\ Len(inbox[c][l]) < MaxInbox
          /\ inbox' = [inbox EXCEPT ![c][l] = Append(@, [video |-> Running.video, audio |-> Running.audio,
                                                         force |-> capture.video.fallback])]
  /\ conn' = [conn EXCEPT ![c].unseen = @ \ {l}]
  /\ UNCHANGED <<tab, capture, happened, picked>>

\* The session is over, and with the last lease the capture.
Leaves(c, m) ==
  /\ conn[c] # Unset /\ conn[c].cut /\ conn[c].lease[m] = "held"
  /\ Combined => conn[c].lease["audio"] # "wanted"
  /\ LET left == [conn[c] EXCEPT !.lease[m] = "left"]
     IN  conn' = [conn EXCEPT ![c] = IF \A n \in Media : left.lease[n] = "left" THEN Unset ELSE left]
  /\ IF \E d \in Conns \ {c} : conn[d] # Unset /\ conn[d].lease[m] = "held"
     THEN UNCHANGED capture
     ELSE capture' = [capture EXCEPT ![m] = Unset]
  /\ UNCHANGED <<tab, inbox, happened, picked>>

-----------------------------------------------------------------------------

SyncInit ==
  /\ tab \in [Browsers -> {NewPage(s) : s \in Stored}]
  /\ conn = [c \in Conns |-> Unset]
  /\ inbox = [c \in Conns |-> [l \in Lanes |-> <<>>]]
  /\ capture = [m \in Media |-> Unset]
  /\ happened = 0 /\ picked = Unset

SyncNext ==
  \/ \E b \in Browsers :
       \/ \E s \in Selectable : Edit(b, s)
       \/ Expire(b) \/ TimerFires(b) \/ Connects(b) \/ Opened(b) \/ Lost(b)
       \/ \E l \in Lanes : Hear(b, l)
  \/ \E c \in Conns :
       \/ \E m \in Media : Acquire(c, m) \/ Leaves(c, m)
       \/ \E l \in Lanes : Tell(c, l)

SyncFairness ==
  /\ \A b \in Browsers :
       /\ WF_syncVars(Expire(b)) /\ WF_syncVars(TimerFires(b)) /\ WF_syncVars(Opened(b))
       /\ SF_syncVars(Connects(b))
       /\ \A l \in Lanes : WF_syncVars(Hear(b, l))
  /\ \A c \in Conns :
       /\ \A m \in Media : WF_syncVars(Acquire(c, m)) /\ WF_syncVars(Leaves(c, m))
       /\ \A l \in Lanes : WF_syncVars(Tell(c, l))

SyncSpec == SyncInit /\ [][SyncNext]_syncVars /\ SyncFairness

-----------------------------------------------------------------------------
(* Properties. *)

Pages == [at : {"waiting", "opening", "open"}, shows : Selectable, applied : Selectable \cup {Unset},
          pending : Selectable \cup {Unset}, recent : BOOLEAN, timer : BOOLEAN, uses : Conns \cup {Unset}]

Hellos == [video : Values["video"], audio : Values["audio"] \cup {Unset}, force : BOOLEAN]

\* The state has its shape.
SyncTypeOK ==
  /\ tab \in [Browsers -> Pages]
  /\ conn \in [Conns -> Connected \cup {Unset}]
  /\ inbox \in [Conns -> [Lanes -> Seq(Hellos)]]
  /\ capture \in [Media -> HubStates \cup {Unset}]
  /\ \A m \in Media : capture[m] \in {Unset} \cup {Runs(m, v) : v \in Values[m]}
  /\ happened \in 0..MaxEvents /\ picked \in Selectable \cup {Unset}

Instead(s) == [s EXCEPT !["video"] = IF @ \in Broken THEN CpuShown ELSE @]

\* A change of the settings, made when all pages showed what ran and nothing was under
\* way, is what runs when nothing is under way again, or its fallback (README.md:82,
\* "Applying stream setting changes globally").  Not so where each medium has a session
\* of its own: the hello of the control or the audio session may tell of what ran before,
\* and the page, which has forgotten by then what it waits for, goes back to it.
LastPickRuns == Quiet /\ picked # Unset => Running = Instead(picked)

\* And all pages show it, but for a fallback (see below).
LastPickShown == Quiet /\ picked # Unset /\ picked["video"] \notin Broken => Agreed

\* The pages and the server come to an agreement: nobody reconnects for ever, and the
\* last change of a settled state is what runs and what all of them show.  app.js:1088
\* guards against one way to "reconnect forever".  Where one session has all media, one
\* medium is changed at a time, and no connection is lost after the change.  An encoder
\* that does not start may stay on the page that picked it: when another page has asked
\* for the fallback before the hello was there, it no longer comes with force.
Settles == <>[](Quiet /\ LastPickRuns /\ LastPickShown)
=============================================================================
