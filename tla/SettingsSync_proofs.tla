------------------------- MODULE SettingsSync_proofs -------------------------
(***************************************************************************)
(* What is proved of SettingsSync for any browsers, connections, values    *)
(* and events: its shape, and, where one session has all media and one     *)
(* medium is changed at a time, that what a user picks is what runs in the *)
(* end, and what all pages show.                                           *)
(***************************************************************************)
EXTENDS SettingsSync, SequenceTheorems, TLAPS

-----------------------------------------------------------------------------
(* Settings, and what runs of them. *)

\* Connections are numbers, and Unset is none.
LEMMA ConnsAre == Conns \subseteq Nat /\ Unset \notin Conns
BY SyncAssumption DEF Conns

\* Settings have a value for each medium.
LEMMA SelectableHas ==
  ASSUME NEW s \in Selectable
  PROVE  /\ s = [m \in Media |-> s[m]] /\ s # Unset
         /\ \A m \in Media : s[m] \in Values[m] /\ s[m] # Unset /\ s[m] # Cpu
<1>1. s \in Settings /\ \A m \in Media : s[m] \in Values[m]
  BY DEF Selectable
<1>2. s # Unset /\ \A m \in Media : s[m] # Unset /\ s[m] # Cpu
  BY <1>1, SyncAssumption
<1> QED
  BY <1>1, <1>2 DEF Settings

\* And whatever has, are settings.
LEMMA SelectableMade ==
  ASSUME NEW f, f = [m \in Media |-> f[m]], \A m \in Media : f[m] \in Values[m]
  PROVE  f \in Selectable
BY DEF Selectable, Settings

\* Settings that agree on both media are the same.
LEMMA SelectableSame ==
  ASSUME NEW s \in Selectable, NEW t \in Selectable, \A m \in Media : s[m] = t[m]
  PROVE  s = t
BY SelectableHas

\* What a hub runs when it is asked for v, and how the controls show it.
LEMMA RunsIs ==
  ASSUME NEW m \in Media, NEW v \in Values[m]
  PROVE  /\ Runs(m, v) \in HubStates /\ Runs(m, v) # Unset
         /\ Runs(m, v).config = IF v \in Broken THEN Cpu ELSE v
         /\ Shown(Runs(m, v)) = IF v \in Broken THEN CpuShown ELSE v
         /\ v \in Broken => m = "video"
         /\ Shown(Runs(m, v)) \in Values[m] \ Broken
<1>1. v \in Broken => m = "video"
  BY SyncAssumption DEF Media
<1>2. v # Cpu /\ CpuShown \in Values["video"] \ Broken
  BY SyncAssumption
<1>3. Runs(m, v) \in HubStates
  BY DEF Runs, HubStates
<1>4. Runs(m, v) # Unset
  BY <1>3, SyncAssumption
<1>5. Runs(m, v).config = IF v \in Broken THEN Cpu ELSE v
  BY DEF Runs
<1>6. CASE v \in Broken
  <2>1. Shown(Runs(m, v)) = CpuShown
    BY <1>4, <1>5, <1>6 DEF Shown
  <2>2. CpuShown \in Values[m] \ Broken
    BY <1>1, <1>2, <1>6
  <2> QED
    BY <1>1, <1>3, <1>4, <1>5, <1>6, <2>1, <2>2
<1>7. CASE v \notin Broken
  <2>1. Shown(Runs(m, v)) = v
    BY <1>2, <1>4, <1>5, <1>7 DEF Shown
  <2> QED
    BY <1>1, <1>3, <1>4, <1>5, <1>7, <2>1
<1> QED
  BY <1>6, <1>7

\* What is shown of a hub: one of its values, which works.
LEMMA ShownIs ==
  ASSUME SyncTypeOK, NEW m \in Media
  PROVE  /\ Running[m] = Shown(capture[m])
         /\ capture[m] = Unset => Running[m] = Unset
         /\ capture[m] # Unset => Running[m] \in Values[m] \ Broken /\ Running[m] # Unset
         /\ \A v \in Values[m] : capture[m] # Unset /\ capture[m].config = v => Running[m] = v
<1>1. Running[m] = Shown(capture[m])
  BY DEF Running
<1>2. capture[m] = Unset \/ \E v \in Values[m] : capture[m] = Runs(m, v)
  BY DEF SyncTypeOK
<1>3. CASE capture[m] = Unset
  BY <1>1, <1>3 DEF Shown
<1>4. ASSUME NEW v \in Values[m], capture[m] = Runs(m, v)
      PROVE  /\ capture[m] # Unset /\ Running[m] \in Values[m] \ Broken /\ Running[m] # Unset
             /\ \A w \in Values[m] : capture[m].config = w => Running[m] = w
  <2>1. \A w \in Values[m] : w # Cpu /\ w # Unset
    BY SyncAssumption
  <2> QED
    BY <1>1, <1>4, <2>1, RunsIs
<1> QED
  BY <1>1, <1>2, <1>3, <1>4

\* Instead of an encoder that does not start: what is picked runs so.
LEMMA InsteadIs ==
  ASSUME NEW s \in Selectable
  PROVE  /\ Instead(s) \in Selectable
         /\ \A m \in Media : /\ Instead(s)[m] = IF s[m] \in Broken THEN CpuShown ELSE s[m]
                             /\ Shown(Runs(m, s[m])) = Instead(s)[m]
                             /\ Shown(Runs(m, Instead(s)[m])) = Instead(s)[m]
<1>1. s = [m \in Media |-> s[m]] /\ \A m \in Media : s[m] \in Values[m]
  BY SelectableHas
<1>2. /\ Instead(s) = [m \in Media |-> Instead(s)[m]]
      /\ Instead(s)["video"] = IF s["video"] \in Broken THEN CpuShown ELSE s["video"]
      /\ Instead(s)["audio"] = s["audio"]
  BY <1>1 DEF Instead, Media
<1>3. \A m \in Media : Instead(s)[m] = IF s[m] \in Broken THEN CpuShown ELSE s[m]
  BY <1>1, <1>2, RunsIs DEF Media
<1>4. \A m \in Media : Instead(s)[m] \in Values[m] /\ Instead(s)[m] \notin Broken
  BY <1>1, <1>3, RunsIs, SyncAssumption
<1>5. Instead(s) \in Selectable
  BY <1>2, <1>4, SelectableMade
<1> QED
  BY <1>1, <1>3, <1>4, <1>5, RunsIs

-----------------------------------------------------------------------------
(* Pages. *)

\* A page by its parts.
LEMMA PageHas ==
  ASSUME NEW page \in Pages
  PROVE  /\ page.at \in {"waiting", "opening", "open"}
         /\ page.shows \in Selectable
         /\ page.applied \in Selectable \cup {Unset} /\ page.pending \in Selectable \cup {Unset}
         /\ page.recent \in BOOLEAN /\ page.timer \in BOOLEAN
         /\ page.uses \in Conns \cup {Unset}
BY DEF Pages

\* markAppliedStreamSettings touches what is applied and pending.
LEMMA MarkedIs ==
  ASSUME NEW page \in Pages, NEW s \in Selectable
  PROVE  /\ Marked(page, s) \in Pages
         /\ Marked(page, s).applied = s
         /\ Marked(page, s).at = page.at /\ Marked(page, s).shows = page.shows
         /\ Marked(page, s).recent = page.recent /\ Marked(page, s).timer = page.timer
         /\ Marked(page, s).uses = page.uses
BY DEF Marked, Pages

\* What a change does to the page.
LEMMA EditedIs ==
  ASSUME NEW page \in Pages, NEW s \in Selectable
  PROVE  /\ Edited(page, s) \in Pages
         /\ Edited(page, s).at = page.at /\ Edited(page, s).shows = s
         /\ Edited(page, s).applied = page.applied /\ Edited(page, s).uses = page.uses
         /\ Edited(page, s).recent <=> page.recent \/ s # page.applied
         /\ Edited(page, s).timer <=> page.at = "open" /\ page.applied # Unset /\ s # page.applied
<1> DEFINE same    == s = page.applied
           pending == IF same THEN Unset ELSE s
           recent  == page.recent \/ ~same
           timer   == page.at = "open" /\ page.applied # Unset /\ ~same
<1>1. Edited(page, s) = [page EXCEPT !.shows = s, !.pending = pending, !.recent = recent, !.timer = timer]
  BY Zenon DEF Edited
<1>2. recent \in BOOLEAN /\ timer \in BOOLEAN /\ pending \in Selectable \cup {Unset}
  OBVIOUS
<1> HIDE DEF recent, timer, pending
<1>3. /\ Edited(page, s) \in Pages
      /\ Edited(page, s).at = page.at /\ Edited(page, s).shows = s
      /\ Edited(page, s).applied = page.applied /\ Edited(page, s).uses = page.uses
      /\ Edited(page, s).recent = recent /\ Edited(page, s).timer = timer
  BY <1>1, <1>2 DEF Pages
<1> QED
  BY <1>3, Zenon DEF recent, timer

\* A page that has closed its sockets.
LEMMA ClosedIs ==
  ASSUME NEW page \in Pages
  PROVE  /\ Closed(page) \in Pages
         /\ Closed(page).at = "waiting" /\ Closed(page).timer = FALSE /\ Closed(page).uses = Unset
         /\ Closed(page).shows = page.shows
BY DEF Closed, Pages

\* What force leaves alone.
LEMMA ForcedIs ==
  ASSUME NEW page \in Pages, NEW hello
  PROVE  /\ Forced(page, hello) \in Pages
         /\ Forced(page, hello).at = page.at /\ Forced(page, hello).shows = page.shows
         /\ Forced(page, hello).applied = page.applied /\ Forced(page, hello).uses = page.uses
         /\ Forced(page, hello).recent => page.recent
         /\ Forced(page, hello).timer => page.timer
BY DEF Forced, Pages

-----------------------------------------------------------------------------
(* The shape. *)

\* A page has sockets but while it waits, and a connection of its own at the server.
Linked ==
  /\ \A b \in Browsers :
       /\ tab[b].at = "waiting" <=> tab[b].uses = Unset
       /\ tab[b].timer => tab[b].at = "open"
       /\ tab[b].uses # Unset => conn[tab[b].uses] # Unset /\ ~conn[tab[b].uses].cut
  /\ \A a, b \in Browsers : tab[a].uses = tab[b].uses /\ tab[a].uses # Unset => a = b

\* Who holds a lease sees to it that there is a capture.
Held ==
  \A c \in Conns, m \in Media : conn[c] # Unset /\ conn[c].lease[m] = "held" => capture[m] # Unset

\* Nobody tells anything to sockets that are gone.
CutIsDeaf ==
  \A c \in Conns : /\ conn[c] = Unset \/ conn[c].cut => \A l \in Lanes : inbox[c][l] = <<>>
                   /\ conn[c] # Unset /\ conn[c].cut => conn[c].unseen = {}

SyncShape == SyncTypeOK /\ Linked /\ Held /\ CutIsDeaf

\* It begins so.
LEMMA SyncInitIsGood == SyncInit => SyncShape
<1> SUFFICES ASSUME SyncInit PROVE SyncShape
  OBVIOUS
<1>1. \A s \in Stored : NewPage(s) \in Pages
  BY SyncAssumption DEF NewPage, Pages
<1>2. /\ tab \in [Browsers -> Pages]
      /\ \A b \in Browsers : tab[b].at = "waiting" /\ tab[b].uses = Unset /\ tab[b].timer = FALSE
  BY <1>1 DEF SyncInit, NewPage
<1>3. SyncTypeOK
  <2>1. <<>> \in Seq(Hellos)
    OBVIOUS
  <2> QED
    BY <1>2, <2>1, SyncAssumption DEF SyncInit, SyncTypeOK
<1>4. Linked /\ Held /\ CutIsDeaf
  BY <1>2 DEF SyncInit, Linked, Held, CutIsDeaf
<1> QED
  BY <1>3, <1>4 DEF SyncShape

\* The page changes, its connection does not; hellos are only taken.
LEMMA PageStays ==
  ASSUME SyncShape, NEW b \in Browsers, NEW page \in Pages, Page(b, page),
         page.uses = tab[b].uses, page.at = "waiting" <=> tab[b].at = "waiting",
         page.timer => page.at = "open", UNCHANGED <<conn, capture>>,
         inbox' \in [Conns -> [Lanes -> Seq(Hellos)]],
         \A c \in Conns, l \in Lanes : inbox[c][l] = <<>> => inbox'[c][l] = <<>>,
         happened' \in 0..MaxEvents, picked' \in Selectable \cup {Unset}
  PROVE  SyncShape'
<1>1. /\ tab' \in [Browsers -> Pages] /\ tab'[b] = page
      /\ \A a \in Browsers \ {b} : tab'[a] = tab[a]
  BY DEF Page, SyncShape, SyncTypeOK
<1>2. SyncTypeOK'
  BY <1>1 DEF SyncShape, SyncTypeOK
<1>3. Linked'
  <2>1. \A a \in Browsers : tab'[a].uses = tab[a].uses
    BY <1>1
  <2>2. \A a \in Browsers : /\ tab'[a].at = "waiting" <=> tab[a].at = "waiting"
                            /\ tab'[a].timer => tab'[a].at = "open"
    BY <1>1 DEF SyncShape, Linked
  <2> QED
    BY <2>1, <2>2 DEF SyncShape, Linked
<1>4. Held' /\ CutIsDeaf'
  BY DEF SyncShape, Held, CutIsDeaf
<1> QED
  BY <1>2, <1>3, <1>4 DEF SyncShape

\* Sockets that are closed at the server.
LEMMA CutIs ==
  ASSUME SyncTypeOK, NEW c \in Conns, conn[c] # Unset, Cut(c)
  PROVE  /\ conn' \in [Conns -> Connected \cup {Unset}]
         /\ conn'[c] # Unset /\ conn'[c].cut /\ conn'[c].unseen = {}
         /\ conn'[c].asked = conn[c].asked /\ conn'[c].lease = conn[c].lease
         /\ \A d \in Conns \ {c} : conn'[d] = conn[d]
         /\ inbox' \in [Conns -> [Lanes -> Seq(Hellos)]]
         /\ \A l \in Lanes : inbox'[c][l] = <<>>
         /\ \A d \in Conns \ {c} : inbox'[d] = inbox[d]
<1>1. conn[c] \in Connected
  BY DEF SyncTypeOK
<1> DEFINE k == [conn[c] EXCEPT !.cut = TRUE, !.unseen = {}]
<1>2. conn' = [conn EXCEPT ![c] = k]
  BY DEF Cut, SyncTypeOK
<1>3. k \in Connected
  BY <1>1 DEF Connected
<1>6. k # Unset
  BY <1>3, SyncAssumption
<1>4. [l \in Lanes |-> <<>>] \in [Lanes -> Seq(Hellos)]
  OBVIOUS
<1>5. k.cut = TRUE /\ k.unseen = {} /\ k.asked = conn[c].asked /\ k.lease = conn[c].lease
  BY <1>1 DEF Connected
<1> HIDE DEF k
<1> QED
  BY <1>2, <1>3, <1>4, <1>5, <1>6 DEF Cut, SyncTypeOK

\* A page closes its sockets, at both ends.
LEMMA PageCloses ==
  ASSUME SyncShape, NEW b \in Browsers, NEW page \in Pages, Page(b, page),
         page.at = "waiting", page.uses = Unset, page.timer = FALSE,
         tab[b].uses # Unset, Cut(tab[b].uses), UNCHANGED capture,
         happened' \in 0..MaxEvents, picked' \in Selectable \cup {Unset}
  PROVE  SyncShape'
<1> DEFINE c == tab[b].uses
<1>1. /\ tab' \in [Browsers -> Pages] /\ tab'[b] = page
      /\ \A a \in Browsers \ {b} : tab'[a] = tab[a]
  BY DEF Page, SyncShape, SyncTypeOK
<1>2. c \in Conns /\ conn[c] # Unset
  BY PageHas DEF SyncShape, SyncTypeOK, Linked
<1>3. /\ conn' \in [Conns -> Connected \cup {Unset}]
      /\ conn'[c] # Unset /\ conn'[c].cut /\ conn'[c].unseen = {} /\ conn'[c].lease = conn[c].lease
      /\ \A d \in Conns \ {c} : conn'[d] = conn[d]
      /\ inbox' \in [Conns -> [Lanes -> Seq(Hellos)]]
      /\ \A l \in Lanes : inbox'[c][l] = <<>>
      /\ \A d \in Conns \ {c} : inbox'[d] = inbox[d]
  BY <1>2, CutIs DEF SyncShape
<1>4. SyncTypeOK'
  BY <1>1, <1>3 DEF SyncShape, SyncTypeOK
<1>5. Linked'
  <2>1. \A a \in Browsers \ {b} : tab[a].uses \in Conns \cup {Unset} /\ tab[a].uses # c
    BY <1>2, ConnsAre, PageHas DEF SyncShape, SyncTypeOK, Linked
  <2>2. \A a \in Browsers : tab'[a].uses # Unset => a # b /\ conn'[tab'[a].uses] = conn[tab[a].uses]
    BY <1>1, <1>3, <2>1
  <2> QED
    BY <1>1, <2>2 DEF SyncShape, Linked
<1>6. Held'
  BY <1>2, <1>3 DEF SyncShape, Held
<1>7. CutIsDeaf'
  <2>1. /\ conn'[c] = Unset \/ conn'[c].cut => \A l \in Lanes : inbox'[c][l] = <<>>
        /\ conn'[c] # Unset /\ conn'[c].cut => conn'[c].unseen = {}
    BY <1>3
  <2>2. ASSUME NEW d \in Conns \ {c}
        PROVE  /\ conn'[d] = Unset \/ conn'[d].cut => \A l \in Lanes : inbox'[d][l] = <<>>
               /\ conn'[d] # Unset /\ conn'[d].cut => conn'[d].unseen = {}
    BY <1>3, <2>2 DEF SyncShape, CutIsDeaf
  <2> HIDE DEF c
  <2> QED
    BY <2>1, <2>2 DEF CutIsDeaf
<1> QED
  BY <1>4, <1>5, <1>6, <1>7 DEF SyncShape

\* reconnectWithCurrentStreamSettings, of a page that shows what page shows.
LEMMA ReconnectsIs ==
  ASSUME NEW b \in Browsers, NEW page \in Pages, Reconnects(b, page)
  PROVE  /\ Cut(page.uses)
         /\ \E q \in Pages : /\ q.at = "waiting" /\ q.uses = Unset /\ q.timer = FALSE
                             /\ q.shows = page.shows /\ Page(b, q)
<1> DEFINE still == [page EXCEPT !.pending = page.shows]
<1>1. still \in Pages /\ still.shows = page.shows
  BY DEF Pages
<1>2. Page(b, Closed(still)) /\ Cut(page.uses)
  BY DEF Reconnects, Page
<1> HIDE DEF still
<1> QED
  BY <1>1, <1>2, ClosedIs

\* What a page hears: settings that have its own values where nothing is said.
LEMMA HeardIs ==
  ASSUME SyncTypeOK, NEW b \in Browsers, NEW hello \in Hellos
  PROVE  /\ Heard(b, hello) \in Selectable
         /\ \A m \in Media : Heard(b, hello)[m] = IF hello[m] = Unset THEN tab[b].shows[m] ELSE hello[m]
<1>1. Heard(b, hello) = [m \in Media |-> IF hello[m] = Unset THEN tab[b].shows[m] ELSE hello[m]]
  BY DEF Heard
<1>2. tab[b].shows \in Selectable
  BY PageHas DEF SyncTypeOK
<1>3. \A m \in Media : hello[m] \in Values[m] \cup {Unset}
  BY DEF Hellos, Media
<1>4. \A m \in Media : Heard(b, hello)[m] \in Values[m]
  BY <1>1, <1>2, <1>3, SelectableHas
<1> QED
  BY <1>1, <1>4, SelectableMade

\* syncServerStreamSettings: the page shows what it did, or what it has heard, and
\* reconnects in the second case only.
LEMMA HearIs ==
  ASSUME SyncShape, NEW b \in Browsers, NEW l \in Lanes, Hear(b, l)
  PROVE  LET c == tab[b].uses
             s == Heard(b, Head(inbox[c][l]))
         IN  /\ c \in Conns /\ inbox[c][l] # <<>> /\ Head(inbox[c][l]) \in Hellos
             /\ UNCHANGED <<capture, happened, picked>>
             /\ \/ /\ inbox' = [inbox EXCEPT ![c][l] = Tail(@)] /\ UNCHANGED conn
                   /\ \E page \in Pages :
                        /\ page.at = tab[b].at /\ page.uses = c /\ Page(b, page)
                        /\ page.timer => tab[b].timer
                        /\ page.recent => tab[b].recent
                        /\ page.shows \in {tab[b].shows, s}
                \/ /\ s # tab[b].shows /\ Cut(c)
                   /\ \E page \in Pages : /\ page.at = "waiting" /\ page.uses = Unset /\ page.timer = FALSE
                                          /\ page.shows = s /\ Page(b, page)
<1> DEFINE c     == tab[b].uses
           hello == Head(inbox[c][l])
           s     == Heard(b, hello)
           page  == tab[b]
           kept  == Forced(Marked(page, s), hello)
           shown == [Forced(page, hello) EXCEPT !.shows = s]
           taken == Marked(shown, s)
           rest  == inbox' = [inbox EXCEPT ![c][l] = Tail(@)] /\ UNCHANGED conn
<1>1. /\ c # Unset /\ inbox[c][l] # <<>> /\ UNCHANGED <<capture, happened, picked>>
      /\ \/ Page(b, kept) /\ rest
         \/ UNCHANGED tab /\ rest
         \/ Page(b, Marked(page, s)) /\ rest
         \/ s # page.shows /\ IF page.at = "open" THEN Reconnects(b, taken) ELSE Page(b, taken) /\ rest
  BY DEF Hear
<1>2. page \in Pages /\ c \in Conns
  BY <1>1, PageHas DEF SyncShape, SyncTypeOK
<1>3. hello \in Hellos
  BY <1>1, <1>2 DEF SyncShape, SyncTypeOK
<1>4. s \in Selectable
  BY <1>3, HeardIs DEF SyncShape
<1> HIDE DEF s, hello
<1>5. /\ kept \in Pages /\ kept.at = page.at /\ kept.uses = c /\ kept.shows = page.shows
      /\ kept.timer => page.timer
      /\ kept.recent => page.recent
  BY <1>2, <1>4, MarkedIs, ForcedIs
<1>6. /\ shown \in Pages /\ shown.at = page.at /\ shown.uses = c /\ shown.shows = s
      /\ shown.timer => page.timer
      /\ shown.recent => page.recent
  <2> DEFINE q == Forced(page, hello)
  <2>1. /\ q \in Pages /\ q.at = page.at /\ q.uses = c
        /\ q.timer => page.timer
        /\ q.recent => page.recent
    BY <1>2, ForcedIs
  <2> HIDE DEF q
  <2>2. /\ [q EXCEPT !.shows = s] \in Pages
        /\ [q EXCEPT !.shows = s].at = q.at /\ [q EXCEPT !.shows = s].uses = q.uses
        /\ [q EXCEPT !.shows = s].shows = s
        /\ [q EXCEPT !.shows = s].timer = q.timer /\ [q EXCEPT !.shows = s].recent = q.recent
    BY <2>1, <1>4 DEF Pages
  <2> QED
    BY <2>1, <2>2 DEF q
<1> HIDE DEF shown
<1>7. /\ taken \in Pages /\ taken.at = page.at /\ taken.uses = c /\ taken.shows = s
      /\ taken.timer => page.timer
      /\ taken.recent => page.recent
  BY <1>4, <1>6, MarkedIs
<1> HIDE DEF taken, kept
<1>8. UNCHANGED tab => Page(b, page)
  BY DEF Page, SyncShape, SyncTypeOK
<1>9. CASE rest /\ (Page(b, kept) \/ UNCHANGED tab \/ Page(b, Marked(page, s)) \/ Page(b, taken))
  <2>1. \E q \in Pages : /\ q.at = page.at /\ q.uses = c /\ Page(b, q)
                         /\ q.timer => page.timer
                         /\ q.recent => page.recent
                         /\ q.shows \in {page.shows, s}
    BY <1>2, <1>4, <1>5, <1>7, <1>8, <1>9, MarkedIs
  <2> QED
    BY <1>1, <1>2, <1>3, <1>9, <2>1 DEF s, hello
<1>10. CASE s # page.shows /\ Reconnects(b, taken)
  BY <1>1, <1>2, <1>3, <1>7, <1>10, ReconnectsIs DEF s, hello
<1> QED
  BY <1>1, <1>9, <1>10

\* connect(): sockets that ask for what the page shows.
LEMMA ConnectsIs ==
  ASSUME SyncShape, NEW b \in Browsers, Connects(b)
  PROVE  /\ tab[b].at = "waiting" /\ UNCHANGED <<inbox, capture, happened, picked>>
         /\ \E c \in Conns :
              /\ conn[c] = Unset
              /\ \E page \in Pages :
                   /\ page.at = "opening" /\ page.uses = c /\ Page(b, page)
                   /\ page.timer = FALSE /\ page.shows = tab[b].shows
              /\ \E k \in Connected :
                   /\ k.asked = tab[b].shows /\ k.cut = FALSE /\ k.unseen = Lanes \cap {"control"}
                   /\ k.lease = [m \in Media |-> "wanted"]
                   /\ conn' = [conn EXCEPT ![c] = k]
<1>1. PICK c \in Conns :
        /\ tab[b].at = "waiting" /\ conn[c] = Unset
        /\ Page(b, [tab[b] EXCEPT !.at = "opening", !.uses = c])
        /\ conn' = [conn EXCEPT ![c] = [asked |-> tab[b].shows, cut |-> FALSE,
                                        lease |-> [m \in Media |-> "wanted"],
                                        unseen |-> Lanes \cap {"control"}]]
        /\ UNCHANGED <<inbox, capture, happened, picked>>
  BY DEF Connects
<1>2. tab[b] \in Pages /\ tab[b].timer = FALSE
  BY <1>1, PageHas DEF SyncShape, SyncTypeOK, Linked
<1> DEFINE page == [tab[b] EXCEPT !.at = "opening", !.uses = c]
           lease == [m \in Media |-> "wanted"]
           k    == [asked |-> tab[b].shows, cut |-> FALSE, lease |-> lease, unseen |-> Lanes \cap {"control"}]
<1>3. /\ page \in Pages /\ page.at = "opening" /\ page.uses = c /\ page.timer = FALSE
      /\ page.shows = tab[b].shows
  BY <1>2 DEF Pages
<1>4. lease \in [Media -> {"wanted", "held", "left"}]
  OBVIOUS
<1>5. k \in Connected /\ k.asked = tab[b].shows /\ k.cut = FALSE /\ k.unseen = Lanes \cap {"control"}
      /\ k.lease = lease
  <2> HIDE DEF lease
  <2> QED
    BY <1>2, <1>4, PageHas DEF Connected
<1>6. Page(b, page) /\ conn' = [conn EXCEPT ![c] = k]
  BY <1>1
<1> HIDE DEF page, k
<1> QED
  BY <1>1, <1>3, <1>5, <1>6

\* The new connection and the page that has it are in shape.
LEMMA ConnectsIsGood == ASSUME SyncShape, NEW b \in Browsers, Connects(b) PROVE SyncShape'
<1>1. tab[b].at = "waiting" /\ UNCHANGED <<inbox, capture, happened, picked>>
  BY ConnectsIs
<1>2. PICK c \in Conns :
        /\ conn[c] = Unset
        /\ \E page \in Pages :
             /\ page.at = "opening" /\ page.uses = c /\ Page(b, page)
             /\ page.timer = FALSE /\ page.shows = tab[b].shows
        /\ \E k \in Connected :
             /\ k.asked = tab[b].shows /\ k.cut = FALSE /\ k.unseen = Lanes \cap {"control"}
             /\ k.lease = [m \in Media |-> "wanted"]
             /\ conn' = [conn EXCEPT ![c] = k]
  BY ConnectsIs
<1>3. /\ tab' \in [Browsers -> Pages] /\ tab'[b].uses = c /\ tab'[b].at = "opening" /\ ~tab'[b].timer
      /\ \A a \in Browsers \ {b} : tab'[a] = tab[a]
  BY <1>2 DEF Page, SyncShape, SyncTypeOK
<1>4. /\ conn' \in [Conns -> Connected \cup {Unset}] /\ conn'[c] # Unset /\ ~conn'[c].cut
      /\ \A m \in Media : conn'[c].lease[m] # "held"
      /\ \A d \in Conns \ {c} : conn'[d] = conn[d]
  BY <1>2, SyncAssumption DEF SyncShape, SyncTypeOK
<1>5. SyncTypeOK'
  BY <1>1, <1>3, <1>4 DEF SyncShape, SyncTypeOK
<1>6. Linked'
  <2>1. \A a \in Browsers \ {b} : tab[a].uses # Unset => tab[a].uses \in Conns \ {c}
    BY <1>2, PageHas DEF SyncShape, SyncTypeOK, Linked
  <2>2. ASSUME NEW a \in Browsers
        PROVE  /\ tab'[a].at = "waiting" <=> tab'[a].uses = Unset
               /\ tab'[a].timer => tab'[a].at = "open"
               /\ tab'[a].uses # Unset => conn'[tab'[a].uses] # Unset /\ ~conn'[tab'[a].uses].cut
    <3>1. CASE a = b
      BY <1>3, <1>4, <3>1, ConnsAre
    <3>2. CASE a # b
      BY <1>3, <1>4, <2>1, <3>2 DEF SyncShape, Linked
    <3> QED
      BY <3>1, <3>2
  <2>3. \A a, d \in Browsers : tab'[a].uses = tab'[d].uses /\ tab'[a].uses # Unset => a = d
    BY <1>3, <2>1 DEF SyncShape, Linked
  <2> QED
    BY <2>2, <2>3 DEF Linked
<1>7. Held'
  BY <1>1, <1>4 DEF SyncShape, Held
<1>8. CutIsDeaf'
  BY <1>1, <1>4 DEF SyncShape, CutIsDeaf
<1> QED
  BY <1>5, <1>6, <1>7, <1>8 DEF SyncShape

\* ensure_active starts another capture.
Starting(c, m) == ~(capture[m] # Unset /\ capture[m].config = conn[c].asked[m])

\* acquire: what the hub runs then, and who has not seen it.
LEMMA AcquireIs ==
  ASSUME SyncShape, NEW c \in Conns, NEW m \in Media, Acquire(c, m)
  PROVE  /\ conn[c] # Unset /\ conn[c].lease[m] = "wanted"
         /\ Combined /\ m = "audio" => conn[c].lease["video"] = "held"
         /\ UNCHANGED <<tab, inbox, happened, picked>>
         /\ Starting(c, m) => capture'[m] = Runs(m, conn[c].asked[m])
         /\ ~Starting(c, m) => capture'[m] = capture[m]
         /\ \A n \in Media \ {m} : capture'[n] = capture[n]
         /\ capture' \in [Media -> HubStates \cup {Unset}]
         /\ conn' \in [Conns -> Connected \cup {Unset}]
         /\ conn'[c].lease = [conn[c].lease EXCEPT ![m] = "held"]
         /\ \A d \in Conns \ {c} : conn[d] # Unset => conn'[d].lease = conn[d].lease
         /\ \A d \in Conns : conn[d] = Unset <=> conn'[d] = Unset
         /\ \A d \in Conns : conn[d] # Unset =>
              /\ conn'[d].asked = conn[d].asked /\ conn'[d].cut = conn[d].cut
              /\ conn[d].cut => conn'[d].unseen = conn[d].unseen
         /\ \A d \in Conns : conn[d] # Unset =>
              \A l \in conn'[d].unseen :
                \/ l \in conn[d].unseen
                \/ Starting(c, m) /\ l \in Watching([conn[d] EXCEPT !.lease = conn'[d].lease])
                \/ d = c /\ l = m
                \/ d = c /\ l = "all" /\ m = "audio"
<1> DEFINE k     == conn[c]
           held  == [k EXCEPT !.lease[m] = "held"]
           other == ~(capture[m] # Unset /\ capture[m].config = k.asked[m])
           first == IF k.cut THEN {} ELSE Lanes \cap ({m} \cup {"all" : x \in {m} \cap {"audio"}})
           kd(d) == IF d = c THEN held ELSE conn[d]
           new(d) == (IF other THEN Watching(kd(d)) ELSE {}) \cup (IF d = c THEN first ELSE {})
           lease(d) == IF d = c THEN [conn[d].lease EXCEPT ![m] = "held"] ELSE conn[d].lease
<1>1. /\ k # Unset /\ k.lease[m] = "wanted"
      /\ Combined /\ m = "audio" => k.lease["video"] = "held"
      /\ capture' = IF other THEN [capture EXCEPT ![m] = Runs(m, k.asked[m])] ELSE capture
      /\ conn' = [d \in Conns |-> IF kd(d) = Unset THEN Unset ELSE [kd(d) EXCEPT !.unseen = @ \cup new(d)]]
      /\ UNCHANGED <<tab, inbox, happened, picked>>
  BY DEF Acquire
<1>2. k \in Connected /\ \A d \in Conns : conn[d] \in Connected \cup {Unset}
  BY <1>1 DEF SyncShape, SyncTypeOK
<1>3. /\ capture'[m] = IF other THEN Runs(m, k.asked[m]) ELSE capture[m]
      /\ \A n \in Media \ {m} : capture'[n] = capture[n]
      /\ capture' \in [Media -> HubStates \cup {Unset}]
  <2>1. k.asked[m] \in Values[m]
    BY <1>2, SelectableHas DEF Connected
  <2>2. Runs(m, k.asked[m]) \in HubStates
    BY <2>1, RunsIs
  <2> QED
    BY <1>1, <2>2 DEF SyncShape, SyncTypeOK
<1>4. \A d \in Conns : conn[d] # Unset =>
        /\ kd(d) \in Connected /\ kd(d) # Unset
        /\ kd(d).asked = conn[d].asked /\ kd(d).cut = conn[d].cut /\ kd(d).unseen = conn[d].unseen
        /\ kd(d).lease = lease(d)
        /\ kd(d) = [conn[d] EXCEPT !.lease = lease(d)]
  <2>1. ASSUME NEW d \in Conns, conn[d] # Unset, d # c
        PROVE  kd(d) = conn[d] /\ kd(d) = [conn[d] EXCEPT !.lease = conn[d].lease]
    BY <1>2, <2>1 DEF Connected
  <2>2. /\ held \in Connected /\ held.asked = k.asked /\ held.cut = k.cut /\ held.unseen = k.unseen
        /\ held.lease = [k.lease EXCEPT ![m] = "held"]
        /\ held = [k EXCEPT !.lease = [k.lease EXCEPT ![m] = "held"]]
    BY <1>2 DEF Connected
  <2>3. held # Unset
    BY <2>2, SyncAssumption
  <2> HIDE DEF held
  <2> QED
    BY <1>1, <1>2, <2>1, <2>2, <2>3
<1>5. \A d \in Conns : new(d) \subseteq Lanes
  BY DEF Watching
<1>6. \A d \in Conns : conn[d] # Unset =>
        /\ conn[d].cut => new(d) = {}
        /\ \A l \in new(d) :
             \/ other /\ l \in Watching(kd(d))
             \/ d = c /\ l = m
             \/ d = c /\ l = "all" /\ m = "audio"
  <2>1. \A d \in Conns : conn[d] # Unset /\ conn[d].cut => Watching(kd(d)) = {}
    BY <1>4 DEF Watching
  <2>2. \A l \in first : l = m \/ (l = "all" /\ m = "audio")
    OBVIOUS
  <2>3. k.cut => first = {}
    OBVIOUS
  <2>4. \A d \in Conns : \A l \in new(d) : (other /\ l \in Watching(kd(d))) \/ (d = c /\ l \in first)
    <3> HIDE DEF first, kd, other
    <3> QED
      OBVIOUS
  <2> HIDE DEF first, kd, other, new
  <2>5. ASSUME NEW d \in Conns, conn[d] # Unset, conn[d].cut PROVE new(d) = {}
    <3>1. Watching(kd(d)) = {} /\ (d = c => first = {})
      BY <2>1, <2>3, <2>5
    <3> QED
      BY <2>4, <3>1
  <2>6. ASSUME NEW d \in Conns, NEW l \in new(d)
        PROVE  \/ other /\ l \in Watching(kd(d))
               \/ d = c /\ l = m
               \/ d = c /\ l = "all" /\ m = "audio"
    BY <2>2, <2>4
  <2> QED
    BY <2>5, <2>6
<1> HIDE DEF kd, new, other, held
<1>7. ASSUME NEW d \in Conns, conn[d] # Unset
      PROVE  /\ conn'[d] \in Connected
             /\ conn'[d].asked = conn[d].asked /\ conn'[d].cut = conn[d].cut
             /\ conn'[d].lease = lease(d)
             /\ conn'[d].unseen = conn[d].unseen \cup new(d)
  <2> DEFINE q == kd(d)
  <2>1. /\ q \in Connected /\ q # Unset /\ q.unseen = conn[d].unseen
        /\ q.asked = conn[d].asked /\ q.cut = conn[d].cut /\ q.lease = lease(d)
    BY <1>4, <1>7
  <2>2. conn'[d] = [q EXCEPT !.unseen = @ \cup new(d)]
    BY <1>1, <2>1
  <2>3. q.unseen \cup new(d) \subseteq Lanes
    BY <1>5, <2>1 DEF Connected
  <2> HIDE DEF q, lease
  <2>4. /\ [q EXCEPT !.unseen = @ \cup new(d)] \in Connected
        /\ [q EXCEPT !.unseen = @ \cup new(d)].asked = q.asked
        /\ [q EXCEPT !.unseen = @ \cup new(d)].cut = q.cut
        /\ [q EXCEPT !.unseen = @ \cup new(d)].lease = q.lease
        /\ [q EXCEPT !.unseen = @ \cup new(d)].unseen = q.unseen \cup new(d)
    BY <2>1, <2>3 DEF Connected
  <2> QED
    BY <2>1, <2>2, <2>4
<1>8. ASSUME NEW d \in Conns, conn[d] = Unset PROVE conn'[d] = Unset
  BY <1>1, <1>8 DEF kd
<1>9. conn' \in [Conns -> Connected \cup {Unset}]
  BY <1>1, <1>7, <1>8
<1>10. \A d \in Conns : conn[d] # Unset => conn'[d] # Unset
  BY <1>7, SyncAssumption
<1>11. \A d \in Conns : conn[d] # Unset =>
         /\ conn[d].cut => conn'[d].unseen = conn[d].unseen
         /\ \A l \in conn'[d].unseen :
              \/ l \in conn[d].unseen
              \/ other /\ l \in Watching([conn[d] EXCEPT !.lease = conn'[d].lease])
              \/ d = c /\ l = m
              \/ d = c /\ l = "all" /\ m = "audio"
  <2> TAKE d \in Conns
  <2> HAVE conn[d] # Unset
  <2>1. conn'[d].unseen = conn[d].unseen \cup new(d)
    BY <1>7
  <2>2. kd(d) = [conn[d] EXCEPT !.lease = conn'[d].lease]
    <3> HIDE DEF lease
    <3> QED
      BY <1>4, <1>7
  <2> QED
    BY <1>6, <2>1, <2>2
<1> QED
  <2>1. Starting(c, m) <=> other
    BY DEF Starting, other
  <2>2. \A d \in Conns : conn[d] # Unset =>
          \A l \in conn'[d].unseen :
            \/ l \in conn[d].unseen
            \/ Starting(c, m) /\ l \in Watching([conn[d] EXCEPT !.lease = conn'[d].lease])
            \/ d = c /\ l = m
            \/ d = c /\ l = "all" /\ m = "audio"
    BY <1>11, <2>1
  <2>3. /\ conn'[c].lease = [conn[c].lease EXCEPT ![m] = "held"]
        /\ \A d \in Conns \ {c} : conn[d] # Unset => conn'[d].lease = conn[d].lease
    BY <1>1, <1>7
  <2>4. \A d \in Conns : conn[d] # Unset =>
          /\ conn'[d].asked = conn[d].asked /\ conn'[d].cut = conn[d].cut
          /\ conn[d].cut => conn'[d].unseen = conn[d].unseen
    BY <1>7, <1>11
  <2>5. \A d \in Conns : conn[d] = Unset <=> conn'[d] = Unset
    BY <1>8, <1>10
  <2>6. /\ Starting(c, m) => capture'[m] = Runs(m, conn[c].asked[m])
        /\ ~Starting(c, m) => capture'[m] = capture[m]
    BY <1>3, <2>1
  <2> QED
    BY <1>1, <1>3, <1>9, <2>2, <2>3, <2>4, <2>5, <2>6

\* Whoever has acquired has a capture.
LEMMA AcquireIsGood ==
  ASSUME SyncShape, NEW c \in Conns, NEW m \in Media, Acquire(c, m) PROVE SyncShape'
<1>1. /\ conn[c] # Unset /\ UNCHANGED <<tab, inbox, happened, picked>>
      /\ capture' \in [Media -> HubStates \cup {Unset}]
      /\ conn' \in [Conns -> Connected \cup {Unset}]
      /\ conn'[c].lease = [conn[c].lease EXCEPT ![m] = "held"]
      /\ \A n \in Media \ {m} : capture'[n] = capture[n]
  BY AcquireIs
<1>2. /\ \A d \in Conns : conn[d] = Unset <=> conn'[d] = Unset
      /\ \A d \in Conns \ {c} : conn[d] # Unset => conn'[d].lease = conn[d].lease
      /\ \A d \in Conns : conn[d] # Unset =>
           /\ conn'[d].asked = conn[d].asked /\ conn'[d].cut = conn[d].cut
           /\ conn[d].cut => conn'[d].unseen = conn[d].unseen
  BY AcquireIs
<1>3. capture'[m] # Unset /\ \E v \in Values[m] : capture'[m] = Runs(m, v)
  <2>1. conn[c].asked[m] \in Values[m]
    BY <1>1, SelectableHas DEF SyncShape, SyncTypeOK, Connected
  <2>2. /\ Starting(c, m) => capture'[m] = Runs(m, conn[c].asked[m])
        /\ ~Starting(c, m) => capture'[m] = capture[m]
    BY AcquireIs
  <2>3. ~Starting(c, m) => capture[m] # Unset
    BY DEF Starting
  <2> QED
    BY <2>1, <2>2, <2>3, RunsIs DEF SyncShape, SyncTypeOK
<1>4. SyncTypeOK'
  BY <1>1, <1>3 DEF SyncShape, SyncTypeOK
<1>5. Linked'
  BY <1>1, <1>2, PageHas DEF SyncShape, SyncTypeOK, Linked
<1>6. Held'
  <2>1. ASSUME NEW d \in Conns, NEW n \in Media, conn'[d] # Unset, conn'[d].lease[n] = "held"
        PROVE  capture'[n] # Unset
    <3>1. CASE n = m
      BY <1>3, <3>1
    <3>2. CASE n # m
      <4>1. conn[d].lease \in [Media -> {"wanted", "held", "left"}]
        BY <1>2, <2>1 DEF SyncShape, SyncTypeOK, Connected
      <4>2. conn[d].lease[n] = "held"
        BY <1>1, <1>2, <2>1, <3>2, <4>1
      <4> QED
        BY <1>1, <1>2, <2>1, <3>2, <4>2 DEF SyncShape, Held
    <3> QED
      BY <3>1, <3>2
  <2> QED
    BY <2>1 DEF Held
<1>7. CutIsDeaf'
  BY <1>1, <1>2 DEF SyncShape, CutIsDeaf
<1> QED
  BY <1>4, <1>5, <1>6, <1>7 DEF SyncShape

\* send_hello: what runs, to who has not seen it.
LEMMA TellIs ==
  ASSUME SyncShape, NEW c \in Conns, NEW l \in Lanes, Tell(c, l)
  PROVE  /\ conn[c] # Unset /\ l \in conn[c].unseen
         /\ UNCHANGED <<tab, capture, happened, picked>>
         /\ conn' \in [Conns -> Connected \cup {Unset}]
         /\ \A d \in Conns :
              /\ conn[d] = Unset <=> conn'[d] = Unset
              /\ conn[d] # Unset => /\ conn'[d].asked = conn[d].asked /\ conn'[d].cut = conn[d].cut
                                    /\ conn'[d].lease = conn[d].lease
                                    /\ conn'[d].unseen \subseteq conn[d].unseen
         /\ \/ inbox' = inbox
            \/ \E hello \in Hellos : /\ \A m \in Media : hello[m] = Running[m]
                                    /\ inbox' = [inbox EXCEPT ![c][l] = Append(@, hello)]
<1> DEFINE hello == [video |-> Running.video, audio |-> Running.audio, force |-> capture.video.fallback]
           k     == [conn[c] EXCEPT !.unseen = @ \ {l}]
<1>1. /\ conn[c] # Unset /\ l \in conn[c].unseen
      /\ UNCHANGED <<tab, capture, happened, picked>>
      /\ UNCHANGED inbox \/ (capture.video # Unset /\ inbox' = [inbox EXCEPT ![c][l] = Append(@, hello)])
      /\ conn' = [conn EXCEPT ![c] = k]
  BY DEF Tell, SyncShape, SyncTypeOK
<1>2. conn[c] \in Connected
  BY <1>1 DEF SyncShape, SyncTypeOK
<1>3. k \in Connected /\ k.asked = conn[c].asked /\ k.cut = conn[c].cut /\ k.lease = conn[c].lease
      /\ k.unseen = conn[c].unseen \ {l}
  BY <1>2 DEF Connected
<1>4. k # Unset
  BY <1>3, SyncAssumption
<1>5. ASSUME capture.video # Unset PROVE hello \in Hellos /\ \A m \in Media : hello[m] = Running[m]
  <2>1. Running["video"] \in Values["video"] /\ Running["audio"] \in Values["audio"] \cup {Unset}
    BY <1>5, ShownIs DEF SyncShape, Media
  <2>2. capture.video.fallback \in BOOLEAN
    BY <1>5 DEF SyncShape, SyncTypeOK, HubStates, Media
  <2>3. hello \in Hellos
    BY <2>1, <2>2 DEF Hellos
  <2> QED
    BY <2>3 DEF Media
<1> HIDE DEF k, hello
<1>6. /\ conn' \in [Conns -> Connected \cup {Unset}]
      /\ conn'[c] = k /\ \A d \in Conns \ {c} : conn'[d] = conn[d]
  BY <1>1, <1>3 DEF SyncShape, SyncTypeOK
<1> QED
  BY <1>1, <1>3, <1>4, <1>5, <1>6

\* Whom something is told still has his socket.
LEMMA TellIsGood ==
  ASSUME SyncShape, NEW c \in Conns, NEW l \in Lanes, Tell(c, l) PROVE SyncShape'
<1>1. /\ conn[c] # Unset /\ l \in conn[c].unseen
      /\ UNCHANGED <<tab, capture, happened, picked>>
      /\ conn' \in [Conns -> Connected \cup {Unset}]
      /\ \A d \in Conns :
           /\ conn[d] = Unset <=> conn'[d] = Unset
           /\ conn[d] # Unset => /\ conn'[d].asked = conn[d].asked /\ conn'[d].cut = conn[d].cut
                                 /\ conn'[d].lease = conn[d].lease
                                 /\ conn'[d].unseen \subseteq conn[d].unseen
  BY TellIs
<1>2. /\ inbox' \in [Conns -> [Lanes -> Seq(Hellos)]]
      /\ \A d \in Conns \ {c} : inbox'[d] = inbox[d]
  <2>1. inbox' = inbox \/ \E hello \in Hellos : inbox' = [inbox EXCEPT ![c][l] = Append(@, hello)]
    BY TellIs
  <2>2. inbox \in [Conns -> [Lanes -> Seq(Hellos)]]
    BY DEF SyncShape, SyncTypeOK
  <2>3. ASSUME NEW hello \in Hellos, inbox' = [inbox EXCEPT ![c][l] = Append(@, hello)]
        PROVE  inbox' \in [Conns -> [Lanes -> Seq(Hellos)]] /\ \A d \in Conns \ {c} : inbox'[d] = inbox[d]
    <3>1. Append(inbox[c][l], hello) \in Seq(Hellos)
      BY <2>2
    <3> QED
      BY <2>2, <2>3, <3>1
  <2> QED
    BY <2>1, <2>2, <2>3
<1>3. ~conn[c].cut
  BY <1>1 DEF SyncShape, CutIsDeaf
<1>4. SyncTypeOK'
  BY <1>1, <1>2 DEF SyncShape, SyncTypeOK
<1>5. Linked'
  BY <1>1, PageHas DEF SyncShape, SyncTypeOK, Linked
<1>6. Held'
  BY <1>1 DEF SyncShape, Held
<1>7. CutIsDeaf'
  <2>1. ASSUME NEW d \in Conns
        PROVE  /\ conn'[d] = Unset \/ conn'[d].cut => \A j \in Lanes : inbox'[d][j] = <<>>
               /\ conn'[d] # Unset /\ conn'[d].cut => conn'[d].unseen = {}
    <3>1. CASE d = c
      BY <1>1, <1>3, <3>1
    <3>2. CASE d # c
      <4>1. /\ conn[d] = Unset \/ conn[d].cut => \A j \in Lanes : inbox[d][j] = <<>>
            /\ conn[d] # Unset /\ conn[d].cut => conn[d].unseen = {}
        BY DEF SyncShape, CutIsDeaf
      <4>2. conn'[d] # Unset /\ conn'[d].cut => conn'[d].unseen = {}
        BY <1>1, <4>1
      <4>3. inbox'[d] = inbox[d]
        BY <1>2, <3>2
      <4> QED
        BY <1>1, <4>1, <4>2, <4>3
    <3> QED
      BY <3>1, <3>2
  <2> QED
    BY <2>1 DEF CutIsDeaf
<1> QED
  BY <1>4, <1>5, <1>6, <1>7 DEF SyncShape

\* A session that ends.
LEMMA LeavesIs ==
  ASSUME SyncShape, NEW c \in Conns, NEW m \in Media, Leaves(c, m)
  PROVE  /\ conn[c] # Unset /\ conn[c].cut /\ UNCHANGED <<tab, inbox, happened, picked>>
         /\ conn' \in [Conns -> Connected \cup {Unset}]
         /\ \A d \in Conns \ {c} : conn'[d] = conn[d]
         /\ conn'[c] # Unset => /\ conn'[c].asked = conn[c].asked /\ conn'[c].cut
                                /\ conn'[c].unseen = conn[c].unseen
                                /\ conn'[c].lease = [conn[c].lease EXCEPT ![m] = "left"]
         /\ \A n \in Media \ {m} : capture'[n] = capture[n]
         /\ capture'[m] \in {capture[m], Unset}
         /\ capture' \in [Media -> HubStates \cup {Unset}]
         /\ (\E d \in Conns \ {c} : conn[d] # Unset /\ conn[d].lease[m] = "held") => capture' = capture
<1> DEFINE left == [conn[c] EXCEPT !.lease[m] = "left"]
           over == \A n \in Media : left.lease[n] = "left"
<1>1. /\ conn[c] # Unset /\ conn[c].cut /\ UNCHANGED <<tab, inbox, happened, picked>>
      /\ conn' = [conn EXCEPT ![c] = IF over THEN Unset ELSE left]
      /\ IF \E d \in Conns \ {c} : conn[d] # Unset /\ conn[d].lease[m] = "held"
         THEN UNCHANGED capture
         ELSE capture' = [capture EXCEPT ![m] = Unset]
  BY DEF Leaves
<1>2. conn[c] \in Connected
  BY <1>1 DEF SyncShape, SyncTypeOK
<1>3. /\ left \in Connected /\ left.asked = conn[c].asked /\ left.cut = conn[c].cut
      /\ left.unseen = conn[c].unseen /\ left.lease = [conn[c].lease EXCEPT ![m] = "left"]
  BY <1>2 DEF Connected
<1>4. /\ \A n \in Media \ {m} : capture'[n] = capture[n]
      /\ capture'[m] \in {capture[m], Unset}
      /\ capture' \in [Media -> HubStates \cup {Unset}]
  BY <1>1 DEF SyncShape, SyncTypeOK
<1> HIDE DEF left, over
<1>5. /\ conn' \in [Conns -> Connected \cup {Unset}]
      /\ \A d \in Conns \ {c} : conn'[d] = conn[d]
      /\ conn'[c] \in {Unset, left}
  BY <1>1, <1>3 DEF SyncShape, SyncTypeOK
<1> QED
  BY <1>1, <1>3, <1>4, <1>5

\* The last to hold a lease takes the capture with him, and no page's own session ends.
LEMMA LeavesIsGood ==
  ASSUME SyncShape, NEW c \in Conns, NEW m \in Media, Leaves(c, m) PROVE SyncShape'
<1>1. /\ conn[c] # Unset /\ conn[c].cut /\ UNCHANGED <<tab, inbox, happened, picked>>
      /\ conn' \in [Conns -> Connected \cup {Unset}]
      /\ \A d \in Conns \ {c} : conn'[d] = conn[d]
      /\ conn'[c] # Unset => /\ conn'[c].cut /\ conn'[c].unseen = conn[c].unseen
                             /\ conn'[c].lease = [conn[c].lease EXCEPT ![m] = "left"]
  BY LeavesIs
<1>2. /\ \A n \in Media \ {m} : capture'[n] = capture[n]
      /\ capture'[m] \in {capture[m], Unset}
      /\ capture' \in [Media -> HubStates \cup {Unset}]
      /\ (\E d \in Conns \ {c} : conn[d] # Unset /\ conn[d].lease[m] = "held") => capture' = capture
  BY LeavesIs
<1>3. SyncTypeOK'
  BY <1>1, <1>2 DEF SyncShape, SyncTypeOK
<1>4. Linked'
  <2>1. \A b \in Browsers : tab[b].uses # Unset => tab[b].uses \in Conns \ {c}
    BY <1>1, PageHas DEF SyncShape, SyncTypeOK, Linked
  <2> QED
    BY <1>1, <2>1 DEF SyncShape, Linked
<1>5. Held'
  <2>1. ASSUME NEW d \in Conns, NEW n \in Media, conn'[d] # Unset, conn'[d].lease[n] = "held"
        PROVE  capture'[n] # Unset
    <3>1. conn[c].lease \in [Media -> {"wanted", "held", "left"}]
      BY <1>1 DEF SyncShape, SyncTypeOK, Connected
    <3>2. CASE d = c
      <4>1. n # m /\ conn[c].lease[n] = "held"
        BY <1>1, <2>1, <3>1, <3>2
      <4> QED
        BY <1>1, <1>2, <4>1 DEF SyncShape, Held
    <3>3. CASE d # c
      <4>1. conn[d] # Unset /\ conn[d].lease[n] = "held" /\ capture[n] # Unset
        BY <1>1, <2>1, <3>3 DEF SyncShape, Held
      <4> QED
        BY <1>2, <3>3, <4>1
    <3> QED
      BY <3>2, <3>3
  <2> QED
    BY <2>1 DEF Held
<1>6. CutIsDeaf'
  BY <1>1 DEF SyncShape, CutIsDeaf
<1> QED
  BY <1>3, <1>4, <1>5, <1>6 DEF SyncShape

\* Every step keeps the shape.
LEMMA SyncStepIsGood == SyncShape /\ [SyncNext]_syncVars => SyncShape'
<1> SUFFICES ASSUME SyncShape, [SyncNext]_syncVars PROVE SyncShape'
  OBVIOUS
<1>1. /\ \A b \in Browsers : tab[b] \in Pages
      /\ inbox \in [Conns -> [Lanes -> Seq(Hellos)]]
      /\ happened \in 0..MaxEvents /\ picked \in Selectable \cup {Unset}
  BY DEF SyncShape, SyncTypeOK
<1>2. \A b \in Browsers : /\ tab[b].at = "waiting" <=> tab[b].uses = Unset
                          /\ tab[b].timer => tab[b].at = "open"
  BY DEF SyncShape, Linked
<1>3. ASSUME NEW b \in Browsers, NEW s \in Selectable, Edit(b, s) PROVE SyncShape'
  <2>1. /\ happened' \in 0..MaxEvents /\ picked' \in Selectable \cup {Unset}
        /\ Page(b, Edited(tab[b], s)) /\ UNCHANGED <<conn, inbox, capture>>
    BY <1>1, <1>3, SyncAssumption DEF Edit
  <2> DEFINE page == Edited(tab[b], s)
  <2>2. /\ page \in Pages /\ page.uses = tab[b].uses /\ page.at = tab[b].at
        /\ page.timer => page.at = "open"
    BY <1>1, EditedIs
  <2> HIDE DEF page
  <2>3. page.at = "waiting" <=> tab[b].at = "waiting"
    BY <2>2
  <2>4. Page(b, page)
    BY <2>1 DEF page
  <2> QED
    BY <1>1, <2>1, <2>2, <2>3, <2>4, PageStays
<1>4. ASSUME NEW b \in Browsers, Expire(b) PROVE SyncShape'
  <2> DEFINE page == [tab[b] EXCEPT !.recent = FALSE]
  <2>1. /\ page \in Pages /\ page.uses = tab[b].uses /\ page.at = tab[b].at /\ page.timer = tab[b].timer
    BY <1>1 DEF Pages
  <2>2. Page(b, page) /\ UNCHANGED <<conn, inbox, capture, happened, picked>>
    BY <1>4 DEF Expire
  <2> HIDE DEF page
  <2>3. /\ page.at = "waiting" <=> tab[b].at = "waiting"
        /\ page.timer => page.at = "open"
    BY <1>2, <2>1
  <2> QED
    BY <1>1, <2>1, <2>2, <2>3, PageStays
<1>5. ASSUME NEW b \in Browsers, TimerFires(b) PROVE SyncShape'
  <2> DEFINE page == [tab[b] EXCEPT !.timer = FALSE]
  <2>1. page \in Pages /\ page.uses = tab[b].uses /\ page.at = tab[b].at /\ page.timer = FALSE
    BY <1>1 DEF Pages
  <2>2. /\ tab[b].timer /\ UNCHANGED <<capture, happened, picked>>
        /\ (Page(b, page) /\ UNCHANGED <<conn, inbox>>) \/ Reconnects(b, page)
    BY <1>5 DEF TimerFires
  <2> HIDE DEF page
  <2>3. page.at = "waiting" <=> tab[b].at = "waiting"
    BY <2>1
  <2>4. CASE Page(b, page) /\ UNCHANGED <<conn, inbox>>
    BY <1>1, <2>1, <2>2, <2>3, <2>4, PageStays
  <2>5. CASE Reconnects(b, page)
    <3>1. PICK q \in Pages : /\ q.at = "waiting" /\ q.uses = Unset /\ q.timer = FALSE
                             /\ q.shows = page.shows /\ Page(b, q)
      BY <2>1, <2>5, ReconnectsIs
    <3>2. tab[b].uses # Unset
      BY <1>2, <2>2
    <3>3. Cut(tab[b].uses)
      BY <2>1, <2>5, ReconnectsIs
    <3> QED
      BY <1>1, <2>2, <3>1, <3>2, <3>3, PageCloses
  <2> QED
    BY <2>2, <2>4, <2>5
<1>6. ASSUME NEW b \in Browsers, Opened(b) PROVE SyncShape'
  <2> DEFINE open == [tab[b] EXCEPT !.at = "open"]
             asked == conn[tab[b].uses].asked
             page == Marked(open, asked)
  <2>1. open \in Pages /\ open.uses = tab[b].uses /\ open.at = "open" /\ open.timer = tab[b].timer
    BY <1>1 DEF Pages
  <2>2. tab[b].at = "opening" /\ Page(b, page) /\ UNCHANGED <<conn, inbox, capture, happened, picked>>
    BY <1>6 DEF Opened
  <2>3. asked \in Selectable
    <3>1. tab[b].uses \in Conns /\ conn[tab[b].uses] # Unset
      BY <1>1, <1>2, <2>2, PageHas DEF SyncShape, Linked
    <3> QED
      BY <3>1 DEF SyncShape, SyncTypeOK, Connected
  <2> HIDE DEF open, asked
  <2>4. page \in Pages /\ page.uses = tab[b].uses /\ page.at = "open"
    BY <2>1, <2>3, MarkedIs
  <2> HIDE DEF page
  <2>5. /\ page.at = "waiting" <=> tab[b].at = "waiting"
        /\ page.timer => page.at = "open"
    BY <2>2, <2>4
  <2> QED
    BY <1>1, <2>2, <2>4, <2>5, PageStays
<1>7. ASSUME NEW b \in Browsers, Lost(b) PROVE SyncShape'
  <2>1. /\ tab[b].uses # Unset /\ Page(b, Closed(tab[b])) /\ Cut(tab[b].uses) /\ UNCHANGED capture
        /\ happened' \in 0..MaxEvents /\ picked' \in Selectable \cup {Unset}
    BY <1>1, <1>7, SyncAssumption DEF Lost
  <2> QED
    BY <1>1, <2>1, ClosedIs, PageCloses
<1>8. ASSUME NEW b \in Browsers, NEW l \in Lanes, Hear(b, l) PROVE SyncShape'
  <2> DEFINE c == tab[b].uses
             s == Heard(b, Head(inbox[c][l]))
  <2>1. /\ c \in Conns /\ inbox[c][l] # <<>> /\ UNCHANGED <<capture, happened, picked>>
        /\ \/ /\ inbox' = [inbox EXCEPT ![c][l] = Tail(@)] /\ UNCHANGED conn
              /\ \E page \in Pages :
                   /\ page.at = tab[b].at /\ page.uses = c /\ Page(b, page)
                   /\ page.timer => tab[b].timer
                   /\ page.recent => tab[b].recent
                   /\ page.shows \in {tab[b].shows, s}
           \/ /\ s # tab[b].shows /\ Cut(c)
              /\ \E page \in Pages : /\ page.at = "waiting" /\ page.uses = Unset /\ page.timer = FALSE
                                     /\ page.shows = s /\ Page(b, page)
    BY <1>8, HearIs
  <2> HIDE DEF s
  <2>2. CASE /\ inbox' = [inbox EXCEPT ![c][l] = Tail(@)] /\ UNCHANGED conn
             /\ \E page \in Pages :
                  /\ page.at = tab[b].at /\ page.uses = c /\ Page(b, page)
                  /\ page.timer => tab[b].timer
                  /\ page.recent => tab[b].recent
                  /\ page.shows \in {tab[b].shows, s}
    <3>1. PICK page \in Pages :
                  /\ page.at = tab[b].at /\ page.uses = c /\ Page(b, page)
                  /\ page.timer => tab[b].timer
                  /\ page.recent => tab[b].recent
                  /\ page.shows \in {tab[b].shows, s}
      BY <2>2
    <3>2. Tail(inbox[c][l]) \in Seq(Hellos)
      BY <1>1, <2>1
    <3>3. /\ inbox' \in [Conns -> [Lanes -> Seq(Hellos)]]
          /\ \A d \in Conns, j \in Lanes : inbox[d][j] = <<>> => inbox'[d][j] = <<>>
      BY <1>1, <2>1, <2>2, <3>2
    <3>4. /\ page.at = "waiting" <=> tab[b].at = "waiting"
          /\ page.timer => page.at = "open"
      BY <1>2, <3>1
    <3> QED
      BY <1>1, <2>1, <2>2, <3>1, <3>3, <3>4, PageStays
  <2>3. CASE /\ s # tab[b].shows /\ Cut(c)
             /\ \E page \in Pages : /\ page.at = "waiting" /\ page.uses = Unset /\ page.timer = FALSE
                                    /\ page.shows = s /\ Page(b, page)
    BY <1>1, <2>1, <2>3, ConnsAre, PageCloses
  <2> QED
    BY <2>1, <2>2, <2>3
<1>9. CASE UNCHANGED syncVars
  BY <1>9 DEF syncVars, SyncShape, SyncTypeOK, Linked, Held, CutIsDeaf
<1> QED
  BY <1>3, <1>4, <1>5, <1>6, <1>7, <1>8, <1>9, ConnectsIsGood, AcquireIsGood, TellIsGood, LeavesIsGood
     DEF SyncNext

\* The state has its shape (SettingsSync!SyncTypeOK): pages, connections, hellos and
\* captures are what the code keeps, and what runs is what somebody asked for or its fallback.
THEOREM SyncTypeCorrect == SyncSpec => []SyncTypeOK
<1>1. SyncShape => SyncTypeOK
  BY DEF SyncShape
<1> QED
  BY <1>1, SyncInitIsGood, SyncStepIsGood, PTL DEF SyncSpec

-----------------------------------------------------------------------------
(* What a user picks.  One session has all media here.  First the change   *)
(* is on its way, and only its page moves; then all there is to hear, to   *)
(* ask for and to run are the settings picked, or their fallback.          *)

\* The connections that will ask for something yet.
Wanted == {c \in Conns : conn[c] # Unset /\ \E m \in Media : conn[c].lease[m] = "wanted"}

Chosen == {picked, Instead(picked)}

\* A page that takes over what it hears, and that is told what runs.
Listens(b)  == tab[b].at = "open" /\ tab[b].applied # Unset /\ tab[b].pending = Unset
WillHear(b) == Listens(b) /\ \A m \in Media : conn[tab[b].uses].lease[m] = "held"

\* The change of medium n is on its way from b to its hub.
Starts(b, n) ==
  /\ tab[b].shows = picked
  /\ \A a \in Browsers \ {b} : tab[a].at = "open" /\ ~tab[a].recent /\ ~tab[a].timer
  /\ \A a \in Browsers \ {b} : WillHear(a)
  /\ \A c \in Conns : /\ \A l \in Lanes : inbox[c][l] = <<>>
                      /\ conn[c] # Unset => conn[c].unseen = {}
  /\ capture[n] # Unset => capture[n].config # picked[n]
  /\ \A m \in Media \ {n} : /\ picked[m] \notin Broken
                            /\ capture[m] # Unset => capture[m].config = picked[m]
  /\ \/ tab[b].at = "open" /\ tab[b].timer /\ tab[b].applied # picked /\ Wanted = {}
     \/ tab[b].at = "waiting" /\ Wanted = {}
     \/ /\ tab[b].uses # Unset /\ Wanted = {tab[b].uses} /\ conn[tab[b].uses].asked = picked
        /\ ~tab[b].timer /\ conn[tab[b].uses].lease[n] = "wanted"

\* The change has arrived: nothing else runs, is told, is asked for or is about to be.
RunsChosen  == \A m \in Media : Running[m] \in {Instead(picked)[m], Unset}
TellsChosen == \A c \in Conns, l \in Lanes : \A i \in DOMAIN inbox[c][l] :
                 \A m \in Media : inbox[c][l][i][m] = Instead(picked)[m]
AsksChosen  == \A c \in Wanted : conn[c].asked \in Chosen
ShowsChosen == \A b \in Browsers :
                 tab[b].at = "waiting" \/ tab[b].recent \/ tab[b].timer => tab[b].shows \in Chosen

Spread == RunsChosen /\ TellsChosen /\ AsksChosen /\ ShowsChosen

\* A page that does not show it yet is about to hear of it.
IsTold(b) == \/ conn[tab[b].uses].unseen # {}
             \/ \E l \in Lanes : inbox[tab[b].uses][l] # <<>>
Learns    == picked["video"] \notin Broken =>
               \A b \in Browsers : tab[b].shows = picked \/ (Listens(b) /\ IsTold(b))

Follows == picked # Unset => (Spread /\ Learns) \/ \E b \in Browsers, n \in Media : Starts(b, n)

\* What a page waits for is what it shows, and has not been applied.
Pending ==
  \A b \in Browsers :
    /\ tab[b].pending \in {Unset, tab[b].shows}
    /\ tab[b].at = "open" /\ tab[b].pending # Unset => tab[b].applied # tab[b].shows

\* Only a session that has both media has something to tell.
Whole ==
  \A c \in Conns : conn[c] # Unset /\ conn[c].unseen # {} => \A m \in Media : conn[c].lease[m] = "held"

\* With one session there is one lane, which is not a medium's.
LEMMA OneLane == ASSUME Combined PROVE Lanes = {"all"} /\ Lanes \cap {"control"} = {} /\ \A m \in Media : m \notin Lanes
BY DEF Lanes, Media

\* A timer that fires, or is late.
LEMMA TimerFiresIs ==
  ASSUME SyncShape, NEW b \in Browsers, TimerFires(b)
  PROVE  /\ tab[b].timer /\ tab[b].at = "open" /\ UNCHANGED <<capture, happened, picked>>
         /\ \/ tab[b].shows = tab[b].applied /\ UNCHANGED <<conn, inbox>>
            \/ tab[b].uses \in Conns /\ conn[tab[b].uses] # Unset /\ Cut(tab[b].uses)
         /\ \E page \in Pages :
              /\ Page(b, page) /\ page.shows = tab[b].shows
              /\ \/ tab[b].shows = tab[b].applied /\ page.at = tab[b].at
                 \/ page.at = "waiting"
<1> DEFINE page == [tab[b] EXCEPT !.timer = FALSE]
<1>1. tab[b] \in Pages
  BY DEF SyncShape, SyncTypeOK
<1>2. page \in Pages /\ page.uses = tab[b].uses /\ page.at = tab[b].at /\ page.shows = tab[b].shows
  BY <1>1 DEF Pages
<1>3. /\ tab[b].timer /\ UNCHANGED <<capture, happened, picked>>
      /\ \/ page.shows = page.applied /\ Page(b, page) /\ UNCHANGED <<conn, inbox>>
         \/ Reconnects(b, page)
  BY DEF TimerFires
<1>4. page.applied = tab[b].applied
  BY <1>1 DEF Pages
<1>5. tab[b].at = "open"
  BY <1>3 DEF SyncShape, Linked
<1>6. tab[b].uses \in Conns /\ conn[tab[b].uses] # Unset
  BY <1>1, <1>5, PageHas DEF SyncShape, Linked
<1> HIDE DEF page
<1>7. CASE page.shows = page.applied /\ Page(b, page) /\ UNCHANGED <<conn, inbox>>
  BY <1>2, <1>3, <1>4, <1>5, <1>7
<1>8. CASE Reconnects(b, page)
  <2>1. Cut(page.uses) /\ \E q \in Pages : q.at = "waiting" /\ q.shows = page.shows /\ Page(b, q)
    BY <1>2, <1>8, ReconnectsIs
  <2> QED
    BY <1>2, <1>3, <1>5, <1>6, <2>1
<1> QED
  BY <1>3, <1>7, <1>8

\* A connection that is cut has nothing to tell, and asks for what it did.
LEMMA CutAsks ==
  ASSUME SyncShape, NEW c \in Conns, conn[c] # Unset, Cut(c)
  PROVE  /\ Whole => Whole'
         /\ Wanted' = Wanted /\ \A d \in Wanted : conn'[d].asked = conn[d].asked
<1>1. /\ conn'[c] # Unset /\ conn'[c].unseen = {}
      /\ conn'[c].asked = conn[c].asked /\ conn'[c].lease = conn[c].lease
      /\ \A d \in Conns \ {c} : conn'[d] = conn[d]
  BY CutIs DEF SyncShape
<1>2. \A d \in Conns : /\ conn'[d] # Unset <=> conn[d] # Unset
                       /\ conn[d] # Unset => conn'[d].lease = conn[d].lease /\ conn'[d].asked = conn[d].asked
  BY <1>1
<1>3. Whole => Whole'
  BY <1>1 DEF Whole
<1>4. Wanted' = Wanted
  BY <1>2 DEF Wanted
<1>5. \A d \in Wanted : conn'[d].asked = conn[d].asked
  BY <1>2 DEF Wanted
<1> QED
  BY <1>3, <1>4, <1>5

\* Only a session that has both media is told of what runs.
LEMMA WholeStays == ASSUME Combined, SyncShape, Whole, [SyncNext]_syncVars PROVE Whole'
<1>1. ASSUME UNCHANGED conn PROVE Whole'
  BY <1>1 DEF Whole
<1>2. ASSUME NEW b \in Browsers, TimerFires(b) PROVE Whole'
  <2>1. \/ UNCHANGED conn
        \/ tab[b].uses \in Conns /\ conn[tab[b].uses] # Unset /\ Cut(tab[b].uses)
    BY <1>2, TimerFiresIs
  <2> QED
    BY <1>1, <2>1, CutAsks
<1>3. ASSUME NEW b \in Browsers, Lost(b) PROVE Whole'
  <2>1. tab[b].uses \in Conns /\ conn[tab[b].uses] # Unset /\ Cut(tab[b].uses)
    BY <1>3, PageHas DEF Lost, SyncShape, SyncTypeOK, Linked
  <2> QED
    BY <2>1, CutAsks
<1>4. ASSUME NEW b \in Browsers, NEW l \in Lanes, Hear(b, l) PROVE Whole'
  <2>1. tab[b].uses \in Conns /\ inbox[tab[b].uses][l] # <<>> /\ (UNCHANGED conn \/ Cut(tab[b].uses))
    BY <1>4, HearIs
  <2>2. conn[tab[b].uses] # Unset
    BY <2>1 DEF SyncShape, CutIsDeaf
  <2> QED
    BY <1>1, <2>1, <2>2, CutAsks
<1>5. ASSUME NEW b \in Browsers, Connects(b) PROVE Whole'
  <2>1. PICK c \in Conns :
          /\ conn[c] = Unset
          /\ \E page \in Pages :
               /\ page.at = "opening" /\ page.uses = c /\ Page(b, page)
               /\ page.timer = FALSE /\ page.shows = tab[b].shows
          /\ \E k \in Connected :
               /\ k.asked = tab[b].shows /\ k.cut = FALSE /\ k.unseen = Lanes \cap {"control"}
               /\ k.lease = [m \in Media |-> "wanted"]
               /\ conn' = [conn EXCEPT ![c] = k]
    BY <1>5, ConnectsIs
  <2>2. conn'[c].unseen = {} /\ \A d \in Conns \ {c} : conn'[d] = conn[d]
    BY <2>1, OneLane DEF SyncShape, SyncTypeOK
  <2> QED
    BY <2>2 DEF Whole
<1>6. ASSUME NEW c \in Conns, NEW m \in Media, Acquire(c, m) PROVE Whole'
  <2>1. /\ conn[c].lease[m] = "wanted"
        /\ m = "audio" => conn[c].lease["video"] = "held"
        /\ conn'[c].lease = [conn[c].lease EXCEPT ![m] = "held"]
        /\ \A d \in Conns \ {c} : conn[d] # Unset => conn'[d].lease = conn[d].lease
        /\ conn' \in [Conns -> Connected \cup {Unset}]
        /\ conn[c] # Unset
    BY <1>6, AcquireIs
  <2>2. /\ \A d \in Conns : conn[d] = Unset <=> conn'[d] = Unset
        /\ \A d \in Conns : conn[d] # Unset =>
             \A l \in conn'[d].unseen :
               \/ l \in conn[d].unseen
               \/ Starting(c, m) /\ l \in Watching([conn[d] EXCEPT !.lease = conn'[d].lease])
               \/ d = c /\ l = m
               \/ d = c /\ l = "all" /\ m = "audio"
    BY <1>6, AcquireIs
  <2>3. ASSUME NEW d \in Conns, conn'[d] # Unset, NEW l \in conn'[d].unseen
        PROVE  \A n \in Media : conn'[d].lease[n] = "held"
    <3>1. conn[d] # Unset /\ conn[d] \in Connected
      BY <2>2, <2>3 DEF SyncShape, SyncTypeOK
    <3>2. l \in Lanes /\ l = "all" /\ l # m
      BY <2>1, <2>3, OneLane DEF Connected, Media
    <3>3. CASE l \in conn[d].unseen
      <4>1. \A n \in Media : conn[d].lease[n] = "held"
        BY <3>1, <3>3 DEF Whole
      <4>2. d # c
        BY <2>1, <4>1
      <4> QED
        BY <2>1, <3>1, <4>1, <4>2
    <3>4. CASE l \in Watching([conn[d] EXCEPT !.lease = conn'[d].lease])
      <4> DEFINE k == [conn[d] EXCEPT !.lease = conn'[d].lease]
      <4>1. k.lease = conn'[d].lease
        BY <3>1 DEF Connected
      <4>2. \A n \in Media : k.lease[n] = "held"
        <5> HIDE DEF k
        <5> QED
          BY <3>2, <3>4 DEF Watching, k
      <4> QED
        BY <4>1, <4>2
    <3>5. CASE d = c /\ m = "audio"
      BY <2>1, <3>1, <3>5 DEF Connected, Media
    <3> QED
      BY <2>2, <3>1, <3>2, <3>3, <3>4, <3>5
  <2> QED
    BY <2>3 DEF Whole
<1>7. ASSUME NEW c \in Conns, NEW l \in Lanes, Tell(c, l) PROVE Whole'
  <2>1. \A d \in Conns :
          /\ conn[d] = Unset <=> conn'[d] = Unset
          /\ conn[d] # Unset => conn'[d].lease = conn[d].lease /\ conn'[d].unseen \subseteq conn[d].unseen
    BY <1>7, TellIs
  <2> QED
    BY <2>1 DEF Whole
<1>8. ASSUME NEW c \in Conns, NEW m \in Media, Leaves(c, m) PROVE Whole'
  <2>1. /\ conn[c] # Unset /\ conn[c].cut
        /\ \A d \in Conns \ {c} : conn'[d] = conn[d]
        /\ conn'[c] # Unset => conn'[c].unseen = conn[c].unseen
    BY <1>8, LeavesIs
  <2>2. conn[c].unseen = {}
    BY <2>1 DEF SyncShape, CutIsDeaf
  <2> QED
    BY <2>1, <2>2 DEF Whole
<1>9. CASE \E b \in Browsers : (\E s \in Selectable : Edit(b, s)) \/ Expire(b) \/ Opened(b)
  BY <1>1, <1>9 DEF Edit, Expire, Opened
<1>10. CASE UNCHANGED syncVars
  BY <1>1, <1>10 DEF syncVars
<1> QED
  BY <1>2, <1>3, <1>4, <1>5, <1>6, <1>7, <1>8, <1>9, <1>10 DEF SyncNext

\* Where all that is told is chosen, and everybody tells of both media, a page hears what
\* was picked or its fallback.
LEMMA HearsChosen ==
  ASSUME SyncShape, TellsChosen, picked # Unset, NEW b \in Browsers, NEW l \in Lanes,
         tab[b].uses \in Conns, inbox[tab[b].uses][l] # <<>>, Head(inbox[tab[b].uses][l]) \in Hellos
  PROVE  Heard(b, Head(inbox[tab[b].uses][l])) = Instead(picked)
<1> DEFINE c     == tab[b].uses
           hello == Head(inbox[c][l])
<1>1. picked \in Selectable /\ Instead(picked) \in Selectable
  BY InsteadIs DEF SyncShape, SyncTypeOK
<1>2. inbox[c][l] \in Seq(Hellos)
  BY DEF SyncShape, SyncTypeOK
<1>3. hello = inbox[c][l][1] /\ 1 \in DOMAIN inbox[c][l]
  BY <1>2
<1>4. \A m \in Media : hello[m] = Instead(picked)[m]
  BY <1>3 DEF TellsChosen
<1> HIDE DEF hello
<1>5. hello \in Hellos
  BY DEF hello
<1>6. /\ Heard(b, hello) \in Selectable
      /\ \A m \in Media : Heard(b, hello)[m] = IF hello[m] = Unset THEN tab[b].shows[m] ELSE hello[m]
  BY <1>5, HeardIs DEF SyncShape
<1>7. \A m \in Media : Heard(b, hello)[m] = Instead(picked)[m]
  BY <1>1, <1>4, <1>6, SelectableHas
<1> QED
  BY <1>1, <1>6, <1>7, SelectableSame DEF hello

\* A step of a page leaves a change that has arrived where it is, when the page is to ask
\* for nothing else and no hello comes.
LEMMA PageKeeps ==
  ASSUME SyncTypeOK, Spread, NEW b \in Browsers, NEW page \in Pages, Page(b, page),
         UNCHANGED <<capture, picked>>,
         page.at = "waiting" \/ page.recent \/ page.timer => page.shows \in Chosen,
         \A c \in Wanted' : conn'[c].asked \in Chosen,
         \A c \in Conns, l \in Lanes : \A i \in DOMAIN inbox'[c][l] :
           \E j \in DOMAIN inbox[c][l] : inbox'[c][l][i] = inbox[c][l][j]
  PROVE  Spread'
<1>1. Chosen' = Chosen
  BY DEF Chosen, Instead
<1>2. RunsChosen'
  BY DEF Spread, RunsChosen, Running, Shown, Instead
<1>3. TellsChosen'
  <2>1. \A c \in Conns, l \in Lanes : \A j \in DOMAIN inbox[c][l] :
          \A m \in Media : inbox[c][l][j][m] = Instead(picked)[m]
    BY DEF Spread, TellsChosen
  <2>2. Instead(picked)' = Instead(picked)
    BY DEF Instead
  <2>3. \A c \in Conns, l \in Lanes : \A i \in DOMAIN inbox'[c][l] :
          \A m \in Media : inbox'[c][l][i][m] = Instead(picked)[m]
    BY <2>1
  <2> QED
    BY <2>2, <2>3 DEF TellsChosen
<1>4. AsksChosen'
  BY <1>1 DEF AsksChosen
<1>5. ShowsChosen'
  <2>1. tab'[b] = page /\ \A a \in Browsers \ {b} : tab'[a] = tab[a]
    BY DEF Page, SyncTypeOK
  <2> QED
    BY <1>1, <2>1 DEF Spread, ShowsChosen
<1> QED
  BY <1>2, <1>3, <1>4, <1>5 DEF Spread

\* A connection that is cut: what PageKeeps asks of it.
LEMMA CutKeeps ==
  ASSUME SyncShape, AsksChosen, NEW c \in Conns, conn[c] # Unset, Cut(c)
  PROVE  /\ \A d \in Wanted' : conn'[d].asked \in Chosen
         /\ \A d \in Conns, l \in Lanes : \A i \in DOMAIN inbox'[d][l] :
              \E j \in DOMAIN inbox[d][l] : inbox'[d][l][i] = inbox[d][l][j]
<1>1. \A d \in Wanted' : conn'[d].asked \in Chosen
  BY CutAsks DEF AsksChosen
<1>2. \A l \in Lanes : inbox'[c][l] = <<>>
  BY CutIs DEF SyncShape
<1>3. \A d \in Conns \ {c} : inbox'[d] = inbox[d]
  BY CutIs DEF SyncShape
<1>4. \A d \in Conns, l \in Lanes : \A i \in DOMAIN inbox'[d][l] :
        \E j \in DOMAIN inbox[d][l] : inbox'[d][l][i] = inbox[d][l][j]
  BY <1>2, <1>3
<1> QED
  BY <1>1, <1>4

\* Nothing changes for the connections.
LEMMA ConnsKeep ==
  ASSUME AsksChosen, UNCHANGED <<conn, inbox>>
  PROVE  /\ \A d \in Wanted' : conn'[d].asked \in Chosen
         /\ \A d \in Conns, l \in Lanes : \A i \in DOMAIN inbox'[d][l] :
              \E j \in DOMAIN inbox[d][l] : inbox'[d][l][i] = inbox[d][l][j]
<1>1. Wanted' = Wanted
  BY DEF Wanted
<1> QED
  BY <1>1 DEF AsksChosen

\* A page that hears, waits, connects or opens leaves a change that has arrived.
LEMMA PageFollows ==
  ASSUME Combined, SyncShape, Spread, picked # Unset, NEW b \in Browsers,
         \/ Expire(b) \/ TimerFires(b) \/ Connects(b) \/ Opened(b)
         \/ \E l \in Lanes : Hear(b, l)
  PROVE  Spread'
<1>1. /\ SyncTypeOK /\ AsksChosen /\ TellsChosen
      /\ tab[b] \in Pages
      /\ tab[b].at = "waiting" \/ tab[b].recent \/ tab[b].timer => tab[b].shows \in Chosen
  BY DEF SyncShape, SyncTypeOK, Spread, ShowsChosen
<1>2. CASE Expire(b)
  <2> DEFINE page == [tab[b] EXCEPT !.recent = FALSE]
  <2>1. /\ page \in Pages /\ page.at = tab[b].at /\ page.timer = tab[b].timer /\ page.recent = FALSE
        /\ page.shows = tab[b].shows
    BY <1>1 DEF Pages
  <2>2. Page(b, page) /\ UNCHANGED <<conn, inbox, capture, picked>>
    BY <1>2 DEF Expire
  <2> HIDE DEF page
  <2>3. page.at = "waiting" \/ page.recent \/ page.timer => page.shows \in Chosen
    BY <1>1, <2>1
  <2> QED
    BY <1>1, <2>1, <2>2, <2>3, ConnsKeep, PageKeeps
<1>3. CASE TimerFires(b)
  <2>1. PICK page \in Pages :
          /\ Page(b, page) /\ page.shows = tab[b].shows
          /\ \/ tab[b].shows = tab[b].applied /\ page.at = tab[b].at
             \/ page.at = "waiting"
    BY <1>3, TimerFiresIs
  <2>2. /\ tab[b].timer /\ UNCHANGED <<capture, picked>>
        /\ \/ UNCHANGED <<conn, inbox>>
           \/ tab[b].uses \in Conns /\ conn[tab[b].uses] # Unset /\ Cut(tab[b].uses)
    BY <1>3, TimerFiresIs
  <2>3. /\ \A d \in Wanted' : conn'[d].asked \in Chosen
        /\ \A d \in Conns, l \in Lanes : \A i \in DOMAIN inbox'[d][l] :
             \E j \in DOMAIN inbox[d][l] : inbox'[d][l][i] = inbox[d][l][j]
    BY <1>1, <2>2, CutKeeps, ConnsKeep
  <2>4. page.shows \in Chosen
    BY <1>1, <2>1, <2>2
  <2> QED
    BY <1>1, <2>1, <2>2, <2>3, <2>4, PageKeeps
<1>4. CASE Connects(b)
  <2>1. tab[b].at = "waiting" /\ UNCHANGED <<inbox, capture, picked>>
    BY <1>4, ConnectsIs
  <2>2. PICK c \in Conns :
          /\ conn[c] = Unset
          /\ \E page \in Pages :
               /\ page.at = "opening" /\ page.uses = c /\ Page(b, page)
               /\ page.timer = FALSE /\ page.shows = tab[b].shows
          /\ \E k \in Connected :
               /\ k.asked = tab[b].shows /\ k.cut = FALSE /\ k.unseen = Lanes \cap {"control"}
               /\ k.lease = [m \in Media |-> "wanted"]
               /\ conn' = [conn EXCEPT ![c] = k]
    BY <1>4, ConnectsIs
  <2>3. PICK page \in Pages :
          /\ page.at = "opening" /\ page.uses = c /\ Page(b, page)
          /\ page.timer = FALSE /\ page.shows = tab[b].shows
    BY <2>2
  <2>4. tab[b].shows \in Chosen
    BY <1>1, <2>1
  <2>5. conn'[c].asked = tab[b].shows /\ \A d \in Conns \ {c} : conn'[d] = conn[d]
    BY <2>2 DEF SyncShape, SyncTypeOK
  <2>6. \A d \in Wanted' : conn'[d].asked \in Chosen
    BY <1>1, <2>4, <2>5 DEF Wanted, AsksChosen
  <2> QED
    BY <1>1, <2>1, <2>3, <2>4, <2>6, PageKeeps
<1>5. CASE Opened(b)
  <2> DEFINE open  == [tab[b] EXCEPT !.at = "open"]
             asked == conn[tab[b].uses].asked
             page  == Marked(open, asked)
  <2>1. /\ open \in Pages /\ open.at = "open" /\ open.timer = tab[b].timer /\ open.recent = tab[b].recent
        /\ open.shows = tab[b].shows
    BY <1>1 DEF Pages
  <2>2. tab[b].at = "opening" /\ Page(b, page) /\ UNCHANGED <<conn, inbox, capture, picked>>
    BY <1>5 DEF Opened
  <2>3. asked \in Selectable
    <3>1. tab[b].uses \in Conns /\ conn[tab[b].uses] # Unset
      BY <1>1, <2>2, PageHas DEF SyncShape, Linked
    <3> QED
      BY <3>1 DEF SyncShape, SyncTypeOK, Connected
  <2> HIDE DEF open, asked
  <2>4. /\ page \in Pages /\ page.at = "open" /\ page.timer = tab[b].timer /\ page.recent = tab[b].recent
        /\ page.shows = tab[b].shows
    BY <2>1, <2>3, MarkedIs
  <2> HIDE DEF page
  <2>5. page.at = "waiting" \/ page.recent \/ page.timer => page.shows \in Chosen
    BY <1>1, <2>4
  <2> QED
    BY <1>1, <2>2, <2>4, <2>5, ConnsKeep, PageKeeps
<1>6. ASSUME NEW l \in Lanes, Hear(b, l) PROVE Spread'
  <2> DEFINE c == tab[b].uses
             s == Heard(b, Head(inbox[c][l]))
  <2>1. /\ c \in Conns /\ inbox[c][l] # <<>> /\ Head(inbox[c][l]) \in Hellos
        /\ UNCHANGED <<capture, picked>>
        /\ \/ /\ inbox' = [inbox EXCEPT ![c][l] = Tail(@)] /\ UNCHANGED conn
              /\ \E page \in Pages :
                   /\ page.at = tab[b].at /\ page.uses = c /\ Page(b, page)
                   /\ page.timer => tab[b].timer
                   /\ page.recent => tab[b].recent
                   /\ page.shows \in {tab[b].shows, s}
           \/ /\ s # tab[b].shows /\ Cut(c)
              /\ \E page \in Pages : /\ page.at = "waiting" /\ page.uses = Unset /\ page.timer = FALSE
                                     /\ page.shows = s /\ Page(b, page)
    BY <1>6, HearIs
  <2>2. s \in Chosen
    BY <1>1, <2>1, HearsChosen DEF Chosen
  <2> HIDE DEF s
  <2>3. CASE /\ inbox' = [inbox EXCEPT ![c][l] = Tail(@)] /\ UNCHANGED conn
             /\ \E page \in Pages :
                  /\ page.at = tab[b].at /\ page.uses = c /\ Page(b, page)
                  /\ page.timer => tab[b].timer
                  /\ page.recent => tab[b].recent
                  /\ page.shows \in {tab[b].shows, s}
    <3>1. PICK page \in Pages :
                  /\ page.at = tab[b].at /\ page.uses = c /\ Page(b, page)
                  /\ page.timer => tab[b].timer
                  /\ page.recent => tab[b].recent
                  /\ page.shows \in {tab[b].shows, s}
      BY <2>3
    <3>2. page.at = "waiting" \/ page.recent \/ page.timer => page.shows \in Chosen
      BY <1>1, <2>2, <3>1
    <3>3. \A i \in DOMAIN Tail(inbox[c][l]) : i + 1 \in DOMAIN inbox[c][l] /\ Tail(inbox[c][l])[i] = inbox[c][l][i + 1]
      <4>1. inbox[c][l] \in Seq(Hellos)
        BY <1>1, <2>1 DEF SyncTypeOK
      <4> QED
        BY <2>1, <4>1
    <3>4. /\ inbox'[c][l] = Tail(inbox[c][l])
          /\ \A d \in Conns, j \in Lanes : d # c \/ j # l => inbox'[d][j] = inbox[d][j]
      BY <1>1, <2>1, <2>3 DEF SyncTypeOK
    <3>5. \A d \in Conns, k \in Lanes : \A i \in DOMAIN inbox'[d][k] :
            \E j \in DOMAIN inbox[d][k] : inbox'[d][k][i] = inbox[d][k][j]
      <4>1. \A i \in DOMAIN inbox'[c][l] : \E j \in DOMAIN inbox[c][l] : inbox'[c][l][i] = inbox[c][l][j]
        BY <3>3, <3>4, Zenon
      <4>2. ASSUME NEW d \in Conns, NEW k \in Lanes, d # c \/ k # l
            PROVE  \A i \in DOMAIN inbox'[d][k] : \E j \in DOMAIN inbox[d][k] : inbox'[d][k][i] = inbox[d][k][j]
        BY <3>4, <4>2, Zenon
      <4> HIDE DEF c
      <4> QED
        BY <4>1, <4>2, Zenon
    <3>6. \A d \in Wanted' : conn'[d].asked \in Chosen
      BY <1>1, <2>3 DEF Wanted, AsksChosen
    <3> QED
      BY <1>1, <2>1, <3>1, <3>2, <3>5, <3>6, PageKeeps
  <2>4. CASE /\ s # tab[b].shows /\ Cut(c)
             /\ \E page \in Pages : /\ page.at = "waiting" /\ page.uses = Unset /\ page.timer = FALSE
                                    /\ page.shows = s /\ Page(b, page)
    <3>1. conn[c] # Unset
      BY <2>1 DEF SyncShape, CutIsDeaf
    <3> QED
      BY <1>1, <2>1, <2>2, <2>4, <3>1, CutKeeps, PageKeeps
  <2> QED
    BY <2>1, <2>3, <2>4
<1> QED
  BY <1>2, <1>3, <1>4, <1>5, <1>6

\* A step of a session leaves it too.
LEMMA SessionFollows ==
  ASSUME Combined, SyncShape, Whole, Spread, picked # Unset, NEW c \in Conns,
         \/ \E m \in Media : Acquire(c, m) \/ Leaves(c, m)
         \/ \E l \in Lanes : Tell(c, l)
  PROVE  Spread'
<1>1. /\ SyncTypeOK /\ RunsChosen /\ AsksChosen /\ TellsChosen /\ ShowsChosen
      /\ picked \in Selectable
  BY DEF SyncShape, SyncTypeOK, Spread
<1>2. ASSUME UNCHANGED <<tab, inbox, picked>> PROVE TellsChosen' /\ ShowsChosen' /\ Chosen' = Chosen
  BY <1>1, <1>2 DEF TellsChosen, ShowsChosen, Chosen, Instead
<1>3. ASSUME NEW m \in Media, Acquire(c, m) PROVE Spread'
  <2>1. /\ conn[c] # Unset /\ conn[c].lease[m] = "wanted" /\ UNCHANGED <<tab, inbox, picked>>
        /\ Starting(c, m) => capture'[m] = Runs(m, conn[c].asked[m])
        /\ ~Starting(c, m) => capture'[m] = capture[m]
        /\ \A n \in Media \ {m} : capture'[n] = capture[n]
        /\ conn'[c].lease = [conn[c].lease EXCEPT ![m] = "held"]
        /\ \A d \in Conns \ {c} : conn[d] # Unset => conn'[d].lease = conn[d].lease
    BY <1>3, AcquireIs
  <2>2. \A d \in Conns : /\ conn[d] = Unset <=> conn'[d] = Unset
                         /\ conn[d] # Unset => conn'[d].asked = conn[d].asked
    BY <1>3, AcquireIs
  <2>3. conn[c].lease \in [Media -> {"wanted", "held", "left"}]
    BY <2>1 DEF SyncShape, SyncTypeOK, Connected
  <2>4. Wanted' \subseteq Wanted
    <3>1. ASSUME NEW d \in Wanted' PROVE d \in Wanted
      BY <2>1, <2>2, <2>3, <3>1 DEF Wanted
    <3> QED
      BY <3>1
  <2>5. AsksChosen'
    <3>1. \A d \in Wanted' : conn'[d].asked \in Chosen
      BY <1>1, <2>2, <2>4 DEF AsksChosen, Wanted
    <3> QED
      BY <1>2, <2>1, <3>1 DEF AsksChosen
  <2>6. RunsChosen'
    <3>1. conn[c].asked \in Chosen
      BY <1>1, <2>1 DEF AsksChosen, Wanted
    <3>2. Shown(Runs(m, conn[c].asked[m])) = Instead(picked)[m]
      BY <1>1, <3>1, InsteadIs DEF Chosen
    <3>3. Shown(capture'[m]) \in {Instead(picked)[m], Unset}
      BY <1>1, <2>1, <3>2 DEF RunsChosen, Running
    <3>4. \A n \in Media : Shown(capture'[n]) \in {Instead(picked)[n], Unset}
      BY <1>1, <2>1, <3>3 DEF RunsChosen, Running
    <3>5. Instead(picked)' = Instead(picked)
      BY <2>1 DEF Instead
    <3>6. \A n \in Media : Running'[n] = Shown(capture'[n])
      BY DEF Running, Shown
    <3> QED
      BY <3>4, <3>5, <3>6 DEF RunsChosen
  <2> QED
    BY <1>2, <2>1, <2>5, <2>6 DEF Spread
<1>4. ASSUME NEW m \in Media, Leaves(c, m) PROVE Spread'
  <2>1. /\ conn[c] # Unset /\ UNCHANGED <<tab, inbox, picked>>
        /\ \A d \in Conns \ {c} : conn'[d] = conn[d]
        /\ conn'[c] # Unset => /\ conn'[c].asked = conn[c].asked
                               /\ conn'[c].lease = [conn[c].lease EXCEPT ![m] = "left"]
        /\ \A n \in Media \ {m} : capture'[n] = capture[n]
        /\ capture'[m] \in {capture[m], Unset}
    BY <1>4, LeavesIs
  <2>2. conn[c].lease \in [Media -> {"wanted", "held", "left"}]
    BY <2>1 DEF SyncShape, SyncTypeOK, Connected
  <2>3. \A d \in Wanted' : d \in Wanted /\ conn'[d].asked = conn[d].asked
    <3>1. ASSUME NEW d \in Wanted' PROVE d \in Wanted /\ conn'[d].asked = conn[d].asked
      BY <2>1, <2>2, <3>1 DEF Wanted
    <3> QED
      BY <3>1
  <2>4. AsksChosen'
    <3>1. \A d \in Wanted' : conn'[d].asked \in Chosen
      BY <1>1, <2>3 DEF AsksChosen
    <3> QED
      BY <1>2, <2>1, <3>1 DEF AsksChosen
  <2>5. RunsChosen'
    <3>1. \A n \in Media : Shown(capture'[n]) \in {Instead(picked)[n], Unset}
      BY <1>1, <2>1 DEF RunsChosen, Running, Shown
    <3>2. Instead(picked)' = Instead(picked)
      BY <2>1 DEF Instead
    <3>3. \A n \in Media : Running'[n] = Shown(capture'[n])
      BY DEF Running, Shown
    <3> QED
      BY <3>1, <3>2, <3>3 DEF RunsChosen
  <2> QED
    BY <1>2, <2>1, <2>4, <2>5 DEF Spread
<1>5. ASSUME NEW l \in Lanes, Tell(c, l) PROVE Spread'
  <2>1. /\ conn[c] # Unset /\ l \in conn[c].unseen /\ UNCHANGED <<tab, capture, picked>>
        /\ \A d \in Conns :
             /\ conn[d] = Unset <=> conn'[d] = Unset
             /\ conn[d] # Unset => conn'[d].asked = conn[d].asked /\ conn'[d].lease = conn[d].lease
        /\ \/ inbox' = inbox
           \/ \E hello \in Hellos : /\ \A m \in Media : hello[m] = Running[m]
                                   /\ inbox' = [inbox EXCEPT ![c][l] = Append(@, hello)]
    BY <1>5, TellIs
  <2>2. \A m \in Media : Running[m] = Instead(picked)[m]
    <3>1. \A m \in Media : conn[c].lease[m] = "held"
      BY <2>1 DEF Whole
    <3>2. \A m \in Media : capture[m] # Unset
      BY <2>1, <3>1 DEF SyncShape, Held
    <3> QED
      BY <1>1, <3>2, ShownIs DEF RunsChosen
  <2>3. ShowsChosen' /\ AsksChosen' /\ RunsChosen'
    <3>1. Chosen' = Chosen /\ Instead(picked)' = Instead(picked)
      BY <2>1 DEF Chosen, Instead
    <3>2. Running' = Running
      BY <2>1 DEF Running, Shown
    <3>3. ShowsChosen' /\ RunsChosen'
      BY <1>1, <2>1, <3>1, <3>2 DEF ShowsChosen, RunsChosen
    <3>4. \A d \in Wanted' : conn'[d].asked \in Chosen
      BY <1>1, <2>1 DEF Wanted, AsksChosen
    <3> QED
      BY <3>1, <3>3, <3>4 DEF AsksChosen
  <2>4. TellsChosen'
    <3>1. Instead(picked)' = Instead(picked)
      BY <2>1 DEF Instead
    <3>2. CASE inbox' = inbox
      BY <1>1, <3>1, <3>2 DEF TellsChosen
    <3>3. ASSUME NEW hello \in Hellos, \A m \in Media : hello[m] = Running[m],
                 inbox' = [inbox EXCEPT ![c][l] = Append(@, hello)]
          PROVE  TellsChosen'
      <4>1. inbox[c][l] \in Seq(Hellos)
        BY <1>1 DEF SyncTypeOK
      <4>2. /\ inbox'[c][l] = Append(inbox[c][l], hello)
            /\ \A d \in Conns, k \in Lanes : d # c \/ k # l => inbox'[d][k] = inbox[d][k]
        BY <1>1, <3>3 DEF SyncTypeOK
      <4>3. \A i \in DOMAIN Append(inbox[c][l], hello) :
              \/ i \in DOMAIN inbox[c][l] /\ Append(inbox[c][l], hello)[i] = inbox[c][l][i]
              \/ Append(inbox[c][l], hello)[i] = hello
        BY <4>1
      <4>4. \A i \in DOMAIN inbox'[c][l] : \A m \in Media : inbox'[c][l][i][m] = Instead(picked)[m]
        BY <1>1, <2>2, <3>3, <4>2, <4>3 DEF TellsChosen
      <4>5. ASSUME NEW d \in Conns, NEW k \in Lanes, d # c \/ k # l
            PROVE  \A i \in DOMAIN inbox'[d][k] : \A m \in Media : inbox'[d][k][i][m] = Instead(picked)[m]
        BY <1>1, <4>2, <4>5 DEF TellsChosen
      <4>6. \A d \in Conns, k \in Lanes : \A i \in DOMAIN inbox'[d][k] :
              \A m \in Media : inbox'[d][k][i][m] = Instead(picked)[m]
        BY <4>4, <4>5, Zenon
      <4> QED
        BY <3>1, <4>6 DEF TellsChosen
    <3> QED
      BY <2>1, <3>2, <3>3
  <2> QED
    BY <2>3, <2>4 DEF Spread
<1> QED
  BY <1>3, <1>4, <1>5

-----------------------------------------------------------------------------
(* Whoever shows something else listens, and is told. *)

\* What a page waits for stays what it shows.
LEMMA PendingStays == ASSUME SyncShape, Pending, [SyncNext]_syncVars PROVE Pending'
<1>1. tab \in [Browsers -> Pages] /\ \A b \in Browsers : tab[b] \in Pages
  BY DEF SyncShape, SyncTypeOK
<1> DEFINE Fits(page) == /\ page.pending \in {Unset, page.shows}
                         /\ page.at = "open" /\ page.pending # Unset => page.applied # page.shows
<1>2. \A b \in Browsers : Fits(tab[b])
  BY DEF Pending
<1>3. ASSUME NEW b \in Browsers, NEW page \in Pages, Page(b, page), Fits(page) PROVE Pending'
  <2>1. tab'[b] = page /\ \A a \in Browsers \ {b} : tab'[a] = tab[a]
    BY <1>1, <1>3 DEF Page
  <2> QED
    BY <1>2, <1>3, <2>1 DEF Pending
<1>4. ASSUME NEW page \in Pages, NEW s \in Selectable, Fits(page)
      PROVE  /\ Marked(page, s) \in Pages
             /\ Fits(Marked(page, s))
  <2>1. s # Unset
    BY <1>4, SelectableHas
  <2>2. /\ Marked(page, s).applied = s /\ Marked(page, s).shows = page.shows
        /\ Marked(page, s).pending = IF page.pending = s THEN Unset ELSE page.pending
    BY <1>4 DEF Marked, Pages
  <2> QED
    BY <1>4, <2>1, <2>2, MarkedIs
<1>5. ASSUME NEW page \in Pages, NEW b \in Browsers, Reconnects(b, page) PROVE Pending'
  <2> DEFINE still == [page EXCEPT !.pending = page.shows]
             q     == Closed(still)
  <2>1. still \in Pages /\ still.pending = still.shows
    BY <1>5 DEF Pages
  <2>2. q \in Pages /\ q.pending = q.shows /\ q.at = "waiting"
    <3> HIDE DEF still
    <3> QED
      BY <2>1 DEF Closed, Pages
  <2>3. Page(b, q)
    BY <1>5 DEF Reconnects, Page
  <2> HIDE DEF q
  <2> QED
    BY <1>3, <2>2, <2>3
<1>6. ASSUME NEW b \in Browsers, NEW s \in Selectable, Edit(b, s) PROVE Pending'
  <2> DEFINE page == Edited(tab[b], s)
  <2>1. /\ page.pending = IF s = tab[b].applied THEN Unset ELSE s
        /\ page.shows = s /\ page.applied = tab[b].applied /\ page \in Pages
    <3>1. page.pending = IF s = tab[b].applied THEN Unset ELSE s
      BY <1>1 DEF Edited, Pages
    <3> QED
      BY <1>1, <3>1, EditedIs
  <2>2. Page(b, page)
    BY <1>6 DEF Edit
  <2> HIDE DEF page
  <2> QED
    BY <1>3, <2>1, <2>2
<1>7. ASSUME NEW b \in Browsers, Expire(b) PROVE Pending'
  <2> DEFINE page == [tab[b] EXCEPT !.recent = FALSE]
  <2>1. /\ page \in Pages /\ page.at = tab[b].at /\ page.pending = tab[b].pending
        /\ page.shows = tab[b].shows /\ page.applied = tab[b].applied
    BY <1>1 DEF Pages
  <2>2. Page(b, page)
    BY <1>7 DEF Expire
  <2> HIDE DEF page
  <2> QED
    BY <1>2, <1>3, <2>1, <2>2
<1>8. ASSUME NEW b \in Browsers, TimerFires(b) PROVE Pending'
  <2> DEFINE page == [tab[b] EXCEPT !.timer = FALSE]
  <2>1. /\ page \in Pages /\ page.at = tab[b].at /\ page.pending = tab[b].pending
        /\ page.shows = tab[b].shows /\ page.applied = tab[b].applied
    BY <1>1 DEF Pages
  <2>2. Page(b, page) \/ Reconnects(b, page)
    BY <1>8 DEF TimerFires
  <2>3. page.shows \in Selectable
    BY <2>1, PageHas
  <2> HIDE DEF page
  <2> QED
    BY <1>2, <1>3, <1>5, <2>1, <2>2, <2>3
<1>9. ASSUME NEW b \in Browsers, Connects(b) PROVE Pending'
  <2>1. PICK c \in Conns : Page(b, [tab[b] EXCEPT !.at = "opening", !.uses = c])
    BY <1>9 DEF Connects
  <2> DEFINE page == [tab[b] EXCEPT !.at = "opening", !.uses = c]
  <2>2. page \in Pages /\ page.at = "opening" /\ page.pending = tab[b].pending /\ page.shows = tab[b].shows
    BY <1>1 DEF Pages
  <2>3. Page(b, page)
    BY <2>1
  <2> HIDE DEF page
  <2> QED
    BY <1>2, <1>3, <2>2, <2>3
<1>10. ASSUME NEW b \in Browsers, Opened(b) PROVE Pending'
  <2> DEFINE open  == [tab[b] EXCEPT !.at = "open"]
             asked == conn[tab[b].uses].asked
             page  == Marked(open, asked)
  <2>1. tab[b].at = "opening" /\ Page(b, page)
    BY <1>10 DEF Opened
  <2>2. /\ open \in Pages /\ open.pending = tab[b].pending /\ open.shows = tab[b].shows
    BY <1>1 DEF Pages
  <2>3. asked \in Selectable
    <3>1. tab[b].uses \in Conns /\ conn[tab[b].uses] # Unset
      BY <1>1, <2>1, PageHas DEF SyncShape, Linked
    <3> QED
      BY <3>1 DEF SyncShape, SyncTypeOK, Connected
  <2> HIDE DEF open, asked
  <2>4. asked # Unset
    BY <2>3, SelectableHas
  <2>5. /\ page.applied = asked /\ page.shows = open.shows
        /\ page.pending = IF open.pending = asked THEN Unset ELSE open.pending
    BY <2>2 DEF Marked, Pages
  <2>6. page \in Pages
    BY <2>2, <2>3, MarkedIs
  <2> HIDE DEF page
  <2>7. Fits(page)
    BY <1>2, <2>2, <2>4, <2>5
  <2> QED
    BY <1>3, <2>1, <2>6, <2>7 DEF page
<1>11. ASSUME NEW b \in Browsers, Lost(b) PROVE Pending'
  <2> DEFINE page == Closed(tab[b])
  <2>1. page \in Pages /\ page.at = "waiting" /\ page.pending = tab[b].pending /\ page.shows = tab[b].shows
    BY <1>1 DEF Closed, Pages
  <2>2. Page(b, page)
    BY <1>11 DEF Lost
  <2> HIDE DEF page
  <2> QED
    BY <1>2, <1>3, <2>1, <2>2
<1>12. ASSUME NEW b \in Browsers, NEW l \in Lanes, Hear(b, l) PROVE Pending'
  <2> DEFINE hello == Head(inbox[tab[b].uses][l])
             s     == Heard(b, hello)
             page  == tab[b]
             kept  == Forced(Marked(page, s), hello)
             shown == [Forced(page, hello) EXCEPT !.shows = s]
             taken == Marked(shown, s)
  <2>1. \/ s = page.shows /\ Page(b, kept)
        \/ UNCHANGED tab
        \/ Page(b, Marked(page, s))
        \/ /\ hello.force \/ page.pending \in {Unset, s}
           /\ Page(b, taken) \/ Reconnects(b, taken)
    BY <1>12 DEF Hear, Ignored
  <2>2. s \in Selectable /\ s # Unset
    <3>1. tab[b].uses \in Conns /\ hello \in Hellos
      BY <1>12, HearIs
    <3> QED
      BY <3>1, HeardIs, SelectableHas DEF SyncShape
  <2>3. page \in Pages /\ Fits(page)
    BY <1>1, <1>2
  <2> HIDE DEF s, page, hello
  <2>4. ASSUME NEW q \in Pages
        PROVE  /\ Forced(q, hello) \in Pages
               /\ Forced(q, hello).pending = IF hello.force THEN Unset ELSE q.pending
               /\ Forced(q, hello).shows = q.shows /\ Forced(q, hello).applied = q.applied
    BY <2>4 DEF Forced, Pages
  <2>5. CASE s = page.shows /\ Page(b, kept)
    <3> DEFINE q == Marked(page, s)
    <3>1. q \in Pages /\ q.pending = Unset
      <4>1. q.pending = IF page.pending = s THEN Unset ELSE page.pending
        BY <2>3 DEF Marked, Pages
      <4>2. q \in Pages
        BY <2>2, <2>3, MarkedIs
      <4> QED
        BY <2>3, <2>5, <4>1, <4>2
    <3> HIDE DEF q
    <3>2. Forced(q, hello) \in Pages /\ Forced(q, hello).pending = Unset
      BY <2>4, <3>1
    <3>3. Page(b, Forced(q, hello))
      BY <2>5 DEF q
    <3> QED
      BY <1>3, <3>2, <3>3
  <2>6. CASE UNCHANGED tab
    BY <2>6 DEF Pending
  <2>7. CASE Page(b, Marked(page, s))
    BY <1>3, <1>4, <2>2, <2>3, <2>7
  <2>8. CASE /\ hello.force \/ page.pending \in {Unset, s}
             /\ Page(b, taken) \/ Reconnects(b, taken)
    <3>1. shown \in Pages /\ shown.pending \in {Unset, s}
      <4> DEFINE q == Forced(page, hello)
      <4>1. q \in Pages /\ q.pending \in {Unset, s}
        BY <2>3, <2>4, <2>8
      <4> HIDE DEF q
      <4>2. [q EXCEPT !.shows = s] \in Pages /\ [q EXCEPT !.shows = s].pending = q.pending
        BY <2>2, <4>1 DEF Pages
      <4> QED
        BY <4>1, <4>2 DEF q
    <3> HIDE DEF shown
    <3>2. taken \in Pages /\ taken.pending = Unset
      <4>1. taken.pending = IF shown.pending = s THEN Unset ELSE shown.pending
        BY <3>1 DEF Marked, Pages
      <4> QED
        BY <2>2, <3>1, <4>1, MarkedIs
    <3> HIDE DEF taken
    <3> QED
      BY <1>3, <1>5, <2>8, <3>2
  <2> QED
    BY <2>1, <2>5, <2>6, <2>7, <2>8
<1>13. CASE UNCHANGED tab
  BY <1>13 DEF Pending
<1>14. CASE \E c \in Conns : (\E m \in Media : Acquire(c, m) \/ Leaves(c, m)) \/ \E l \in Lanes : Tell(c, l)
  BY <1>13, <1>14 DEF Acquire, Leaves, Tell
<1> QED
  BY <1>6, <1>7, <1>8, <1>9, <1>10, <1>11, <1>12, <1>13, <1>14 DEF SyncNext, syncVars

\* A page that listens shows what it hears.
LEMMA HearTakes ==
  ASSUME SyncShape, NEW b \in Browsers, NEW l \in Lanes, Hear(b, l), ~tab[b].recent, Listens(b)
  PROVE  tab'[b].shows = Heard(b, Head(inbox[tab[b].uses][l]))
<1> DEFINE hello == Head(inbox[tab[b].uses][l])
           s     == Heard(b, hello)
           page  == tab[b]
           kept  == Forced(Marked(page, s), hello)
           shown == [Forced(page, hello) EXCEPT !.shows = s]
           taken == Marked(shown, s)
<1>1. \/ s = page.shows /\ Page(b, kept)
      \/ Page(b, taken) \/ Reconnects(b, taken)
  BY DEF Hear, Ignored, Listens
<1>2. s \in Selectable
  <2>1. tab[b].uses \in Conns /\ hello \in Hellos
    BY HearIs
  <2> QED
    BY <2>1, HeardIs DEF SyncShape
<1>3. page \in Pages /\ tab \in [Browsers -> Pages]
  BY DEF SyncShape, SyncTypeOK
<1> HIDE DEF s, hello
<1>4. kept.shows = page.shows
  BY <1>2, <1>3, MarkedIs, ForcedIs
<1>5. taken.shows = s /\ taken \in Pages
  <2> DEFINE q == Forced(page, hello)
  <2>1. q \in Pages
    BY <1>3, ForcedIs
  <2> HIDE DEF q
  <2>2. [q EXCEPT !.shows = s] \in Pages /\ [q EXCEPT !.shows = s].shows = s
    BY <1>2, <2>1 DEF Pages
  <2>3. shown \in Pages /\ shown.shows = s
    BY <2>2 DEF q
  <2> HIDE DEF shown
  <2> QED
    BY <1>2, <2>3, MarkedIs
<1> HIDE DEF kept, taken
<1>6. CASE s = page.shows /\ Page(b, kept)
  BY <1>3, <1>4, <1>6 DEF Page, s, hello
<1>7. CASE Page(b, taken)
  BY <1>3, <1>5, <1>7 DEF Page, s, hello
<1>8. CASE Reconnects(b, taken)
  <2>1. \E q \in Pages : q.shows = taken.shows /\ Page(b, q)
    BY <1>5, <1>8, ReconnectsIs
  <2> QED
    BY <1>3, <1>5, <2>1 DEF Page, s, hello
<1> QED
  BY <1>1, <1>6, <1>7, <1>8

\* Who has both media is to be told of a capture that starts, and nobody forgets what he
\* is to tell.
LEMMA AcquireTells ==
  ASSUME Combined, SyncShape, NEW c \in Conns, NEW m \in Media, Acquire(c, m),
         NEW d \in Conns, conn[d] # Unset
  PROVE  /\ conn[d].unseen \subseteq conn'[d].unseen
         /\ Starting(c, m) /\ d # c /\ ~conn[d].cut /\ (\A n \in Media : conn[d].lease[n] = "held")
              => conn'[d].unseen # {}
<1> DEFINE held  == [conn[c] EXCEPT !.lease[m] = "held"]
           first == IF conn[c].cut THEN {} ELSE Lanes \cap ({m} \cup {"all" : x \in {m} \cap {"audio"}})
           kd    == IF d = c THEN held ELSE conn[d]
           new   == (IF Starting(c, m) THEN Watching(kd) ELSE {}) \cup (IF d = c THEN first ELSE {})
<1>1. /\ conn[c] # Unset /\ conn[c] \in Connected /\ conn[d] \in Connected
      /\ conn'[d] = IF kd = Unset THEN Unset ELSE [kd EXCEPT !.unseen = @ \cup new]
  BY DEF Acquire, Starting, SyncShape, SyncTypeOK
<1>2. held \in Connected /\ held.unseen = conn[c].unseen
  BY <1>1 DEF Connected
<1>3. kd \in Connected /\ kd # Unset /\ kd.unseen = conn[d].unseen
  <2> HIDE DEF held
  <2> QED
    BY <1>1, <1>2, SyncAssumption
<1>4. ASSUME Starting(c, m), d # c, ~conn[d].cut, \A n \in Media : conn[d].lease[n] = "held"
      PROVE  "all" \in new
  <2>1. kd = conn[d]
    BY <1>4
  <2>2. "all" \in Watching(conn[d])
    BY <1>4, OneLane DEF Watching
  <2> HIDE DEF kd, first
  <2> QED
    BY <1>4, <2>1, <2>2
<1> HIDE DEF kd, new
<1>5. [kd EXCEPT !.unseen = @ \cup new].unseen = kd.unseen \cup new
  BY <1>3 DEF Connected
<1> QED
  BY <1>1, <1>3, <1>4, <1>5

\* Of a video that runs something is told.
LEMMA TellSays ==
  ASSUME SyncShape, NEW c \in Conns, NEW l \in Lanes, Tell(c, l), capture["video"] # Unset
  PROVE  inbox'[c][l] # <<>>
<1>1. PICK hello : inbox' = [inbox EXCEPT ![c][l] = Append(@, hello)]
  BY DEF Tell
<1>2. inbox \in [Conns -> [Lanes -> Seq(Hellos)]]
  BY DEF SyncShape, SyncTypeOK
<1>3. inbox'[c][l] = Append(inbox[c][l], hello) /\ inbox[c][l] \in Seq(Hellos)
  BY <1>1, <1>2
<1>4. Append(inbox[c][l], hello) # <<>>
  BY <1>3
<1> QED
  BY <1>3, <1>4

\* A page that does not move will hear still, as its session goes on.
LEMMA WillHearStays ==
  ASSUME SyncShape, NEW a \in Browsers, WillHear(a), tab'[a] = tab[a],
         \A c \in Conns : c = tab[a].uses /\ conn[c] # Unset /\ ~conn[c].cut => conn'[c].lease = conn[c].lease
  PROVE  WillHear(a)'
<1>1. tab[a].at = "open" /\ tab[a].uses # Unset
  BY DEF WillHear, Listens, SyncShape, Linked
<1>2. tab[a].uses \in Conns /\ conn[tab[a].uses] # Unset /\ ~conn[tab[a].uses].cut
  BY <1>1, PageHas DEF SyncShape, SyncTypeOK, Linked
<1>3. conn'[tab[a].uses].lease = conn[tab[a].uses].lease
  BY <1>2
<1> QED
  BY <1>3 DEF WillHear, Listens

-----------------------------------------------------------------------------
(* The pick, and its way to the hub. *)

\* Who picks changes one medium, and the hub of the other runs what it was asked for.
OneChange ==
  happened' # happened /\ picked' # Unset =>
    \E n \in Media : \A m \in Media \ {n} : capture[m].config = picked'[m]

\* Where all is settled, everything has arrived already but what a user picks then.
LEMMA PickFollows ==
  ASSUME SyncShape, Pending, NEW b \in Browsers, NEW s \in Selectable, Edit(b, s), OneChange, picked' # Unset
  PROVE  Follows'
<1>1. /\ Quiet /\ Agreed /\ Known /\ picked' = s /\ happened' # happened
      /\ UNCHANGED <<conn, inbox, capture>>
      /\ Page(b, Edited(tab[b], s))
  BY DEF Edit, SyncShape, SyncTypeOK
<1>2. /\ tab[b] \in Pages /\ SyncTypeOK
      /\ \A a \in Browsers : tab[a].at = "open" /\ ~tab[a].recent /\ ~tab[a].timer
      /\ tab[b].shows = Running /\ tab[b].applied = Running
  BY <1>1 DEF Quiet, Agreed, Known, SyncShape, SyncTypeOK
<1>3. Running \in Selectable /\ Running # Unset /\ \A m \in Media : capture[m] # Unset
  <2>1. Running \in Selectable
    BY <1>2, PageHas
  <2> QED
    BY <1>2, <2>1, SelectableHas, ShownIs
<1>4. PICK n \in Media : \A m \in Media \ {n} : capture[m].config = s[m]
  BY <1>1 DEF OneChange
<1>5. \A c \in Conns : /\ \A l \in Lanes : inbox'[c][l] = <<>>
                       /\ conn'[c] # Unset => conn'[c].unseen = {}
  BY <1>1 DEF Quiet, SyncShape, CutIsDeaf
<1>6. Wanted' = {}
  BY <1>1 DEF Quiet, Wanted
<1> DEFINE page == Edited(tab[b], s)
<1>7. /\ tab'[b] = page /\ \A a \in Browsers \ {b} : tab'[a] = tab[a]
  BY <1>1, <1>2 DEF Page, SyncTypeOK
<1>8. /\ page.at = "open" /\ page.shows = s /\ page.applied = Running
      /\ page.recent <=> s # Running
      /\ page.timer <=> s # Running
  BY <1>2, <1>3, EditedIs
<1> HIDE DEF page
<1>9. CASE s # Running
  <2>1. \A m \in Media \ {n} : s[m] \notin Broken /\ capture'[m].config = s[m]
    BY <1>1, <1>2, <1>3, <1>4, SelectableHas, ShownIs
  <2>2. \A a \in Browsers \ {b} : WillHear(a)'
    <3>1. ASSUME NEW a \in Browsers \ {b} PROVE WillHear(a)'
      <4>1. /\ tab'[a] = tab[a] /\ tab[a].at = "open" /\ tab[a].applied = Running
            /\ tab[a].pending = Unset
        BY <1>1, <1>2, <1>3, <1>7 DEF Agreed, Known, Pending
      <4>2. tab[a].uses \in Conns /\ conn[tab[a].uses] # Unset
        BY <4>1, PageHas DEF SyncShape, SyncTypeOK, Linked
      <4>3. \A m \in Media : conn'[tab[a].uses].lease[m] = "held"
        BY <1>1, <4>2 DEF Quiet
      <4> QED
        BY <1>3, <4>1, <4>3 DEF WillHear, Listens
    <3> QED
      BY <3>1
  <2>3. capture'[n].config # s[n]
    <3>1. CASE capture[n].config = s[n]
      <4>1. \A m \in Media : capture[m].config = s[m]
        BY <1>4, <3>1
      <4>2. \A m \in Media : Running[m] = s[m]
        BY <1>2, <1>3, <4>1, SelectableHas, ShownIs
      <4> QED
        BY <1>3, <1>9, <4>2, SelectableSame
    <3> QED
      BY <1>1, <3>1
  <2>4. Starts(b, n)'
    BY <1>1, <1>2, <1>5, <1>6, <1>7, <1>8, <1>9, <2>1, <2>2, <2>3 DEF Starts
  <2> QED
    BY <2>4 DEF Follows
<1>10. CASE s = Running
  <2>1. \A m \in Media : s[m] \notin Broken
    BY <1>2, <1>3, <1>10, ShownIs
  <2>2. \A m \in Media : Instead(s)[m] = s[m]
    BY <2>1, InsteadIs
  <2>3. s \in {picked, Instead(picked)}'
    BY <1>1
  <2>4. Running' = Running /\ Instead(picked)' = Instead(s)
    BY <1>1 DEF Running, Shown, Instead
  <2>5. RunsChosen'
    BY <1>10, <2>2, <2>4 DEF RunsChosen
  <2>6. TellsChosen'
    BY <1>5 DEF TellsChosen
  <2>7. AsksChosen'
    BY <1>6 DEF AsksChosen
  <2>8. ShowsChosen'
    BY <1>2, <1>7, <1>8, <2>3 DEF ShowsChosen, Chosen
  <2>9. Learns'
    <3>1. \A a \in Browsers : tab'[a].shows = s
      BY <1>1, <1>7, <1>8, <1>10 DEF Agreed
    <3> QED
      BY <1>1, <3>1 DEF Learns
  <2> QED
    BY <2>5, <2>6, <2>7, <2>8, <2>9 DEF Follows, Spread
<1> QED
  BY <1>9, <1>10

\* Only the page of the change moves, on its way to connect with it.
LEMMA PageStarts ==
  ASSUME Combined, SyncShape, picked # Unset, NEW b \in Browsers, NEW n \in Media, Starts(b, n),
         NEW a \in Browsers,
         \/ Expire(a) \/ TimerFires(a) \/ Connects(a) \/ Opened(a)
         \/ \E l \in Lanes : Hear(a, l)
  PROVE  Starts(b, n)'
<1>1. /\ tab[b].shows = picked
      /\ \A d \in Browsers \ {b} : tab[d].at = "open" /\ ~tab[d].recent /\ ~tab[d].timer /\ WillHear(d)
      /\ \A c \in Conns : /\ \A l \in Lanes : inbox[c][l] = <<>>
                          /\ conn[c] # Unset => conn[c].unseen = {}
      /\ capture[n] # Unset => capture[n].config # picked[n]
      /\ \A m \in Media \ {n} : /\ picked[m] \notin Broken
                                /\ capture[m] # Unset => capture[m].config = picked[m]
  BY DEF Starts
<1>2. \/ tab[b].at = "open" /\ tab[b].timer /\ tab[b].applied # picked /\ Wanted = {}
      \/ tab[b].at = "waiting" /\ Wanted = {}
      \/ /\ tab[b].uses # Unset /\ Wanted = {tab[b].uses} /\ conn[tab[b].uses].asked = picked
         /\ ~tab[b].timer /\ conn[tab[b].uses].lease[n] = "wanted"
  BY DEF Starts
<1>3. /\ tab \in [Browsers -> Pages] /\ tab[b] \in Pages
      /\ tab[b].at = "waiting" <=> tab[b].uses = Unset
      /\ tab[b].timer => tab[b].at = "open"
  BY DEF SyncShape, SyncTypeOK, Linked
<1>4. ASSUME NEW l \in Lanes, Hear(a, l) PROVE FALSE
  BY <1>1, <1>4, HearIs
<1>5. a = b
  <2>1. Expire(a) \/ TimerFires(a) \/ Connects(a) \/ Opened(a)
    BY <1>4
  <2>2. tab[a].recent \/ tab[a].timer \/ tab[a].at = "waiting" \/ tab[a].at = "opening"
    BY <2>1, TimerFiresIs, ConnectsIs DEF Expire, Opened
  <2> QED
    BY <1>1, <2>2
<1>6. ASSUME NEW page \in Pages, Page(b, page), page.shows = tab[b].shows, UNCHANGED <<conn, inbox, capture, picked>>,
             page.timer = tab[b].timer, page.uses = tab[b].uses, page.applied = tab[b].applied \/ ~tab[b].timer,
             page.at = tab[b].at \/ (tab[b].at = "opening" /\ page.at = "open")
      PROVE  Starts(b, n)'
  <2>1. tab'[b] = page /\ \A d \in Browsers \ {b} : tab'[d] = tab[d]
    BY <1>3, <1>6 DEF Page
  <2>2. Wanted' = Wanted
    BY <1>6 DEF Wanted
  <2>3. \/ tab'[b].at = "open" /\ tab'[b].timer /\ tab'[b].applied # picked /\ Wanted' = {}
        \/ tab'[b].at = "waiting" /\ Wanted' = {}
        \/ /\ tab'[b].uses # Unset /\ Wanted' = {tab'[b].uses} /\ conn'[tab'[b].uses].asked = picked
           /\ ~tab'[b].timer /\ conn'[tab'[b].uses].lease[n] = "wanted"
    BY <1>2, <1>3, <1>6, <2>1, <2>2
  <2>4. \A d \in Browsers \ {b} : WillHear(d)'
    BY <1>1, <1>6, <2>1, WillHearStays
  <2> QED
    BY <1>1, <1>6, <2>1, <2>3, <2>4 DEF Starts
<1>7. CASE Expire(b)
  <2> DEFINE page == [tab[b] EXCEPT !.recent = FALSE]
  <2>1. /\ page \in Pages /\ page.at = tab[b].at /\ page.timer = tab[b].timer
        /\ page.shows = tab[b].shows /\ page.uses = tab[b].uses /\ page.applied = tab[b].applied
    BY <1>3 DEF Pages
  <2>2. Page(b, page) /\ UNCHANGED <<conn, inbox, capture, picked>>
    BY <1>7 DEF Expire
  <2> HIDE DEF page
  <2> QED
    BY <1>6, <2>1, <2>2
<1>8. CASE Opened(b)
  <2> DEFINE open  == [tab[b] EXCEPT !.at = "open"]
             asked == conn[tab[b].uses].asked
             page  == Marked(open, asked)
  <2>1. /\ open \in Pages /\ open.at = "open" /\ open.timer = tab[b].timer
        /\ open.shows = tab[b].shows /\ open.uses = tab[b].uses
    BY <1>3 DEF Pages
  <2>2. tab[b].at = "opening" /\ Page(b, page) /\ UNCHANGED <<conn, inbox, capture, picked>>
    BY <1>8 DEF Opened
  <2>3. asked \in Selectable
    <3>1. tab[b].uses \in Conns /\ conn[tab[b].uses] # Unset
      BY <1>3, <2>2, PageHas DEF SyncShape, Linked
    <3> QED
      BY <3>1 DEF SyncShape, SyncTypeOK, Connected
  <2> HIDE DEF open, asked
  <2>4. /\ page \in Pages /\ page.at = "open" /\ page.timer = tab[b].timer
        /\ page.shows = tab[b].shows /\ page.uses = tab[b].uses
    BY <2>1, <2>3, MarkedIs
  <2> HIDE DEF page
  <2>5. ~tab[b].timer
    BY <1>3, <2>2
  <2> QED
    BY <1>6, <2>2, <2>4, <2>5
<1>9. CASE TimerFires(b)
  <2>1. /\ tab[b].timer /\ tab[b].at = "open" /\ UNCHANGED <<capture, picked>>
        /\ \/ tab[b].shows = tab[b].applied /\ UNCHANGED <<conn, inbox>>
           \/ tab[b].uses \in Conns /\ conn[tab[b].uses] # Unset /\ Cut(tab[b].uses)
        /\ \E page \in Pages :
             /\ Page(b, page) /\ page.shows = tab[b].shows
             /\ \/ tab[b].shows = tab[b].applied /\ page.at = tab[b].at
                \/ page.at = "waiting"
    BY <1>9, TimerFiresIs
  <2>2. tab[b].applied # picked /\ Wanted = {}
    BY <1>2, <2>1
  <2> DEFINE c == tab[b].uses
  <2>3. c \in Conns /\ conn[c] # Unset /\ Cut(c)
    BY <1>1, <2>1, <2>2
  <2>4. /\ tab'[b].shows = picked /\ tab'[b].at = "waiting"
        /\ \A d \in Browsers \ {b} : tab'[d] = tab[d]
    BY <1>1, <1>3, <2>1, <2>2 DEF Page
  <2>5. Wanted' = {}
    BY <2>2, <2>3, CutAsks
  <2>6. /\ conn'[c].unseen = {} /\ \A l \in Lanes : inbox'[c][l] = <<>>
        /\ \A d \in Conns \ {c} : conn'[d] = conn[d] /\ inbox'[d] = inbox[d]
    BY <2>3, CutIs DEF SyncShape
  <2>7. \A d \in Conns : /\ \A l \in Lanes : inbox'[d][l] = <<>>
                         /\ conn'[d] # Unset => conn'[d].unseen = {}
    BY <1>1, <2>6
  <2>8. \A d \in Browsers \ {b} : WillHear(d)'
    <3>1. conn'[c].lease = conn[c].lease
      BY <2>3, CutIs DEF SyncShape
    <3> HIDE DEF c
    <3> QED
      BY <1>1, <2>4, <2>6, <3>1, WillHearStays
  <2> HIDE DEF c
  <2> QED
    BY <1>1, <2>1, <2>4, <2>5, <2>7, <2>8 DEF Starts
<1>10. CASE Connects(b)
  <2>1. tab[b].at = "waiting" /\ UNCHANGED <<inbox, capture, picked>>
    BY <1>10, ConnectsIs
  <2>2. PICK c \in Conns :
          /\ conn[c] = Unset
          /\ \E page \in Pages :
               /\ page.at = "opening" /\ page.uses = c /\ Page(b, page)
               /\ page.timer = FALSE /\ page.shows = tab[b].shows
          /\ \E k \in Connected :
               /\ k.asked = tab[b].shows /\ k.cut = FALSE /\ k.unseen = Lanes \cap {"control"}
               /\ k.lease = [m \in Media |-> "wanted"]
               /\ conn' = [conn EXCEPT ![c] = k]
    BY <1>10, ConnectsIs
  <2>3. /\ tab'[b].uses = c /\ ~tab'[b].timer /\ tab'[b].shows = picked
        /\ \A d \in Browsers \ {b} : tab'[d] = tab[d]
    BY <1>1, <1>3, <2>2 DEF Page
  <2>4. /\ conn'[c] # Unset /\ conn'[c].asked = picked /\ conn'[c].unseen = {}
        /\ \A m \in Media : conn'[c].lease[m] = "wanted"
        /\ \A d \in Conns \ {c} : conn'[d] = conn[d]
    <3>1. PICK k \in Connected :
            /\ k.asked = tab[b].shows /\ k.cut = FALSE /\ k.unseen = Lanes \cap {"control"}
            /\ k.lease = [m \in Media |-> "wanted"]
            /\ conn' = [conn EXCEPT ![c] = k]
      BY <2>2
    <3>2. k # Unset
      BY SyncAssumption
    <3> QED
      BY <1>1, <3>1, <3>2, OneLane DEF SyncShape, SyncTypeOK
  <2>5. Wanted = {}
    BY <1>2, <1>3, <2>1
  <2>6. Wanted' = {c}
    BY <2>4, <2>5 DEF Wanted
  <2>7. \A d \in Conns : /\ \A l \in Lanes : inbox'[d][l] = <<>>
                         /\ conn'[d] # Unset => conn'[d].unseen = {}
    BY <1>1, <2>1, <2>4
  <2>8. c # Unset
    BY ConnsAre
  <2>9. \A d \in Browsers \ {b} : WillHear(d)'
    BY <1>1, <2>2, <2>3, <2>4, WillHearStays
  <2> QED
    BY <1>1, <2>1, <2>3, <2>4, <2>6, <2>7, <2>8, <2>9 DEF Starts
<1> QED
  BY <1>4, <1>5, <1>7, <1>8, <1>9, <1>10

\* A session takes the change to its hub, or is of a connection that is over.
LEMMA SessionStarts ==
  ASSUME Combined, SyncShape, picked # Unset, NEW b \in Browsers, NEW n \in Media, Starts(b, n),
         NEW c \in Conns,
         \/ \E m \in Media : Acquire(c, m) \/ Leaves(c, m)
         \/ \E l \in Lanes : Tell(c, l)
  PROVE  (Spread /\ Learns)' \/ Starts(b, n)'
<1>1. /\ tab[b].shows = picked
      /\ \A d \in Browsers \ {b} : tab[d].at = "open" /\ ~tab[d].recent /\ ~tab[d].timer /\ WillHear(d)
      /\ \A d \in Conns : /\ \A l \in Lanes : inbox[d][l] = <<>>
                          /\ conn[d] # Unset => conn[d].unseen = {}
      /\ capture[n] # Unset => capture[n].config # picked[n]
      /\ \A m \in Media \ {n} : /\ picked[m] \notin Broken
                                /\ capture[m] # Unset => capture[m].config = picked[m]
  BY DEF Starts
<1>2. \/ tab[b].at = "open" /\ tab[b].timer /\ tab[b].applied # picked /\ Wanted = {}
      \/ tab[b].at = "waiting" /\ Wanted = {}
      \/ /\ tab[b].uses # Unset /\ Wanted = {tab[b].uses} /\ conn[tab[b].uses].asked = picked
         /\ ~tab[b].timer /\ conn[tab[b].uses].lease[n] = "wanted"
  BY DEF Starts
<1>3. /\ picked \in Selectable /\ SyncTypeOK
      /\ tab[b].uses \in Conns \cup {Unset}
      /\ tab[b].uses # Unset => conn[tab[b].uses] # Unset /\ ~conn[tab[b].uses].cut
  BY PageHas DEF SyncShape, SyncTypeOK, Linked
<1>4. ASSUME NEW l \in Lanes, Tell(c, l) PROVE FALSE
  BY <1>1, <1>4, TellIs
<1>5. ASSUME NEW m \in Media, Leaves(c, m) PROVE Starts(b, n)'
  <2>1. /\ conn[c] # Unset /\ conn[c].cut /\ UNCHANGED <<tab, inbox, picked>>
        /\ \A d \in Conns \ {c} : conn'[d] = conn[d]
        /\ conn'[c] # Unset => /\ conn'[c].unseen = conn[c].unseen
                               /\ conn'[c].lease = [conn[c].lease EXCEPT ![m] = "left"]
        /\ \A k \in Media \ {m} : capture'[k] = capture[k]
        /\ capture'[m] \in {capture[m], Unset}
    BY <1>5, LeavesIs
  <2>2. conn[c].lease \in [Media -> {"wanted", "held", "left"}]
    BY <2>1 DEF SyncShape, SyncTypeOK, Connected
  <2>3. c # tab[b].uses
    BY <1>3, <2>1, ConnsAre
  <2>4. c \notin Wanted
    BY <1>2, <2>3
  <2>5. Wanted' = Wanted
    <3>1. c \notin Wanted'
      BY <2>1, <2>2, <2>4 DEF Wanted
    <3>2. \A d \in Conns \ {c} : d \in Wanted' <=> d \in Wanted
      BY <2>1 DEF Wanted
    <3>3. Wanted \subseteq Conns /\ Wanted' \subseteq Conns
      BY DEF Wanted
    <3> QED
      BY <2>4, <3>1, <3>2, <3>3
  <2>6. \A k \in Media : capture'[k] \in {capture[k], Unset}
    BY <2>1
  <2>7. \A d \in Conns : /\ \A l \in Lanes : inbox'[d][l] = <<>>
                         /\ conn'[d] # Unset => conn'[d].unseen = {}
    BY <1>1, <2>1
  <2>8. tab[b].uses # Unset => conn'[tab[b].uses] = conn[tab[b].uses]
    BY <1>3, <2>1, <2>3
  <2>9. \A d \in Browsers \ {b} : WillHear(d)'
    BY <1>1, <2>1, WillHearStays
  <2> QED
    BY <1>1, <1>2, <2>1, <2>5, <2>6, <2>7, <2>8, <2>9 DEF Starts
<1>6. ASSUME NEW m \in Media, Acquire(c, m) PROVE (Spread /\ Learns)' \/ Starts(b, n)'
  <2>1. /\ conn[c] # Unset /\ conn[c].lease[m] = "wanted"
        /\ m = "audio" => conn[c].lease["video"] = "held"
        /\ UNCHANGED <<tab, inbox, picked>>
        /\ Starting(c, m) => capture'[m] = Runs(m, conn[c].asked[m])
        /\ ~Starting(c, m) => capture'[m] = capture[m]
        /\ \A k \in Media \ {m} : capture'[k] = capture[k]
        /\ conn'[c].lease = [conn[c].lease EXCEPT ![m] = "held"]
        /\ \A d \in Conns \ {c} : conn[d] # Unset => conn'[d].lease = conn[d].lease
        /\ conn' \in [Conns -> Connected \cup {Unset}]
    BY <1>6, AcquireIs
  <2>2. \A d \in Conns : /\ conn[d] = Unset <=> conn'[d] = Unset
                         /\ conn[d] # Unset => conn'[d].asked = conn[d].asked
    BY <1>6, AcquireIs
  <2>3. conn[c].lease \in [Media -> {"wanted", "held", "left"}]
    BY <2>1 DEF SyncShape, SyncTypeOK, Connected
  <2>4. c \in Wanted
    BY <2>1 DEF Wanted
  <2>5. /\ c = tab[b].uses /\ Wanted = {c} /\ conn[c].asked = picked
        /\ ~tab[b].timer /\ conn[c].lease[n] = "wanted"
    BY <1>2, <2>4
  <2>6. Wanted' \subseteq {c}
    <3>1. ASSUME NEW d \in Wanted' PROVE d = c
      <4>1. d \in Conns /\ conn'[d] # Unset /\ \E k \in Media : conn'[d].lease[k] = "wanted"
        BY <3>1 DEF Wanted
      <4>2. CASE d # c
        <5>1. d \in Wanted
          BY <2>1, <2>2, <4>1, <4>2 DEF Wanted
        <5> QED
          BY <2>5, <5>1
      <4> QED
        BY <4>2
    <3> QED
      BY <3>1
  <2>7. conn'[c].asked = picked
    BY <2>1, <2>2, <2>5
  <2>8. picked[m] \in Values[m]
    BY <1>3, SelectableHas
  <2>9. CASE m = n
    <3>1. \A k \in Media : Shown(capture'[k]) \in {Instead(picked)[k], Unset}
      <4>1. ASSUME ~Starting(c, m) PROVE Shown(capture'[m]) = Instead(picked)[m]
        <5>1. capture[m] # Unset /\ capture[m].config = picked[m] /\ capture'[m] = capture[m]
          BY <2>1, <2>5, <4>1 DEF Starting
        <5>2. Running[m] = picked[m] /\ picked[m] \notin Broken /\ Running[m] = Shown(capture[m])
          BY <1>3, <2>8, <5>1, ShownIs
        <5> QED
          BY <1>3, <5>1, <5>2, InsteadIs
      <4>2. Shown(capture'[m]) = Instead(picked)[m]
        BY <1>3, <2>1, <2>5, <4>1, InsteadIs
      <4>3. ASSUME NEW k \in Media \ {m} PROVE Shown(capture'[k]) \in {Instead(picked)[k], Unset}
        <5>1. capture'[k] = capture[k] /\ Running[k] = Shown(capture[k])
          BY <1>3, <2>1, ShownIs
        <5>2. CASE capture[k] = Unset
          BY <1>3, <5>1, <5>2, ShownIs
        <5>3. CASE capture[k] # Unset
          <6>1. capture[k].config = picked[k] /\ picked[k] \notin Broken
            BY <1>1, <2>9, <5>3
          <6>2. picked[k] \in Values[k]
            BY <1>3, SelectableHas
          <6>3. Running[k] = picked[k]
            BY <1>3, <5>3, <6>1, <6>2, ShownIs
          <6> QED
            BY <1>3, <5>1, <6>1, <6>3, InsteadIs
        <5> QED
          BY <5>2, <5>3
      <4> QED
        BY <4>2, <4>3
    <3>2. Instead(picked)' = Instead(picked) /\ Chosen' = Chosen
      BY <2>1 DEF Instead, Chosen
    <3>3. \A k \in Media : Running'[k] = Shown(capture'[k])
      BY DEF Running, Shown
    <3>4. RunsChosen'
      BY <3>1, <3>2, <3>3 DEF RunsChosen
    <3>5. TellsChosen'
      BY <1>1, <2>1 DEF TellsChosen
    <3>6. AsksChosen'
      BY <2>6, <2>7, <3>2 DEF AsksChosen, Chosen
    <3>7. ShowsChosen'
      BY <1>1, <2>1, <3>2 DEF ShowsChosen, Chosen
    <3>8. Learns'
      <4>1. ASSUME NEW d \in Browsers \ {b} PROVE Listens(d)' /\ conn'[tab[d].uses].unseen # {}
        <5>1. WillHear(d) /\ tab[d].at = "open" /\ tab'[d] = tab[d]
          BY <1>1, <2>1
        <5>2. /\ tab[d].uses \in Conns /\ conn[tab[d].uses] # Unset /\ ~conn[tab[d].uses].cut
              /\ tab[d].uses # c
          BY <2>5, <5>1, ConnsAre, PageHas DEF SyncShape, SyncTypeOK, Linked
        <5>3. Starting(c, m)
          BY <1>1, <2>5, <2>9 DEF Starting
        <5>4. conn'[tab[d].uses].unseen # {}
          BY <1>6, <5>1, <5>2, <5>3, AcquireTells DEF WillHear
        <5> QED
          BY <5>1, <5>4 DEF WillHear, Listens
      <4>2. \A d \in Browsers : tab'[d].shows = picked' \/ (Listens(d)' /\ IsTold(d)')
        BY <1>1, <2>1, <4>1 DEF IsTold
      <4> QED
        BY <4>2 DEF Learns
    <3> QED
      BY <3>4, <3>5, <3>6, <3>7, <3>8 DEF Spread
  <2>10. CASE m # n
    <3>1. m = "video" /\ n = "audio"
      BY <2>1, <2>5, <2>10 DEF Media
    <3>2. conn'[c].lease[n] = "wanted" /\ conn'[c] # Unset
      BY <2>1, <2>2, <2>3, <2>5, <2>10
    <3>3. Wanted' = {c}
      BY <2>6, <3>2 DEF Wanted
    <3>4. capture'[m] # Unset => capture'[m].config = picked[m]
      BY <1>1, <2>1, <2>5, <2>8, <2>10, RunsIs DEF Starting
    <3>5. \A k \in Media \ {n} : capture'[k] # Unset => capture'[k].config = picked[k]
      BY <1>1, <2>1, <3>4
    <3>6. Starting(c, m) => \A d \in Conns : conn[d] # Unset => conn[d].lease[m] # "held"
      BY <1>1, <2>5, <2>10 DEF Starting, SyncShape, Held
    <3>7. ASSUME NEW d \in Conns, conn'[d] # Unset, NEW l \in conn'[d].unseen PROVE FALSE
      <4>1. conn[d] # Unset /\ conn[d] \in Connected /\ conn[d].unseen = {}
        BY <1>1, <2>2, <3>7 DEF SyncShape, SyncTypeOK
      <4>2. l = "all" /\ l # m
        BY <2>1, <3>1, <3>7, OneLane DEF Connected
      <4>3. Starting(c, m) /\ l \in Watching([conn[d] EXCEPT !.lease = conn'[d].lease])
        <5>1. \A k \in conn'[d].unseen :
                \/ k \in conn[d].unseen
                \/ Starting(c, m) /\ k \in Watching([conn[d] EXCEPT !.lease = conn'[d].lease])
                \/ d = c /\ k = m
                \/ d = c /\ k = "all" /\ m = "audio"
          BY <1>6, <4>1, AcquireIs
        <5> QED
          BY <3>1, <3>7, <4>1, <4>2, <5>1
      <4> DEFINE k == [conn[d] EXCEPT !.lease = conn'[d].lease]
      <4>4. k.lease = conn'[d].lease
        BY <4>1 DEF Connected
      <4>5. \A j \in Media : k.lease[j] = "held"
        <5> HIDE DEF k
        <5> QED
          BY <4>2, <4>3 DEF Watching, k
      <4>6. CASE d = c
        BY <3>2, <4>4, <4>5, <4>6
      <4>7. CASE d # c
        BY <2>1, <3>6, <4>1, <4>3, <4>4, <4>5, <4>7
      <4> QED
        BY <4>6, <4>7
    <3>8. \A d \in Conns : conn'[d] # Unset => conn'[d].unseen = {}
      BY <3>7
    <3>9. \A d \in Browsers \ {b} : WillHear(d)'
      <4>1. ASSUME NEW d \in Browsers \ {b} PROVE WillHear(d)'
        <5>1. tab[d].uses # c
          BY <2>5, ConnsAre DEF SyncShape, Linked
        <5> QED
          BY <1>1, <2>1, <5>1, WillHearStays
      <4> QED
        BY <4>1
    <3> QED
      BY <1>1, <2>1, <2>5, <2>7, <2>10, <3>2, <3>3, <3>5, <3>8, <3>9, ConnsAre DEF Starts
  <2> QED
    BY <2>9, <2>10
<1> QED
  BY <1>4, <1>5, <1>6

\* A page that has not heard of the change will, and shows it when it has.
LEMMA LearnsStays ==
  ASSUME Combined, SyncShape, Whole, Spread, Learns, picked # Unset, picked' = picked,
         \/ \E a \in Browsers : \/ Expire(a) \/ TimerFires(a) \/ Connects(a) \/ Opened(a)
                              \/ \E l \in Lanes : Hear(a, l)
         \/ \E c \in Conns : \/ \E m \in Media : Acquire(c, m) \/ Leaves(c, m)
                           \/ \E l \in Lanes : Tell(c, l)
  PROVE  Learns'
<1> SUFFICES ASSUME picked["video"] \notin Broken, NEW d \in Browsers
             PROVE  tab'[d].shows = picked \/ (Listens(d)' /\ IsTold(d)')
  BY DEF Learns
<1>1. /\ tab \in [Browsers -> Pages] /\ tab[d] \in Pages /\ picked \in Selectable
      /\ tab[d].shows = picked \/ (Listens(d) /\ IsTold(d))
      /\ TellsChosen
      /\ tab[d].at = "waiting" \/ tab[d].recent \/ tab[d].timer => tab[d].shows = picked
  <2>1. Instead(picked) = picked
    <3>1. picked \in Selectable
      BY DEF SyncShape, SyncTypeOK
    <3> QED
      BY <3>1 DEF Instead, Selectable, Settings, Media
  <2> QED
    BY <2>1 DEF Learns, SyncShape, SyncTypeOK, Spread, ShowsChosen, Chosen
<1>2. Instead(picked) = picked
  BY <1>1 DEF Instead, Selectable, Settings, Media
<1>3. ASSUME tab[d].shows # picked
      PROVE  /\ tab[d].at = "open" /\ tab[d].uses \in Conns /\ conn[tab[d].uses] # Unset
             /\ ~conn[tab[d].uses].cut
             /\ ~tab[d].recent /\ ~tab[d].timer
             /\ Listens(d) /\ IsTold(d)
  <2>1. Listens(d) /\ IsTold(d) /\ tab[d].at = "open"
    BY <1>1, <1>3 DEF Listens
  <2> QED
    BY <1>1, <1>3, <2>1, PageHas DEF SyncShape, Linked
<1>4. ASSUME tab'[d] = tab[d],
             tab[d].shows # picked => /\ conn[tab[d].uses].unseen # {} => conn'[tab[d].uses].unseen # {}
                                      /\ inbox'[tab[d].uses] = inbox[tab[d].uses]
      PROVE  tab'[d].shows = picked \/ (Listens(d)' /\ IsTold(d)')
  BY <1>1, <1>4 DEF Listens, IsTold
<1>5. ASSUME NEW a \in Browsers \ {d}, NEW page \in Pages, Page(a, page) PROVE tab'[d] = tab[d]
  BY <1>1, <1>5 DEF Page
<1>6. ASSUME NEW a \in Browsers \ {d}, tab[d].shows # picked,
             tab[a].uses \in Conns, conn[tab[a].uses] # Unset, Cut(tab[a].uses)
      PROVE  conn'[tab[d].uses] = conn[tab[d].uses] /\ inbox'[tab[d].uses] = inbox[tab[d].uses]
  <2>1. tab[d].uses \in Conns \ {tab[a].uses}
    BY <1>3, <1>6, ConnsAre DEF SyncShape, Linked
  <2> QED
    BY <1>6, <2>1, CutIs DEF SyncShape
<1>7. ASSUME NEW a \in Browsers, Expire(a) PROVE tab'[d].shows = picked \/ (Listens(d)' /\ IsTold(d)')
  <2>1. /\ tab'[d].shows = tab[d].shows /\ tab'[d].at = tab[d].at /\ tab'[d].applied = tab[d].applied
        /\ tab'[d].pending = tab[d].pending /\ tab'[d].uses = tab[d].uses
    BY <1>1, <1>7 DEF Expire, Page, Pages
  <2>2. UNCHANGED <<conn, inbox>>
    BY <1>7 DEF Expire
  <2> QED
    BY <1>1, <2>1, <2>2 DEF Listens, IsTold
<1>8. ASSUME NEW a \in Browsers, TimerFires(a) PROVE tab'[d].shows = picked \/ (Listens(d)' /\ IsTold(d)')
  <2>1. /\ tab[a].timer
        /\ \/ UNCHANGED <<conn, inbox>>
           \/ tab[a].uses \in Conns /\ conn[tab[a].uses] # Unset /\ Cut(tab[a].uses)
        /\ \E page \in Pages : Page(a, page) /\ page.shows = tab[a].shows
    BY <1>8, TimerFiresIs
  <2>2. CASE a = d
    BY <1>1, <2>1, <2>2 DEF Page
  <2>3. CASE a # d
    BY <1>4, <1>5, <1>6, <2>1, <2>3
  <2> QED
    BY <2>2, <2>3
<1>9. ASSUME NEW a \in Browsers, Connects(a) PROVE tab'[d].shows = picked \/ (Listens(d)' /\ IsTold(d)')
  <2>1. tab[a].at = "waiting" /\ UNCHANGED inbox
    BY <1>9, ConnectsIs
  <2>2. PICK c \in Conns :
          /\ conn[c] = Unset
          /\ \E page \in Pages :
               /\ page.at = "opening" /\ page.uses = c /\ Page(a, page)
               /\ page.timer = FALSE /\ page.shows = tab[a].shows
          /\ \E k \in Connected :
               /\ k.asked = tab[a].shows /\ k.cut = FALSE /\ k.unseen = Lanes \cap {"control"}
               /\ k.lease = [m \in Media |-> "wanted"]
               /\ conn' = [conn EXCEPT ![c] = k]
    BY <1>9, ConnectsIs
  <2>3. CASE a = d
    BY <1>1, <2>1, <2>2, <2>3 DEF Page
  <2>4. CASE a # d
    <3>1. \A e \in Conns \ {c} : conn'[e] = conn[e]
      BY <2>2 DEF SyncShape, SyncTypeOK
    <3>2. tab[d].shows # picked => conn'[tab[d].uses] = conn[tab[d].uses]
      BY <1>3, <2>2, <3>1
    <3>3. tab'[d] = tab[d]
      BY <1>5, <2>2, <2>4
    <3> QED
      BY <1>4, <2>1, <3>2, <3>3
  <2> QED
    BY <2>3, <2>4
<1>10. ASSUME NEW a \in Browsers, Opened(a) PROVE tab'[d].shows = picked \/ (Listens(d)' /\ IsTold(d)')
  <2>1. tab[a].at = "opening" /\ UNCHANGED <<conn, inbox>>
        /\ Page(a, Marked([tab[a] EXCEPT !.at = "open"], conn[tab[a].uses].asked))
    BY <1>10 DEF Opened
  <2>2. CASE a = d
    <3>1. tab[d].shows = picked
      BY <1>3, <2>1, <2>2
    <3>2. tab'[d].shows = tab[d].shows
      BY <1>1, <2>1, <2>2 DEF Page, Marked, Pages
    <3> QED
      BY <3>1, <3>2
  <2>3. CASE a # d
    BY <1>1, <1>4, <2>1, <2>3 DEF Page
  <2> QED
    BY <2>2, <2>3
<1>11. ASSUME NEW a \in Browsers, NEW l \in Lanes, Hear(a, l)
       PROVE  tab'[d].shows = picked \/ (Listens(d)' /\ IsTold(d)')
  <2> DEFINE c == tab[a].uses
             s == Heard(a, Head(inbox[c][l]))
  <2>1. /\ c \in Conns /\ inbox[c][l] # <<>> /\ Head(inbox[c][l]) \in Hellos
        /\ \/ /\ inbox' = [inbox EXCEPT ![c][l] = Tail(@)] /\ UNCHANGED conn
              /\ \E page \in Pages :
                   /\ page.at = tab[a].at /\ page.uses = c /\ Page(a, page)
                   /\ page.timer => tab[a].timer
                   /\ page.recent => tab[a].recent
                   /\ page.shows \in {tab[a].shows, s}
           \/ /\ s # tab[a].shows /\ Cut(c)
              /\ \E page \in Pages : /\ page.at = "waiting" /\ page.uses = Unset /\ page.timer = FALSE
                                     /\ page.shows = s /\ Page(a, page)
    BY <1>11, HearIs
  <2>2. s = picked
    BY <1>1, <1>2, <2>1, HearsChosen
  <2>3. CASE a = d
    <3>1. CASE tab[d].shows = picked
      <4>1. \E page \in Pages : Page(d, page) /\ page.shows \in {picked}
        <5> HIDE DEF s
        <5> QED
          BY <2>1, <2>2, <2>3, <3>1
      <4> QED
        BY <1>1, <4>1 DEF Page
    <3>2. CASE tab[d].shows # picked
      <4>1. tab'[d].shows = s
        BY <1>3, <1>11, <2>3, <3>2, HearTakes
      <4> QED
        BY <2>2, <4>1
    <3> QED
      BY <3>1, <3>2
  <2>4. CASE a # d
    <3> HIDE DEF s
    <3>1. tab'[d] = tab[d]
      BY <1>5, <2>1, <2>4
    <3>2. conn[c] # Unset
      BY <2>1 DEF SyncShape, CutIsDeaf
    <3>3. ASSUME tab[d].shows # picked
          PROVE  /\ conn'[tab[d].uses] = conn[tab[d].uses]
                 /\ inbox'[tab[d].uses] = inbox[tab[d].uses]
      <4>1. tab[d].uses \in Conns \ {c}
        BY <1>3, <2>1, <2>4, <3>3, ConnsAre DEF SyncShape, Linked
      <4>2. CASE inbox' = [inbox EXCEPT ![c][l] = Tail(@)] /\ UNCHANGED conn
        BY <4>1, <4>2 DEF SyncShape, SyncTypeOK
      <4>3. CASE Cut(c)
        BY <1>6, <2>1, <2>4, <3>2, <3>3, <4>3
      <4> QED
        BY <2>1, <4>2, <4>3
    <3> QED
      BY <1>4, <3>1, <3>3
  <2> QED
    BY <2>3, <2>4
<1>12. ASSUME NEW c \in Conns, NEW m \in Media, Acquire(c, m)
       PROVE  tab'[d].shows = picked \/ (Listens(d)' /\ IsTold(d)')
  <2>1. UNCHANGED <<tab, inbox>>
    BY <1>12, AcquireIs
  <2>2. tab[d].shows # picked => conn[tab[d].uses].unseen \subseteq conn'[tab[d].uses].unseen
    BY <1>3, <1>12, AcquireTells
  <2> QED
    BY <1>4, <2>1, <2>2
<1>13. ASSUME NEW c \in Conns, NEW m \in Media, Leaves(c, m)
       PROVE  tab'[d].shows = picked \/ (Listens(d)' /\ IsTold(d)')
  <2>1. conn[c].cut /\ UNCHANGED <<tab, inbox>> /\ \A e \in Conns \ {c} : conn'[e] = conn[e]
    BY <1>13, LeavesIs
  <2>2. tab[d].shows # picked => conn'[tab[d].uses] = conn[tab[d].uses]
    BY <1>3, <2>1
  <2> QED
    BY <1>4, <2>1, <2>2
<1>14. ASSUME NEW c \in Conns, NEW l \in Lanes, Tell(c, l)
       PROVE  tab'[d].shows = picked \/ (Listens(d)' /\ IsTold(d)')
  <2>1. UNCHANGED tab /\ conn[c] # Unset /\ l \in conn[c].unseen
    BY <1>14, TellIs
  <2>2. CASE c = tab[d].uses
    <3>1. conn[c].lease["video"] = "held" /\ capture["video"] # Unset
      BY <2>1 DEF Whole, SyncShape, Held, Media
    <3>2. inbox'[c][l] # <<>>
      BY <1>14, <3>1, TellSays
    <3> QED
      BY <1>1, <2>1, <2>2, <3>2 DEF Listens, IsTold
  <2>3. CASE c # tab[d].uses
    <3>1. \A e \in Conns \ {c} : conn'[e] = conn[e] /\ inbox'[e] = inbox[e]
      BY <1>14 DEF Tell, SyncShape, SyncTypeOK
    <3> QED
      BY <1>3, <1>4, <2>1, <2>3, <3>1
  <2> QED
    BY <2>2, <2>3
<1> QED
  BY <1>7, <1>8, <1>9, <1>10, <1>11, <1>12, <1>13, <1>14

\* Every step keeps the change on its way, or lets it arrive.
LEMMA FollowsStays ==
  ASSUME Combined, SyncShape, Whole, Pending, Follows, [SyncNext]_syncVars, [OneChange]_syncVars
  PROVE  Follows'
<1>1. CASE UNCHANGED syncVars
  <2>1. /\ UNCHANGED <<tab, conn, inbox, capture, picked>>
        /\ Wanted' = Wanted /\ Chosen' = Chosen /\ Running' = Running /\ Instead(picked)' = Instead(picked)
    BY <1>1 DEF syncVars, Wanted, Chosen, Running, Shown, Instead
  <2>2. Spread => Spread'
    BY <2>1 DEF Spread, RunsChosen, TellsChosen, AsksChosen, ShowsChosen
  <2>3. \A b \in Browsers : (Listens(b) <=> Listens(b)') /\ (WillHear(b) <=> WillHear(b)') /\ (IsTold(b) <=> IsTold(b)')
    BY <2>1 DEF Listens, WillHear, IsTold
  <2>4. Learns => Learns'
    BY <2>1, <2>3 DEF Learns
  <2>5. ASSUME NEW b \in Browsers, NEW n \in Media, Starts(b, n) PROVE Starts(b, n)'
    BY <2>1, <2>3, <2>5 DEF Starts
  <2> QED
    BY <2>1, <2>2, <2>4, <2>5 DEF Follows
<1>2. CASE SyncNext /\ ~UNCHANGED syncVars
  <2>1. OneChange
    BY <1>2
  <2>2. CASE \E b \in Browsers, s \in Selectable : Edit(b, s)
    BY <2>1, <2>2, PickFollows DEF Follows
  <2>3. CASE \E b \in Browsers : Lost(b)
    BY <2>3 DEF Lost, Follows
  <2>4. ASSUME NEW b \in Browsers,
               \/ Expire(b) \/ TimerFires(b) \/ Connects(b) \/ Opened(b)
               \/ \E l \in Lanes : Hear(b, l)
        PROVE  Follows'
    <3>1. picked' = picked
      BY <2>4, TimerFiresIs, ConnectsIs, HearIs DEF Expire, Opened
    <3>2. CASE picked # Unset
      <4>1. CASE Spread /\ Learns
        <5>1. Spread'
          BY <2>4, <3>2, <4>1, PageFollows
        <5>2. Learns'
          BY <2>4, <3>1, <3>2, <4>1, LearnsStays
        <5> QED
          BY <5>1, <5>2 DEF Follows
      <4>2. ASSUME NEW a \in Browsers, NEW n \in Media, Starts(a, n) PROVE Follows'
        BY <2>4, <3>2, <4>2, PageStarts DEF Follows
      <4> QED
        BY <3>2, <4>1, <4>2 DEF Follows
    <3> QED
      BY <3>1, <3>2 DEF Follows
  <2>5. ASSUME NEW c \in Conns,
               \/ \E m \in Media : Acquire(c, m) \/ Leaves(c, m)
               \/ \E l \in Lanes : Tell(c, l)
        PROVE  Follows'
    <3>1. picked' = picked
      BY <2>5, AcquireIs, LeavesIs, TellIs
    <3>2. CASE picked # Unset
      <4>1. CASE Spread /\ Learns
        <5>1. Spread'
          BY <2>5, <3>2, <4>1, SessionFollows
        <5>2. Learns'
          BY <2>5, <3>1, <3>2, <4>1, LearnsStays
        <5> QED
          BY <5>1, <5>2 DEF Follows
      <4>2. ASSUME NEW a \in Browsers, NEW n \in Media, Starts(a, n) PROVE Follows'
        BY <2>5, <3>2, <4>2, SessionStarts DEF Follows
      <4> QED
        BY <3>2, <4>1, <4>2 DEF Follows
    <3> QED
      BY <3>1, <3>2 DEF Follows
  <2> QED
    BY <1>2, <2>2, <2>3, <2>4, <2>5 DEF SyncNext
<1> QED
  BY <1>1, <1>2

\* What has arrived, or is on no way, runs, and who is not about to hear of it shows it.
LEMMA ArrivedRuns == ASSUME Combined, SyncShape, Follows PROVE LastPickRuns /\ LastPickShown
<1> SUFFICES ASSUME Quiet, picked # Unset
             PROVE  Running = Instead(picked) /\ (picked["video"] \notin Broken => Agreed)
  BY DEF LastPickRuns, LastPickShown
<1>1. \A b \in Browsers : tab[b].at = "open" /\ ~tab[b].timer
  BY DEF Quiet
<1>2. Wanted = {}
  BY DEF Quiet, Wanted
<1>3. \A b \in Browsers, n \in Media : ~Starts(b, n)
  BY <1>1, <1>2 DEF Starts
<1>4. RunsChosen /\ Learns
  BY <1>3 DEF Follows, Spread
<1>5. \A b \in Browsers : tab[b].uses \in Conns /\ conn[tab[b].uses] # Unset
  BY <1>1, PageHas DEF SyncShape, SyncTypeOK, Linked
<1>6. PICK b \in Browsers : TRUE
  BY SyncAssumption
<1>7. \A m \in Media : capture[m] # Unset
  BY <1>5, <1>6 DEF Quiet, SyncShape, Held
<1>8. \A m \in Media : Running[m] = Instead(picked)[m] /\ Running[m] \in Values[m]
  BY <1>4, <1>7, ShownIs DEF SyncShape, RunsChosen
<1>9. Running \in Selectable
  BY <1>8, SelectableMade DEF Running
<1>10. picked \in Selectable /\ Instead(picked) \in Selectable
  BY InsteadIs DEF SyncShape, SyncTypeOK
<1>11. Running = Instead(picked)
  BY <1>8, <1>9, <1>10, SelectableSame
<1>12. ASSUME picked["video"] \notin Broken PROVE Agreed
  <2>1. \A a \in Browsers : ~IsTold(a)
    BY <1>5 DEF Quiet, IsTold
  <2>2. \A a \in Browsers : tab[a].shows = picked
    BY <1>4, <1>12, <2>1 DEF Learns
  <2>3. Instead(picked) = picked
    BY <1>10, <1>12 DEF Instead, Selectable, Settings, Media
  <2> QED
    BY <1>11, <2>2, <2>3 DEF Agreed
<1> QED
  BY <1>11, <1>12

\* Where one session has all media, and users change one medium at a time while the
\* other runs as it was asked to, what was picked last is what runs, or its fallback,
\* once nothing is under way, and all pages show it, but for a fallback
\* (SettingsSync!LastPickRuns, LastPickShown): for any number of browsers, connections,
\* reconnects, hellos and changes.  The code has the opposite where each medium has a
\* session of its own.
THEOREM PickedRuns ==
  ASSUME Combined PROVE SyncSpec /\ [][OneChange]_syncVars => [](LastPickRuns /\ LastPickShown)
<1>1. SyncInit => SyncShape /\ Whole /\ Pending /\ Follows
  <2>1. SyncInit => Whole /\ Follows
    BY DEF SyncInit, Whole, Follows
  <2>2. SyncInit => Pending
    <3>1. \A s \in Stored : NewPage(s).pending = Unset
      BY DEF NewPage
    <3> QED
      BY <3>1 DEF SyncInit, Pending
  <2> QED
    BY <2>1, <2>2, SyncInitIsGood
<1>2. SyncShape /\ Whole /\ Pending /\ Follows /\ [SyncNext]_syncVars /\ [OneChange]_syncVars
        => (SyncShape /\ Whole /\ Pending /\ Follows)'
  BY SyncStepIsGood, WholeStays, PendingStays, FollowsStays
<1>3. SyncShape /\ Whole /\ Pending /\ Follows => LastPickRuns /\ LastPickShown
  BY ArrivedRuns
<1> QED
  BY <1>1, <1>2, <1>3, PTL DEF SyncSpec
=============================================================================
