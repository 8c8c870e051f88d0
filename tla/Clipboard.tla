------------------------------ MODULE Clipboard ------------------------------
(***************************************************************************)
(* The clipboard of the desktop (src/src/clipboard.rs).  Each write claims   *)
(* the X selection with a window and a thread of its own, and then, under a  *)
(* lock, stops the thread of the write before.  Pasting text (session.rs,    *)
(* paste_remote_text) is a read, a write of the text and a write of what was *)
(* read.  Writes come from sessions and from HTTP requests, and applications *)
(* claim the selection too.                                                  *)
(***************************************************************************)
EXTENDS Naturals, Sequences

CONSTANTS
  Copies,   \* writes of what a browser has copied
  Copy,     \* what each of them writes
  Pastes,   \* texts to be pasted
  AppCopies \* bound of the model: claims by applications

ASSUME ClipboardAssumption ==
  Copy \in [Copies -> {"text", "picture"}] /\ Copies \cap Pastes = {} /\ AppCopies \in Nat

Writers == Copies \cup Pastes
Owners  == Writers \X {1, 2}   \* a paste writes twice
Nobody  == <<>>
App     == <<"app">>

\* What may be on offer.  A read knows text and pictures.
Contents == {"text", "picture", "other", "nothing"}

VARIABLES
  selection, \* its owner in X: Nobody, App or one of the Owners
  offered,   \* what the application offers
  payload,   \* what each owner offers
  server,    \* each owner's thread: none, running, ended
  told,      \* owners that were stopped, or have lost the selection
  writer,    \* where each writer is
  nth,       \*   and in which of its writes
  before,    \* what a paste has read; "unread" if it could not
  current,   \* CLIPBOARD_OWNER: Nobody or an owner,
  guard,     \*   and who holds its lock: Nobody or a writer
  previous,  \* the owner that is waited for under the lock, or Nobody
  claimed,   \* the owners in the order of their claims
  apps,      \* how often an application has claimed
  copied,    \* what was copied last, by whomever
  excused    \* why it may not be on offer: crossed, overtaken, unread

clipboardVars == <<selection, offered, payload, server, told, writer, nth, before, current, guard,
                   previous, claimed, apps, copied, excused>>
Selected == <<selection, told, claimed>>
Intent   == <<offered, apps, copied>>
Guarded  == <<current, guard, previous>>

Me(w)       == <<w, nth[w]>>
Moves(w, p) == writer' = [writer EXCEPT ![w] = p]
Busy        == {w \in Writers : writer[w] \notin {"idle", "over"}}
Content     == IF selection = Nobody THEN "nothing" ELSE IF selection = App THEN offered ELSE payload[selection]

\* SetSelectionOwner: who had it is sent a SelectionClear.
Claims(o) ==
  /\ selection' = o
  /\ told' = IF selection \in Owners THEN told \cup {selection} ELSE told
  /\ claimed' = IF o \in Owners THEN Append(claimed, o) ELSE claimed

\* A copy begins anew what is expected, but for pastes that may restore over it.
Copied(c) ==
  /\ copied' = c
  /\ excused' = IF Busy = {} THEN {} ELSE excused \cup {"overtaken" : w \in Busy \cap Pastes}

-----------------------------------------------------------------------------

AppClaims(c) ==
  /\ apps < AppCopies
  /\ Claims(App) /\ Copied(c)
  /\ offered' = c /\ apps' = apps + 1
  /\ UNCHANGED <<payload, server, writer, nth, before>> /\ UNCHANGED Guarded

\* read_remote_clipboard of paste_remote_text.  What is not text or picture, and what
\* is not delivered within two seconds, reads as nothing, and nothing is an offer too.
ReadFirst(w) ==
  /\ w \in Pastes /\ writer[w] = "idle"
  /\ \E c \in {"nothing", "unread"} \cup ({Content} \cap {"text", "picture"}) :
       /\ before' = [before EXCEPT ![w] = c]
       /\ excused' = excused \cup {"unread" : x \in {c} \ {Content}} \cup {"overtaken" : v \in Busy}
  /\ payload' = [payload EXCEPT ![<<w, 1>>] = "text"]
  /\ Moves(w, "start")
  /\ UNCHANGED <<server, nth>> /\ UNCHANGED Selected /\ UNCHANGED Intent /\ UNCHANGED Guarded

BeginCopy(w) ==
  /\ w \in Copies /\ writer[w] = "idle"
  /\ Moves(w, "start")
  /\ UNCHANGED <<payload, server, nth, before, excused>>
  /\ UNCHANGED Selected /\ UNCHANGED Intent /\ UNCHANGED Guarded

\* claim_selection, the request.
Claim(w) ==
  /\ writer[w] = "start"
  /\ Claims(Me(w))
  /\ IF w \in Copies THEN Copied(payload[Me(w)]) ELSE UNCHANGED <<copied, excused>>
  /\ Moves(w, "claimed")
  /\ UNCHANGED <<offered, apps, payload, server, nth, before>> /\ UNCHANGED Guarded

\* claim_selection, the query: somebody else may have claimed in between.
Verify(w) ==
  /\ writer[w] = "claimed"
  /\ IF selection = Me(w)
     THEN server' = [server EXCEPT ![Me(w)] = "running"] /\ Moves(w, "serving")
     ELSE Moves(w, "over") /\ UNCHANGED server
  /\ UNCHANGED <<payload, nth, before, excused>>
  /\ UNCHANGED Selected /\ UNCHANGED Intent /\ UNCHANGED Guarded

\* Whether o claimed before p.
Sooner(o, p) == \E i, j \in DOMAIN claimed : i < j /\ claimed[i] = o /\ claimed[j] = p

\* Slip: the new one is stopped.
LockStopsNew(w) ==
  /\ writer[w] = "serving" /\ guard = Nobody
  /\ guard' = w /\ previous' = current /\ current' = Nobody
  /\ told' = IF current # Nobody THEN told \cup {Me(w)} ELSE told
  /\ excused' = excused \cup {"crossed" : p \in {current} \cap {o \in Owners : Sooner(Me(w), o)}}
  /\ Moves(w, "joining")
  /\ UNCHANGED <<selection, claimed, payload, server, nth, before>> /\ UNCHANGED Intent

\* Under the lock the owner before is stopped, and its thread is waited for.  The one
\* before at the lock need not be the one before at the claim.
Lock(w) ==
  /\ writer[w] = "serving" /\ guard = Nobody
  /\ guard' = w /\ previous' = current /\ current' = Nobody
  /\ told' = IF current # Nobody THEN told \cup {current} ELSE told
  /\ excused' = excused \cup {"crossed" : p \in {current} \cap {o \in Owners : Sooner(Me(w), o)}}
  /\ Moves(w, "joining")
  /\ UNCHANGED <<selection, claimed, payload, server, nth, before>> /\ UNCHANGED Intent

Join(w) ==
  /\ writer[w] = "joining"
  /\ previous # Nobody => server[previous] = "ended"
  /\ current' = Me(w) /\ guard' = Nobody /\ previous' = Nobody
  /\ Moves(w, IF w \in Pastes /\ nth[w] = 1 THEN "pasting" ELSE "over")
  /\ UNCHANGED <<payload, server, nth, before, excused>> /\ UNCHANGED Selected /\ UNCHANGED Intent

\* ctrl+v, and a while for the application to fetch the text.
Pasted(w) ==
  /\ writer[w] = "pasting"
  /\ IF before[w] = "unread"
     THEN Moves(w, "over") /\ UNCHANGED <<nth, payload>>
     ELSE /\ nth' = [nth EXCEPT ![w] = 2]
          /\ payload' = [payload EXCEPT ![<<w, 2>>] = before[w]]
          /\ Moves(w, "start")
  /\ UNCHANGED <<server, before, excused>> /\ UNCHANGED Selected /\ UNCHANGED Intent /\ UNCHANGED Guarded

\* The keys fail: nothing is restored.
PasteFails(w) ==
  /\ writer[w] = "pasting"
  /\ Moves(w, "over")
  /\ excused' = excused \cup {"unread"}
  /\ UNCHANGED <<payload, server, nth, before>>
  /\ UNCHANGED Selected /\ UNCHANGED Intent /\ UNCHANGED Guarded

\* run: a thread ends with its window, and the selection with that.
ServerEnds(o) ==
  /\ server[o] = "running" /\ o \in told
  /\ server' = [server EXCEPT ![o] = "ended"]
  /\ selection' = IF selection = o THEN Nobody ELSE selection
  /\ UNCHANGED <<told, claimed, payload, writer, nth, before, excused>>
  /\ UNCHANGED Intent /\ UNCHANGED Guarded

ClipboardInit ==
  /\ selection = Nobody /\ offered = "nothing"
  /\ payload = [o \in Owners |-> IF o[1] \in Copies THEN Copy[o[1]] ELSE "text"]
  /\ server = [o \in Owners |-> "none"] /\ told = {}
  /\ writer = [w \in Writers |-> "idle"] /\ nth = [w \in Writers |-> 1]
  /\ before = [w \in Pastes |-> "unread"]
  /\ current = Nobody /\ guard = Nobody /\ previous = Nobody
  /\ claimed = <<>> /\ apps = 0
  /\ copied = "nothing" /\ excused = {}

ClipboardNext ==
  \/ \E c \in {"text", "picture", "other"} : AppClaims(c)
  \/ \E w \in Writers : ReadFirst(w) \/ BeginCopy(w) \/ Claim(w) \/ Verify(w) \/ Lock(w) \/ Join(w)
                        \/ Pasted(w) \/ PasteFails(w)
  \/ \E o \in Owners : ServerEnds(o)

ClipboardSpec == ClipboardInit /\ [][ClipboardNext]_clipboardVars

-----------------------------------------------------------------------------
(* Properties. *)

\* The state has its shape.
ClipboardTypeOK ==
  /\ selection \in Owners \cup {Nobody, App}
  /\ offered \in Contents /\ copied \in Contents
  /\ payload \in [Owners -> Contents] /\ before \in [Pastes -> Contents \cup {"unread"}]
  /\ server \in [Owners -> {"none", "running", "ended"}] /\ told \subseteq Owners
  /\ writer \in [Writers -> {"idle", "start", "claimed", "serving", "joining", "pasting", "over"}]
  /\ nth \in [Writers -> {1, 2}]
  /\ current \in Owners \cup {Nobody} /\ previous \in Owners \cup {Nobody}
  /\ guard \in Writers \cup {Nobody}

\* When no write is under way, what was copied last is on offer, whoever copied it and
\* whatever was pasted since.  The exceptions: two writes claim in one order and lock
\* in the other, and the second at the lock stops the only owner; something is copied
\* while text is pasted, and the paste restores what was there before; and what was
\* there cannot be read, or the paste breaks off.
LastCopyIsOffered == Busy = {} /\ excused = {} => Content = copied
=============================================================================
