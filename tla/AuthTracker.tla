----------------------------- MODULE AuthTracker -----------------------------
(***************************************************************************)
(* The password of the HTTP API (src/src/app.rs, AuthTracker).  Requests    *)
(* come at the same time and from anywhere; what they share is one counter  *)
(* of wrong passwords and one time until which nobody's is looked at.  A    *)
(* request reads the clock before it waits for the lock of the two.         *)
(***************************************************************************)
EXTENDS Naturals, Sequences

CONSTANTS
  Callers,  \* requests that may be under way at a time
  Tries,    \* wrong passwords that lock: 20
  Lockout,  \* lockout_duration in ticks
  MaxTime   \* bound of the model: ticks

ASSUME AuthAssumption == Tries \in Nat \ {0} /\ Lockout \in Nat /\ MaxTime \in Nat \ {0}

VARIABLES
  clock,
  asked,        \* each caller: <<>>, or the time it has read, waiting for the lock
  failed,       \* failed_attempts
  locked_until, \* a time; 0 is None
  wrong         \* the times of the last wrong passwords since a right one

authVars == <<clock, asked, failed, locked_until, wrong>>

Ask(c) ==
  /\ asked[c] = <<>>
  /\ asked' = [asked EXCEPT ![c] = <<clock>>]
  /\ UNCHANGED <<clock, failed, locked_until, wrong>>

Answered(c) == asked' = [asked EXCEPT ![c] = <<>>] /\ UNCHANGED clock
Barred(c)   == asked[c][1] < locked_until
\* The last ones, as many as it takes to tell.
Noted(now) ==
  LET all == Append(wrong, now)
  IN  IF Len(all) > Tries + 1 THEN Tail(all) ELSE all

\* Too many failed attempts; try again later.
TurnedAway(c) ==
  /\ asked[c] # <<>> /\ Barred(c)
  /\ Answered(c)
  /\ UNCHANGED <<failed, locked_until, wrong>>

\* authenticate, which issues a token, and verify_passwd.
Right(c) ==
  /\ asked[c] # <<>> /\ ~Barred(c)
  /\ failed' = 0 /\ locked_until' = 0 /\ wrong' = <<>>
  /\ Answered(c)

\* Slip: one more.
WrongOneMore(c) ==
  LET now == asked[c][1]
      n   == (IF locked_until > 0 THEN 0 ELSE failed) + 1
  IN
  /\ asked[c] # <<>> /\ ~Barred(c)
  /\ IF n > Tries THEN failed' = 0 /\ locked_until' = now + Lockout
                  ELSE failed' = n /\ locked_until' = 0
  /\ wrong' = Noted(now)
  /\ Answered(c)

\* A lockout that is over is forgotten first, with the attempts.
Wrong(c) ==
  LET now == asked[c][1]
      n   == (IF locked_until > 0 THEN 0 ELSE failed) + 1
  IN
  /\ asked[c] # <<>> /\ ~Barred(c)
  /\ IF n >= Tries THEN failed' = 0 /\ locked_until' = now + Lockout
                   ELSE failed' = n /\ locked_until' = 0
  /\ wrong' = Noted(now)
  /\ Answered(c)

Tick == clock < MaxTime /\ clock' = clock + 1 /\ UNCHANGED <<asked, failed, locked_until, wrong>>

AuthInit ==
  /\ clock = 1 /\ asked = [c \in Callers |-> <<>>]
  /\ failed = 0 /\ locked_until = 0 /\ wrong = <<>>

AuthNext ==
  \/ \E c \in Callers : Ask(c) \/ TurnedAway(c) \/ Right(c) \/ Wrong(c)
  \/ Tick

AuthSpec == AuthInit /\ [][AuthNext]_authVars

-----------------------------------------------------------------------------
(* Properties. *)

\* The state has its shape.
AuthTypeOK ==
  /\ clock \in 1..MaxTime
  /\ asked \in [Callers -> {<<>>} \cup {<<t>> : t \in 1..MaxTime}]
  /\ failed \in 0..Tries - 1 /\ locked_until \in 0..MaxTime + Lockout
  /\ wrong \in Seq(1..MaxTime)

\* app.rs, test locks_after_twenty_failed_attempts: of more wrong passwords in a row
\* than it takes to lock, two that follow each other are a lockout apart, by the
\* clock as each request has read it and however long it has waited since.
GuessesAreSlow ==
  Len(wrong) > Tries => \E i \in 1..Tries : wrong[i + 1] >= wrong[i] + Lockout
=============================================================================
