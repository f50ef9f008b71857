----------------------------- MODULE RateLimiter -----------------------------
(***************************************************************************)
(* The per-client limiter in front of POST /trades (api/security.py, class  *)
(* RateLimiter).  It reads the wall clock; here the clock advances by any   *)
(* of Jumps between two requests, never backwards.  per_minute = 0 turns    *)
(* the limiter off: everything is let through and nothing is kept, so only  *)
(* a positive one is modelled.                                              *)
(***************************************************************************)
EXTENDS Integers, Sequences, FiniteSetsExt

CONSTANTS Clients,
          PerMinute,     (* per_minute                                       *)
          Minute,        (* the length of its window, 60 seconds             *)
          Jumps,         (* what the clock may advance by                    *)
          ClockEnd,      (* bound on the clock                               *)
          MaxDenied      (* bound on the requests denied to a client         *)

ASSUME LimiterAssumption ==
  /\ PerMinute \in Nat \ {0} /\ Minute \in Nat
  /\ Jumps \subseteq Nat
  /\ ClockEnd \in Nat /\ MaxDenied \in Nat

VARIABLES now,        (* time.time()                                         *)
          hits,       (* _hits: the remembered requests of a client          *)
          accepted,   (* history: when each request let through arrived      *)
          denied      (* history: how many were not                          *)

limiterVars == <<now, hits, accepted, denied>>
-----------------------------------------------------------------------------
(* Mutant: a request exactly a minute old is forgotten.                     *)
RememberedStrictly(dq, t) == {i \in 1..Len(dq) : dq[i] > t - Minute}

(* The remembered requests that are not more than a minute old.             *)
Remembered(dq, t) == {i \in 1..Len(dq) : dq[i] >= t - Minute}

(* Mutant: nothing is ever dropped.                                         *)
PurgeNothing(dq, t) == dq

(* Drop from the head what is more than a minute old.                       *)
Purge(dq, t) ==
  IF Remembered(dq, t) = {} THEN << >>
  ELSE SubSeq(dq, Min(Remembered(dq, t)), Len(dq))

(* allow(key) returns True ...                                              *)
Allow(c) ==
  /\ Len(Purge(hits[c], now)) < PerMinute
  /\ hits' = [hits EXCEPT ![c] = Append(Purge(@, now), now)]
  /\ accepted' = [accepted EXCEPT ![c] = Append(@, now)]
  /\ UNCHANGED <<now, denied>>

(* ... and False; a denied request is not remembered either.                *)
Deny(c) ==
  /\ Len(Purge(hits[c], now)) >= PerMinute
  /\ denied[c] < MaxDenied
  /\ hits' = [hits EXCEPT ![c] = Purge(@, now)]
  /\ denied' = [denied EXCEPT ![c] = @ + 1]
  /\ UNCHANGED <<now, accepted>>

Tick ==
  /\ \E d \in Jumps : now + d <= ClockEnd /\ now' = now + d
  /\ UNCHANGED <<hits, accepted, denied>>

LimiterInit ==
  /\ now = 0
  /\ hits = [c \in Clients |-> << >>]
  /\ accepted = [c \in Clients |-> << >>]
  /\ denied = [c \in Clients |-> 0]

LimiterNext == Tick \/ \E c \in Clients : Allow(c) \/ Deny(c)

LimiterSpec == LimiterInit /\ [][LimiterNext]_limiterVars
-----------------------------------------------------------------------------
LimiterTypeOK ==
  /\ now \in Nat
  /\ hits \in [Clients -> Seq(Nat)]
  /\ accepted \in [Clients -> Seq(Nat)]
  /\ denied \in [Clients -> Nat]

(* In no minute, wherever it starts, do more than PerMinute requests of a   *)
(* client get through: any PerMinute + 1 of them in a row span more than    *)
(* one.  The deque the limiter decides by holds only part of them.          *)
RateBound ==
  \A c \in Clients : \A i \in 1..(Len(accepted[c]) - PerMinute) :
    accepted[c][i + PerMinute] - accepted[c][i] > Minute

(* A request is denied only if PerMinute requests of the same client got    *)
(* through in the minute before it: denied requests and the requests of     *)
(* others use up nothing.                                                   *)
DeniedOnlyOverQuota ==
  [][\A c \in Clients : denied'[c] # denied[c] =>
       /\ Len(accepted[c]) >= PerMinute
       /\ accepted[c][Len(accepted[c]) - PerMinute + 1] >= now - Minute]_limiterVars
=============================================================================
