----------------------------- MODULE QueryQuota -----------------------------
(***************************************************************************)
(* The daily quota of src/backend/ratelimit.py, as the query endpoint of   *)
(* src/app.py uses it.  Queries run in threads of their own: each reads    *)
(* the clock before it takes the lock, and midnight may pass in between.   *)
(***************************************************************************)
EXTENDS Naturals

CONSTANTS QuotaCall,    \* calls of the query endpoint, each made once
          Asker,        \* subjects
          DailyQuota,   \* IT_QUERY_DAILY_QUOTA
          LastDay       \* bound: days the clock passes

ASSUME QuotaAssumption == DailyQuota \in Nat \ {0} /\ LastDay \in Nat

VARIABLES day,        \* the UTC day
          limiter,    \* the limiter's day and its counters
          setBack,    \* whether the limiter's day ever went back (no code reads it)
          admitted,   \* admitted[s][d]: queries of s this process admitted for day d
          asking      \* asking[c]: step, subject and clock reading of call c

quotaVars == <<day, limiter, setBack, admitted, asking>>

NoCounts == [s \in Asker |-> 0]
NewLimiter(d) == [day |-> d, counts |-> NoCounts]
NoneAdmitted == [s \in Asker |-> [d \in 0..LastDay |-> 0]]

QuotaTypeOK ==
  /\ day \in 0..LastDay
  /\ limiter \in [day : 0..LastDay, counts : [Asker -> 0..DailyQuota]]
  /\ setBack \in BOOLEAN
  /\ admitted \in [Asker -> [0..LastDay -> Nat]]
  /\ asking \in [QuotaCall -> [step : {"idle", "lock", "admitted", "refused", "lost"},
                               subject : Asker, now : 0..LastDay]]

QuotaInit ==
  /\ day = 0
  /\ limiter = NewLimiter(0)
  /\ setBack = FALSE
  /\ admitted = NoneAdmitted
  /\ \E who \in [QuotaCall -> Asker] :
       asking = [c \in QuotaCall |-> [step |-> "idle", subject |-> who[c], now |-> 0]]

-----------------------------------------------------------------------------
(* An operator X_Y before an operator X is X with a plausible mistake in   *)
(* it; no action uses it.                                                  *)

NextDay == /\ day < LastDay
           /\ day' = day + 1
           /\ UNCHANGED <<limiter, setBack, admitted, asking>>

(* hit reads the clock first and takes the lock then.                      *)
ReadClock(c) ==
  /\ asking[c].step = "idle"
  /\ asking' = [asking EXCEPT ![c].step = "lock", ![c].now = day]
  /\ UNCHANGED <<day, limiter, setBack, admitted>>

CountsOn_Kept(d) == limiter.counts

(* _ensure_day: another day than the last one clears the counters.         *)
CountsOn(d) == IF d = limiter.day THEN limiter.counts ELSE NoCounts

Hit_ClearsLate(c) ==
  LET s == asking[c].subject
      today == asking[c].now
      allowed == limiter.counts[s] < DailyQuota \/ today # limiter.day
  IN
  /\ asking[c].step = "lock"
  /\ limiter' = IF today = limiter.day
                THEN [limiter EXCEPT !.counts[s] = IF allowed THEN @ + 1 ELSE @]
                ELSE NewLimiter(today)
  /\ setBack' = (setBack \/ today < limiter.day)
  /\ admitted' = IF allowed THEN [admitted EXCEPT ![s][today] = @ + 1] ELSE admitted
  /\ asking' = [asking EXCEPT ![c].step = IF allowed THEN "admitted" ELSE "refused"]
  /\ UNCHANGED day

Hit(c) ==
  LET s == asking[c].subject
      today == asking[c].now
      counts == CountsOn(today)
      allowed == counts[s] < DailyQuota
  IN
  /\ asking[c].step = "lock"
  /\ limiter' = [day |-> today,
                 counts |-> IF allowed THEN [counts EXCEPT ![s] = @ + 1] ELSE counts]
  /\ setBack' = (setBack \/ today < limiter.day)
  /\ admitted' = IF allowed THEN [admitted EXCEPT ![s][today] = @ + 1] ELSE admitted
  /\ asking' = [asking EXCEPT ![c].step = IF allowed THEN "admitted" ELSE "refused"]
  /\ UNCHANGED day

(* The process starts again with empty counters, as its documentation      *)
(* accepts; the calls it was serving are lost.                             *)
RestartService ==
  /\ limiter' = NewLimiter(day)
  /\ setBack' = FALSE
  /\ admitted' = NoneAdmitted
  /\ asking' = [c \in QuotaCall |-> IF asking[c].step = "lock"
                                    THEN [asking[c] EXCEPT !.step = "lost"] ELSE asking[c]]
  /\ UNCHANGED day

QuotaNext == NextDay \/ RestartService \/ \E c \in QuotaCall : ReadClock(c) \/ Hit(c)

QuotaSpec == QuotaInit /\ [][QuotaNext]_quotaVars

-----------------------------------------------------------------------------
(* Properties.                                                             *)

(* However queries overlap and days change, a process admits no subject    *)
(* more queries for a day than the quota, unless a query that read the     *)
(* clock before midnight took the lock after one that read it later: that  *)
(* sets the day back and clears the counters (hit and _ensure_day).        *)
QuotaHolds ==
  setBack \/ \A s \in Asker, d \in 0..LastDay : admitted[s][d] <= DailyQuota

(* A refusal is earned: whoever is refused had the whole quota admitted on *)
(* the day of its clock reading, whatever the other days brought.          *)
RefusedOnlyAtTheQuota ==
  [][\A c \in QuotaCall : asking[c].step = "lock" /\ asking'[c].step = "refused" =>
       admitted[asking[c].subject][asking[c].now] >= DailyQuota]_quotaVars
=============================================================================
