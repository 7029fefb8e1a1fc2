------------------------------- MODULE Clock --------------------------------
(***************************************************************************)
(* The clock of the Time library: seconds counted along with millis(),     *)
(* which wraps, set by the program or by a provider that is asked when the *)
(* time is due for it; and the fields of the last time broken down, which  *)
(* are kept.  Fields are stood for by the time they make up (see           *)
(* TimeFields).                                                            *)
(***************************************************************************)
EXTENDS Integers

CONSTANTS
    Second,        \* ticks of a second (1000 ms)
    Wrap,          \* millis() begins again after so many (2^32)
    Pauses,        \* times between two calls
    SetTimes,      \* times the clock is set to and asked the fields of
    Adjustments, SyncIntervals,
    MaxCalls       \* bound

ClockAssumption ==
    /\ Second \in Nat \ {0} /\ Wrap \in Nat /\ Wrap > Second /\ MaxCalls \in Nat
    /\ Pauses \cup SetTimes \cup SyncIntervals \subseteq Nat /\ Adjustments \subseteq Int

NoFields == -1    \* all of tm is zero, which is no date

VARIABLES
    millis,
    clock,       \* sysTime, prevMillis, nextSyncTime and Status
    sync,        \* getTimePtr # 0 and syncInterval
    cache,       \* cacheTime and tm, NoFields before anything is broken down
    calls,
    truth        \* what time it is: base seconds and the ticks since; set: somebody has told;
                 \* lapsed: nobody looked at the clock for a whole turn of millis();
                 \* asked: the fields asked for last; overwritten: by the fields of setTime()

clockVars == <<millis, clock, sync, cache, calls, truth>>

ClockInit ==
    /\ millis = 0 /\ calls = 0
    /\ clock = [sysTime |-> 0, prevMillis |-> 0, nextSyncTime |-> 0, Status |-> "timeNotSet"]
    /\ sync = [provider |-> FALSE, interval |-> 300]
    /\ cache = [cacheTime |-> 0, tm |-> NoFields]
    /\ truth = [base |-> 0, ticks |-> 0, set |-> FALSE, lapsed |-> FALSE, asked |-> 1, got |-> 1,
                overwritten |-> FALSE]

Behind(c) == (millis - c.prevMillis) % Wrap

CatchUpAtOnce(c) ==    \* mutant: what is left of a second is dropped
    [c EXCEPT !.sysTime = @ + Behind(c) \div Second, !.prevMillis = millis]

\* The loop of now()
CatchUp(c) ==
    LET seconds == Behind(c) \div Second
    IN  [c EXCEPT !.sysTime = @ + seconds, !.prevMillis = (@ + seconds * Second) % Wrap]

setTime(c, t) ==
    [sysTime |-> t, nextSyncTime |-> t + sync.interval, Status |-> "timeSet", prevMillis |-> millis]

Due(c) == c.nextSyncTime <= c.sysTime /\ sync.provider

\* now(), given what the provider would answer; 0 if it knows nothing.
Looked(c, answer) ==
    CASE ~Due(c) -> c
      [] Due(c) /\ answer # 0 -> setTime(c, answer)
      [] Due(c) /\ answer = 0 ->
           [c EXCEPT !.nextSyncTime = c.sysTime + sync.interval,
                     !.Status = IF @ = "timeNotSet" THEN @ ELSE "timeNeedsSync"]

TruthAfter(c, answer) ==
    IF Due(c) /\ answer # 0
    THEN [truth EXCEPT !.base = answer, !.ticks = 0, !.set = TRUE, !.lapsed = FALSE] ELSE truth

Call == calls < MaxCalls /\ calls' = calls + 1

\* now() and timeStatus(), and whatever looks at the time first
now ==
    /\ Call
    /\ \E answer \in SetTimes \cup {0} :
          /\ clock' = Looked(CatchUp(clock), answer)
          /\ truth' = TruthAfter(CatchUp(clock), answer)
    /\ UNCHANGED <<millis, sync, cache>>

refreshCache(k, t) == IF t # k.cacheTime THEN [cacheTime |-> t, tm |-> t] ELSE k

\* hour(t), minute(t) and so on
ReadFields ==
    /\ Call
    /\ \E t \in SetTimes \cup {0} :
          /\ cache' = refreshCache(cache, t)
          /\ truth' = [truth EXCEPT !.asked = t, !.got = refreshCache(cache, t).tm,
                                    !.overwritten = @ /\ t = cache.cacheTime]
    /\ UNCHANGED <<millis, clock, sync>>

setTimeOf ==
    /\ Call
    /\ \E t \in SetTimes :
          /\ clock' = setTime(clock, t)
          /\ truth' = [truth EXCEPT !.base = t, !.ticks = 0, !.set = TRUE, !.lapsed = FALSE]
    /\ UNCHANGED <<millis, sync, cache>>

\* setTime() of fields uses the kept ones to make up the time.
setTimeOfFields ==
    /\ Call
    /\ \E t \in SetTimes :
          /\ clock' = setTime(clock, t)
          /\ cache' = [cache EXCEPT !.tm = t]
          /\ truth' = [truth EXCEPT !.base = t, !.ticks = 0, !.set = TRUE, !.lapsed = FALSE,
                                    !.overwritten = TRUE]
    /\ UNCHANGED <<millis, sync>>

adjustTime ==
    /\ Call
    /\ \E a \in {n \in Adjustments : clock.sysTime + n >= 0} :    \* bound: 32 bits are enough
          /\ clock' = [clock EXCEPT !.sysTime = @ + a]
          /\ truth' = [truth EXCEPT !.base = @ + a]
    /\ UNCHANGED <<millis, sync, cache>>

\* setSyncProvider() looks at the time at once.
setSyncProvider ==
    /\ Call /\ sync' = [sync EXCEPT !.provider = TRUE]
    /\ \E answer \in SetTimes \cup {0} :
          LET due == CatchUp([clock EXCEPT !.nextSyncTime = clock.sysTime])
          IN  IF answer # 0
              THEN /\ clock' = setTime(due, answer)
                   /\ truth' = [truth EXCEPT !.base = answer, !.ticks = 0, !.set = TRUE, !.lapsed = FALSE]
              ELSE /\ clock' = [due EXCEPT !.nextSyncTime = due.sysTime + sync.interval,
                                           !.Status = IF @ = "timeNotSet" THEN @ ELSE "timeNeedsSync"]
                   /\ UNCHANGED truth
    /\ UNCHANGED <<millis, cache>>

setSyncInterval ==
    /\ Call
    /\ \E n \in SyncIntervals :
          /\ sync' = [sync EXCEPT !.interval = n]
          /\ clock' = [clock EXCEPT !.nextSyncTime = clock.sysTime + n]
    /\ UNCHANGED <<millis, cache, truth>>

\* Time goes by between two calls.
Pause ==
    /\ calls < MaxCalls
    /\ \E d \in Pauses :
          /\ millis' = (millis + d) % Wrap
          /\ truth' = [truth EXCEPT !.ticks = @ + d, !.lapsed = @ \/ Behind(clock) + d >= Wrap]
    /\ calls' = calls + 1
    /\ UNCHANGED <<clock, sync, cache>>

ClockNext ==
    \/ now \/ ReadFields \/ setTimeOf \/ setTimeOfFields \/ adjustTime
    \/ setSyncProvider \/ setSyncInterval \/ Pause

\* The clock and the ticks it has not counted yet are the time it has been told
\* and all the ticks since, across turns of millis(), however often it is looked
\* at, as long as this is once a turn; it knows whether it has been told.  The
\* fields of a time are those of this time, unless others have been put in
\* their place by setTime(), or nothing but the time 0 has been asked for.
ClockKeepsTime ==
    /\ ~truth.lapsed => clock.sysTime * Second + Behind(clock) = truth.base * Second + truth.ticks
    /\ clock.Status = "timeNotSet" <=> ~truth.set
    /\ truth.got = truth.asked \/ truth.overwritten \/ (truth.got = NoFields /\ truth.asked = 0)
=============================================================================
