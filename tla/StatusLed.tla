------------------------------ MODULE StatusLed ------------------------------
(***************************************************************************)
(* The status LED: blink() starts two tickers, one that changes the LED    *)
(* every period and one that puts it out again when it has been lit for    *)
(* more than 60 ms.  The tickers run in the task of the timer, the calls   *)
(* in any task, each of them at once.  A tick of the model is 10 ms.       *)
(***************************************************************************)
EXTENDS Integers

CONSTANTS
    Periods,       \* what blink() is called with
    MaxLedCalls    \* bound

WatchPeriod == 3    \* of _ticker2, 30 ms
MaxLit      == 6    \* 60 ms
Age         == 20   \* ages are counted no further

\* The program blinks with 20, 50, 500, 1000 and 4000 ms.  With a period of 70
\* to 90 ms the LED could be put out and lit again in the same tick.
LedAssumption ==
    /\ Periods \subseteq Nat \ {0} /\ MaxLedCalls \in Nat
    /\ \A period \in Periods : period \notin MaxLit + 1 .. MaxLit + WatchPeriod

VARIABLES
    pin,        \* level of the pin: TRUE lights the LED
    led,        \* state, ready (init() and setPin() have been called) and prev_active as an age
    ticker,     \* the period of _ticker and the time it has left; 0: detached
    watch,      \* time left for _ticker2; 0: detached
    lit,        \* how long the pin has been high, up to Age
    blinking,   \* how long the tickers have run by themselves, up to Age
    ledCalls

ledVars == <<pin, led, ticker, watch, lit, blinking, ledCalls>>

\* prev_active is not initialised.
LedInit ==
    /\ pin \in BOOLEAN /\ \E a \in {0, Age} : led = [state |-> FALSE, ready |-> FALSE, prev_active |-> a]
    /\ ticker = [period |-> 0, left |-> 0] /\ watch = 0
    /\ lit = 0 /\ blinking = 0 /\ ledCalls = 0

Older(age) == IF age < Age THEN age + 1 ELSE Age

\* The pin is written.
Level(high) ==
    /\ pin' = high
    /\ lit' = IF high /\ pin THEN lit ELSE 0

LedCall == ledCalls < MaxLedCalls /\ ledCalls' = ledCalls + 1 /\ blinking' = 0

\* init() and setPin()
setPin ==
    /\ LedCall /\ Level(TRUE)
    /\ led' = [led EXCEPT !.ready = TRUE]
    /\ UNCHANGED <<ticker, watch>>

\* set(), low() and high() leave the state as it is.
set(high) ==
    /\ LedCall /\ led.ready /\ Level(high)
    /\ UNCHANGED <<led, ticker, watch>>

toggle ==
    /\ LedCall /\ led.ready
    /\ led' = [led EXCEPT !.state = ~@] /\ Level(~led.state)
    /\ UNCHANGED <<ticker, watch>>

detach ==
    /\ LedCall /\ led.ready
    /\ ticker' = [period |-> 0, left |-> 0] /\ watch' = 0
    /\ UNCHANGED <<pin, led, lit>>

\* blink() begins both tickers anew; before init() it does nothing.
blink(period) ==
    /\ LedCall
    /\ IF led.ready THEN ticker' = [period |-> period, left |-> period] /\ watch' = WatchPeriod
       ELSE UNCHANGED <<ticker, watch>>
    /\ UNCHANGED <<pin, led, lit>>

\* The callbacks of the tickers
Toggled(l) == [l EXCEPT !.state = ~@, !.prev_active = IF l.state THEN @ ELSE 0]

WatchedKeepingState(l) ==    \* mutant
    IF l.prev_active > MaxLit THEN [l EXCEPT !.prev_active = 0] ELSE l

Watched(l) == IF l.prev_active > MaxLit THEN [l EXCEPT !.prev_active = 0, !.state = FALSE] ELSE l

\* 10 ms go by; the callbacks that are due run, in the order of their times or
\* either way if they are due at once.
TimePasses ==
    LET aged    == [led EXCEPT !.prev_active = Older(@)]
        changes == ticker.period # 0 /\ ticker.left = 1
        looks   == watch = 1
        after   == CASE changes /\ looks -> {Watched(Toggled(aged)), Toggled(Watched(aged))}
                     [] changes /\ ~looks -> {Toggled(aged)}
                     [] ~changes /\ looks -> {Watched(aged)}
                     [] OTHER -> {aged}
        writes  == changes \/ (looks /\ aged.prev_active > MaxLit)
    IN  /\ led' \in after
        /\ pin' = IF writes THEN led'.state ELSE pin
        /\ lit' = IF pin' /\ pin THEN Older(lit) ELSE 0
        /\ ticker' = IF ticker.period = 0 THEN ticker
                     ELSE [ticker EXCEPT !.left = IF changes THEN ticker.period ELSE @ - 1]
        /\ watch' = IF watch = 0 THEN 0 ELSE IF looks THEN WatchPeriod ELSE watch - 1
        /\ blinking' = IF ticker.period = 0 THEN 0 ELSE Older(blinking)
        /\ UNCHANGED ledCalls

LedNext ==
    \/ setPin \/ toggle \/ detach \/ TimePasses
    \/ \E high \in BOOLEAN : set(high)
    \/ \E period \in Periods : blink(period)

\* Nobody sees a blinking LED on: once the tickers have run by themselves for as
\* long as it takes to put out what the pin was before and one change of theirs,
\* it is never lit for longer than 60 ms and the time to the next look.
LedBlinks == blinking > 2 * (MaxLit + WatchPeriod) => lit <= MaxLit + WatchPeriod
=============================================================================
