---------------------------- MODULE RateLimiter ----------------------------
(***************************************************************************)
(* The fixed-window limiter in front of every API route                    *)
(* (app/core/rate_limit.py, add_request_context in app/main.py).           *)
(*                                                                         *)
(* The clock runs in ticks, TicksPerSecond to the second, so that requests *)
(* also fall between whole seconds.  retry_after reads the clock and works *)
(* under a lock without an await in between: a request is one step.  The   *)
(* windows live in the process and are never evicted; a process that is    *)
(* started again (an update, a crash) begins with none.                    *)
(***************************************************************************)
EXTENDS Integers, Sequences, FiniteSets

CONSTANTS
  Clients,        \* addresses requests come from
  Requests,       \* CIR_RATE_LIMIT_REQUESTS, any integer
  WindowSeconds,  \* CIR_RATE_LIMIT_WINDOW_SECONDS
  TicksPerSecond,
  MaxTime,        \* bound: ticks
  MaxCount,       \* bound: requests of a client in one window
  MaxAdmitted,    \* bound: requests let through altogether
  MaxRestarts     \* bound: restarts of the process

ASSUME LimiterConstants ==
  /\ Requests \in Int
  /\ WindowSeconds \in Nat \ {0}
  /\ TicksPerSecond \in Nat \ {0}
  /\ MaxTime \in Nat
  /\ MaxCount \in Nat
  /\ MaxAdmitted \in Nat
  /\ MaxRestarts \in Nat

VARIABLES
  now,      \* monotonic()
  window,   \* _windows; a count of 0 is a client with no entry
  admitted, \* history: when each client's requests were let through
  last,     \* history: when each client was rejected last, and what it was told
  strikes,  \* history: rejections in a row, each after the wait asked for
  restarts  \* history: when the process was started again

vars == <<now, window, admitted, last, strikes, restarts>>

W         == WindowSeconds * TicksPerSecond
Allowance == IF Requests < 1 THEN 1 ELSE Requests \* what a window lets through
NoWindow  == [started_at |-> 0, count |-> 0]
Never     == [at |-> 0, retry |-> 0]

-----------------------------------------------------------------------------
\* round(ticks / TicksPerSecond): the nearest second, halves to the even one.
Round(ticks) ==
  LET q == ticks \div TicksPerSecond
      m == 2 * (ticks % TicksPerSecond)
  IN  IF m < TicksPerSecond \/ (m = TicksPerSecond /\ q % 2 = 0)
      THEN q ELSE q + 1

\* Wrong: no minimum; the difference swapped.
RetryAfterRounded(remaining) == Round(remaining)
RetryAfterSwapped(remaining) == Round(0 - remaining)

\* max(1, round(remaining)).
RetryAfter(remaining) == IF Round(remaining) < 1 THEN 1 ELSE Round(remaining)

Elapsed(c) == now - window[c].started_at

\* Wrong: a window that ends a tick early.
FreshEarly(c) == window[c].count = 0 \/ Elapsed(c) >= W - 1

\* The client has no window, or one that has ended.
Fresh(c) == window[c].count = 0 \/ Elapsed(c) >= W

\* When the client may come back if it does what the last rejection said.
ComeBack(c) == last[c].at + last[c].retry * TicksPerSecond

\* Wrong: the last request of the allowance is rejected.
WithinAlmost(n) == n < Requests

\* The n-th request of a window is let through.
Within(n) == n <= Requests

Init ==
  /\ now = 0
  /\ window = [c \in Clients |-> NoWindow]
  /\ admitted = [c \in Clients |-> << >>]
  /\ last = [c \in Clients |-> Never]
  /\ strikes = [c \in Clients |-> 0]
  /\ restarts = << >>

Admit(c) ==
  /\ Cardinality(UNION {{d} \X DOMAIN admitted[d] : d \in Clients}) < MaxAdmitted
  /\ admitted' = [admitted EXCEPT ![c] = Append(@, now)]
  /\ strikes' = [strikes EXCEPT ![c] = 0]
  /\ UNCHANGED <<last, restarts>>

\* No window, or one that has ended: the request opens a new one.  The limit
\* is not looked at.
OpenWindow(c) ==
  /\ Fresh(c)
  /\ window' = [window EXCEPT ![c] = [started_at |-> now, count |-> 1]]
  /\ Admit(c)
  /\ UNCHANGED now

\* The count goes up whatever the answer is.
CountRequest(c) ==
  /\ ~Fresh(c)
  /\ window[c].count < MaxCount
  /\ window' = [window EXCEPT ![c] = [started_at |-> @.started_at, count |-> @.count + 1]]
  /\ UNCHANGED now

PassThrough(c) ==
  /\ CountRequest(c)
  /\ Within(window[c].count + 1)
  /\ Admit(c)

\* 429 with Retry-After.
Reject(c) ==
  /\ CountRequest(c)
  /\ ~Within(window[c].count + 1)
  /\ last' = [last EXCEPT ![c] = [at |-> now, retry |-> RetryAfter(W - Elapsed(c))]]
  /\ strikes' = [strikes EXCEPT ![c] = IF now >= ComeBack(c) THEN @ + 1 ELSE 1]
  /\ UNCHANGED <<admitted, restarts>>

Tick ==
  /\ now < MaxTime
  /\ now' = now + 1
  /\ UNCHANGED <<window, admitted, last, strikes, restarts>>

\* Another process, on the same machine's clock: RateLimiter() has no windows.
Restart ==
  /\ Len(restarts) < MaxRestarts
  /\ window' = [c \in Clients |-> NoWindow]
  /\ restarts' = Append(restarts, now)
  /\ UNCHANGED <<now, admitted, last, strikes>>

Next ==
  \/ \E c \in Clients : OpenWindow(c) \/ PassThrough(c) \/ Reject(c)
  \/ Tick
  \/ Restart

Spec == Init /\ [][Next]_vars

-----------------------------------------------------------------------------
(* Properties.                                                             *)

\* Every variable keeps its type.
TypeOK ==
  /\ now \in 0..MaxTime
  /\ window \in [Clients -> [started_at : 0..MaxTime, count : Nat]]
  /\ admitted \in [Clients -> Seq(0..MaxTime)]
  /\ last \in [Clients -> [at : 0..MaxTime, retry : Nat]]
  /\ strikes \in [Clients -> Nat]
  /\ restarts \in Seq(0..MaxTime)

\* The events of a history from tick t on, for the length of a window.
Stretch(times, t) == {n \in DOMAIN times : t <= times[n] /\ times[n] < t + W}

\* The requests of c let through in it, and the restarts in it.
AdmittedFrom(c, t) == Stretch(admitted[c], t)
RestartsFrom(t)    == Stretch(restarts, t)

\* Over any stretch of time as long as a window, wherever it starts, a client
\* gets fewer than two allowances through, and at most one more for every
\* restart in it: its windows never overlap, and the first request of a window
\* is what starts it (retry_after).
SlidingBound ==
  \A c \in Clients, t \in 0..MaxTime :
    Cardinality(AdmittedFrom(c, t)) < (2 + Cardinality(RestartsFrom(t))) * Allowance

\* A client is rejected for what it did itself: it has had its whole allowance
\* within the last window, whoever else the limiter serves, and no restart
\* charges it again.
RejectionsAreEarned ==
  \A c \in Clients : last[c] # Never =>
    Cardinality(AdmittedFrom(c, last[c].at - W + 1)) >= Allowance

\* A client that waits as long as it is told is rejected at most twice: the
\* rounding of Retry-After may send it back half a second early, once.
WaitingHelps == \A c \in Clients : strikes[c] <= 2

\* It is never told to wait more than a second beyond the window that
\* rejected it.
NoOverlongWait ==
  \A c \in Clients : window[c].count > 0 /\ last[c] # Never /\ last[c].at >= window[c].started_at =>
    ComeBack(c) <= window[c].started_at + W + TicksPerSecond

-----------------------------------------------------------------------------
(* The inductive invariant behind these, in parts.                         *)

\* What the client's window has let through.
Filled(c) == IF window[c].count < Allowance THEN window[c].count ELSE Allowance

\* The most that a stretch from t on, not over yet, can have let through: a
\* window that began before it has spent its first request outside it, and
\* every other window in it but one follows a restart in it.
Room(c, t) ==
  LET outside == (1 + Cardinality(RestartsFrom(t))) * Allowance - 1
  IN  IF window[c].count = 0 THEN outside
      ELSE IF window[c].started_at >= t THEN outside + Filled(c)
      ELSE Filled(c) - 1

NothingAhead ==
  \A c \in Clients :
    /\ window[c].started_at <= now
    /\ last[c].at <= now
    /\ \A n \in DOMAIN admitted[c] : admitted[c][n] <= now

StretchesFit ==
  \A c \in Clients, t \in 0..MaxTime :
    now < t + W => Cardinality(AdmittedFrom(c, t)) <= Room(c, t)

WindowsFilled ==
  \A c \in Clients : window[c].count > 0 =>
    Cardinality(AdmittedFrom(c, window[c].started_at)) >= Filled(c)

\* A strike in a window sends the client back at most half a second early, a
\* second one no longer early.
StrikesRunOut ==
  \A c \in Clients : window[c].count > 0 =>
    /\ strikes[c] > 0 =>
         2 * ComeBack(c) >= 2 * (window[c].started_at + W) - TicksPerSecond
    /\ strikes[c] = 2 => ComeBack(c) >= window[c].started_at + W

WaitsAreBounded ==
  \A c \in Clients : last[c] # Never => ComeBack(c) <= last[c].at + W + TicksPerSecond

\* What makes the four properties inductive.
LimiterIInv ==
  /\ TypeOK
  /\ NothingAhead
  /\ StretchesFit
  /\ WindowsFilled
  /\ StrikesRunOut
  /\ WaitsAreBounded

=============================================================================
