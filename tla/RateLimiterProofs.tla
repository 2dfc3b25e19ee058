-------------------------- MODULE RateLimiterProofs --------------------------
(***************************************************************************)
(* Proofs about RateLimiter, for every allowance, window length, clock     *)
(* resolution, set of clients and number of restarts.                      *)
(*                                                                         *)
(* The clients do not share a window: the invariant is proved client by    *)
(* client (WellKept), after lemmas about the rounding and about counting   *)
(* the events of a stretch.                                                *)
(***************************************************************************)
EXTENDS RateLimiter, FiniteSetTheorems, TLAPS

-----------------------------------------------------------------------------
(* Numbers.                                                                *)

\* A window and an allowance are positive, whatever number of requests is
\* configured.
LEMMA Positive == W \in Nat \ {0} /\ Allowance \in Nat \ {0}
<1>1. \A a, b \in Nat \ {0} : a * b \in Nat \ {0}
  OBVIOUS
<1> QED
  BY <1>1, LimiterConstants DEF W, Allowance

\* The arithmetic of the bound on a stretch with r restarts in it.
LEMMA OneAllowanceMore ==
  ASSUME NEW r \in Nat
  PROVE  /\ (1 + r) * Allowance \in Nat
         /\ (1 + r) * Allowance >= Allowance
         /\ (2 + r) * Allowance = (1 + r) * Allowance + Allowance
<1>1. \A a \in Nat \ {0} : /\ (1 + r) * a \in Nat
                           /\ (1 + r) * a >= a
                           /\ (2 + r) * a = (1 + r) * a + a
  OBVIOUS
<1> QED
  BY <1>1, Positive

\* round() is at most half a second off, either way.
LEMMA RoundIsNear ==
  ASSUME NEW r \in Nat
  PROVE  /\ Round(r) \in Nat
         /\ 2 * (Round(r) * TicksPerSecond) <= 2 * r + TicksPerSecond
         /\ 2 * (Round(r) * TicksPerSecond) >= 2 * r - TicksPerSecond
<1> DEFINE s == TicksPerSecond
           q == r \div s
           m == r % s
<1>1. s \in Nat \ {0}
  BY LimiterConstants
<1>2. q \in Nat /\ m \in 0..(s - 1) /\ r = s * q + m
  BY <1>1
<1>3. q * s = s * q /\ (q + 1) * s = s * q + s
  BY <1>1, <1>2
<1>4. CASE Round(r) = q /\ 2 * m <= s
  BY <1>1, <1>2, <1>3, <1>4
<1>5. CASE Round(r) = q + 1 /\ 2 * m >= s
  BY <1>1, <1>2, <1>3, <1>5
<1>6. \/ Round(r) = q /\ 2 * m <= s
      \/ Round(r) = q + 1 /\ 2 * m >= s
  BY <1>1, <1>2 DEF Round
<1> QED
  BY <1>4, <1>5, <1>6

\* The wait a rejected client is told: at least a second, at most half a
\* second short of the end of its window, at most a second beyond it.
LEMMA RetryAfterIsNear ==
  ASSUME NEW r \in 1..W
  PROVE  /\ RetryAfter(r) \in Nat \ {0}
         /\ RetryAfter(r) * TicksPerSecond \in Nat
         /\ RetryAfter(r) * TicksPerSecond >= TicksPerSecond
         /\ RetryAfter(r) * TicksPerSecond <= r + TicksPerSecond
         /\ 2 * (RetryAfter(r) * TicksPerSecond) >= 2 * r - TicksPerSecond
<1>1. TicksPerSecond \in Nat \ {0} /\ r \in Nat \ {0}
  BY LimiterConstants, Positive
<1>2. /\ Round(r) \in Nat
      /\ 2 * (Round(r) * TicksPerSecond) <= 2 * r + TicksPerSecond
      /\ 2 * (Round(r) * TicksPerSecond) >= 2 * r - TicksPerSecond
  BY <1>1, RoundIsNear
<1>3. CASE Round(r) = 0
  <2>1. RetryAfter(r) = 1 /\ 1 * TicksPerSecond = TicksPerSecond /\ 0 * TicksPerSecond = 0
    BY <1>1, <1>3 DEF RetryAfter
  <2> QED
    BY <1>1, <1>2, <1>3, <2>1
<1>4. CASE Round(r) >= 1
  <2>1. RetryAfter(r) = Round(r)
    BY <1>2, <1>4 DEF RetryAfter
  <2>2. Round(r) * TicksPerSecond \in Nat /\ Round(r) * TicksPerSecond >= TicksPerSecond
    BY <1>1, <1>2, <1>4
  <2> QED
    BY <1>1, <1>2, <1>4, <2>1, <2>2
<1> QED
  BY <1>2, <1>3, <1>4

-----------------------------------------------------------------------------
(* Counting the events of a stretch.                                       *)

LEMMA StretchFinite ==
  ASSUME NEW times \in Seq(0..MaxTime), NEW t \in Int
  PROVE  /\ IsFiniteSet(Stretch(times, t))
         /\ Cardinality(Stretch(times, t)) \in Nat
<1>1. IsFiniteSet(1..Len(times))
  BY FS_Interval
<1>2. Stretch(times, t) \in SUBSET (1..Len(times))
  BY DEF Stretch
<1> QED
  BY <1>1, <1>2, FS_Subset, FS_CardinalityType

\* Nothing has happened yet.
LEMMA EmptyStretch ==
  ASSUME NEW t \in Int
  PROVE  Stretch(<< >>, t) = {} /\ Cardinality(Stretch(<< >>, t)) = 0
BY FS_EmptySet DEF Stretch

\* One more event counts in the stretches that are open when it happens.
LEMMA StretchGrows ==
  ASSUME NEW times \in Seq(0..MaxTime), NEW t \in Int, NEW x \in 0..MaxTime
  PROVE  Cardinality(Stretch(Append(times, x), t)) =
           IF t <= x /\ x < t + W THEN Cardinality(Stretch(times, t)) + 1
           ELSE Cardinality(Stretch(times, t))
<1> DEFINE more == Append(times, x)
           new  == Len(times) + 1
<1>1. /\ DOMAIN more = 1..new /\ DOMAIN times = 1..Len(times) /\ Len(times) \in Nat
      /\ \A n \in DOMAIN times : more[n] = times[n]
      /\ more[new] = x
  OBVIOUS
<1>2. new \notin Stretch(times, t)
  BY <1>1 DEF Stretch
<1>3. CASE t <= x /\ x < t + W
  <2>1. Stretch(more, t) = Stretch(times, t) \union {new}
    BY <1>1, <1>3 DEF Stretch
  <2> QED
    BY <1>2, <1>3, <2>1, StretchFinite, FS_AddElement
<1>4. CASE ~(t <= x /\ x < t + W)
  <2>1. Stretch(more, t) = Stretch(times, t)
    BY <1>1, <1>4 DEF Stretch
  <2> QED
    BY <1>4, <2>1
<1> QED
  BY <1>3, <1>4

\* Events of one stretch that all fall in another.
LEMMA StretchWithin ==
  ASSUME NEW times \in Seq(0..MaxTime), NEW t \in Int, NEW u \in Int,
         Stretch(times, t) \subseteq Stretch(times, u)
  PROVE  Cardinality(Stretch(times, t)) <= Cardinality(Stretch(times, u))
BY StretchFinite, FS_Subset

-----------------------------------------------------------------------------
(* The invariant, client by client.                                        *)

Fits(c, t) ==
  /\ now < t + W => Cardinality(AdmittedFrom(c, t)) <= Room(c, t)
  /\ Cardinality(AdmittedFrom(c, t)) < (2 + Cardinality(RestartsFrom(t))) * Allowance

Past(c) ==
  /\ window[c].started_at <= now
  /\ last[c].at <= now
  /\ \A n \in DOMAIN admitted[c] : admitted[c][n] <= now

Charged(c) ==
  /\ window[c].count > 0 =>
       Cardinality(AdmittedFrom(c, window[c].started_at)) >= Filled(c)
  /\ last[c] # Never =>
       Cardinality(AdmittedFrom(c, last[c].at - W + 1)) >= Allowance

Struck(c) ==
  /\ strikes[c] <= 2
  /\ window[c].count > 0 =>
       /\ strikes[c] > 0 =>
            2 * ComeBack(c) >= 2 * (window[c].started_at + W) - TicksPerSecond
       /\ strikes[c] = 2 => ComeBack(c) >= window[c].started_at + W

Told(c) ==
  /\ last[c] # Never => ComeBack(c) <= last[c].at + W + TicksPerSecond
  /\ window[c].count > 0 /\ last[c] # Never /\ last[c].at >= window[c].started_at =>
       ComeBack(c) <= window[c].started_at + W + TicksPerSecond

WellKept(c) ==
  /\ Past(c)
  /\ \A t \in 0..MaxTime : Fits(c, t)
  /\ Charged(c)
  /\ Struck(c)
  /\ Told(c)

\* The properties with what makes them inductive.
Kept ==
  /\ LimiterIInv
  /\ SlidingBound
  /\ RejectionsAreEarned
  /\ WaitingHelps
  /\ NoOverlongWait

\* The invariant is one statement for each client.
LEMMA IInvByClient == Kept <=> TypeOK /\ \A c \in Clients : WellKept(c)
<1>1. Kept => TypeOK /\ \A c \in Clients : WellKept(c)
  BY DEF Kept, LimiterIInv, NothingAhead, StretchesFit, SlidingBound, WindowsFilled,
     RejectionsAreEarned, StrikesRunOut, WaitingHelps, WaitsAreBounded, NoOverlongWait,
     WellKept, Past, Fits, Charged, Struck, Told
<1>2. TypeOK /\ (\A c \in Clients : WellKept(c)) => Kept
  BY DEF Kept, LimiterIInv, NothingAhead, StretchesFit, SlidingBound, WindowsFilled,
     RejectionsAreEarned, StrikesRunOut, WaitingHelps, WaitsAreBounded, NoOverlongWait,
     WellKept, Past, Fits, Charged, Struck, Told
<1> QED
  BY <1>1, <1>2

\* A request of one client leaves the others' records alone.
LEMMA OtherClientsKeepTheirs ==
  ASSUME NEW d \in Clients, WellKept(d),
         window'[d] = window[d], admitted'[d] = admitted[d], last'[d] = last[d],
         strikes'[d] = strikes[d], UNCHANGED <<now, restarts>>
  PROVE  WellKept(d)'
BY DEF WellKept, Past, Fits, Charged, Struck, Told, Room, Filled, ComeBack,
   AdmittedFrom, RestartsFrom

\* What a stretch of a client and its restarts number, and the bounds that
\* follow.
LEMMA Counts ==
  ASSUME TypeOK, NEW c \in Clients, NEW t \in Int
  PROVE  /\ Cardinality(AdmittedFrom(c, t)) \in Nat
         /\ Cardinality(RestartsFrom(t)) \in Nat
         /\ (1 + Cardinality(RestartsFrom(t))) * Allowance \in Nat
         /\ (1 + Cardinality(RestartsFrom(t))) * Allowance >= Allowance
         /\ (2 + Cardinality(RestartsFrom(t))) * Allowance
              = (1 + Cardinality(RestartsFrom(t))) * Allowance + Allowance
         /\ Filled(c) \in 0..Allowance
         /\ window[c].count > 0 => Filled(c) > 0
<1>1. admitted[c] \in Seq(0..MaxTime) /\ restarts \in Seq(0..MaxTime)
  BY DEF TypeOK
<1>2. /\ Cardinality(AdmittedFrom(c, t)) \in Nat
      /\ Cardinality(RestartsFrom(t)) \in Nat
  BY <1>1, StretchFinite DEF AdmittedFrom, RestartsFrom
<1>3. window[c].count \in Nat
  BY DEF TypeOK
<1>4. Filled(c) \in 0..Allowance /\ (window[c].count > 0 => Filled(c) > 0)
  BY <1>3, Positive DEF Filled
<1> QED
  BY <1>2, <1>4, OneAllowanceMore

\* No event lies ahead of the clock.
LEMMA NothingYet ==
  ASSUME TypeOK, NEW c \in Clients, Past(c), NEW t \in Int, t > now
  PROVE  Cardinality(AdmittedFrom(c, t)) = 0
<1>0. \A times \in Seq(0..MaxTime) : \A n \in DOMAIN times : times[n] \in Int
  BY LimiterConstants
<1>1. \A n \in DOMAIN admitted[c] : admitted[c][n] \in Int /\ admitted[c][n] <= now
  BY <1>0 DEF TypeOK, Past
<1>2. now \in Int
  BY DEF TypeOK
<1>3. AdmittedFrom(c, t) = {}
  BY <1>1, <1>2 DEF AdmittedFrom, Stretch
<1> QED
  BY <1>3, FS_EmptySet

\* The room in an open stretch is below the bound on any stretch.
LEMMA RoomIsBounded ==
  ASSUME TypeOK, NEW c \in Clients, NEW t \in 0..MaxTime
  PROVE  /\ Room(c, t) \in Int
         /\ Room(c, t) < (2 + Cardinality(RestartsFrom(t))) * Allowance
<1> DEFINE outside == (1 + Cardinality(RestartsFrom(t))) * Allowance
<1>1. t \in Int
  BY LimiterConstants
<1>2. /\ outside \in Nat /\ outside >= Allowance
      /\ (2 + Cardinality(RestartsFrom(t))) * Allowance = outside + Allowance
      /\ Filled(c) \in 0..Allowance
  BY <1>1, Counts
<1>3. Room(c, t) = IF window[c].count = 0 THEN outside - 1
                   ELSE IF window[c].started_at >= t THEN outside - 1 + Filled(c)
                   ELSE Filled(c) - 1
  BY DEF Room
<1> HIDE DEF outside
<1> QED
  BY <1>2, <1>3, Positive

\* A stretch fits when it fits its room, once it is over when it did before.
FitsIfRoom(c, t) ==
  /\ Room(c, t) \in Int
  /\ /\ now < t + W => Cardinality(AdmittedFrom(c, t)) <= Room(c, t)
     /\ ~(now < t + W) => Cardinality(AdmittedFrom(c, t))
                             < (2 + Cardinality(RestartsFrom(t))) * Allowance
     => Fits(c, t)

LEMMA FitsByRoom == TypeOK => \A c \in Clients, t \in 0..MaxTime : FitsIfRoom(c, t)
<1> SUFFICES ASSUME TypeOK, NEW c \in Clients, NEW t \in 0..MaxTime
             PROVE  FitsIfRoom(c, t)
  OBVIOUS
<1> DEFINE bound == (2 + Cardinality(RestartsFrom(t))) * Allowance
<1>1. t \in Int
  BY LimiterConstants
<1>2. Cardinality(AdmittedFrom(c, t)) \in Nat
  BY <1>1, Counts
<1>3. bound \in Int /\ Room(c, t) \in Int /\ Room(c, t) < bound
  BY <1>1, Counts, RoomIsBounded, Positive
<1>4. Cardinality(AdmittedFrom(c, t)) <= Room(c, t) => Cardinality(AdmittedFrom(c, t)) < bound
  BY <1>2, <1>3
<1> QED
  BY <1>3, <1>4 DEF FitsIfRoom, Fits

\* The same of the next state.
LEMMA FitsByRoomNext == TypeOK' => \A c \in Clients, t \in 0..MaxTime : FitsIfRoom(c, t)'
<1>1. (TypeOK => \A c \in Clients, t \in 0..MaxTime : FitsIfRoom(c, t))'
  BY FitsByRoom, PTL
<1> QED
  BY <1>1

-----------------------------------------------------------------------------
(* The steps.                                                              *)

\* Initially nobody has been let through or rejected.
LEMMA InitKept == Init => Kept
<1> SUFFICES ASSUME Init PROVE TypeOK /\ \A c \in Clients : WellKept(c)
  BY IInvByClient
<1>1. TypeOK
  BY LimiterConstants DEF Init, TypeOK, NoWindow, Never
<1>2. ASSUME NEW c \in Clients PROVE WellKept(c)
  <2>1. Past(c)
    BY <1>2, LimiterConstants DEF Init, Past, NoWindow, Never
  <2>2. ASSUME NEW t \in 0..MaxTime PROVE Fits(c, t)
    <3>1. t \in Int
      BY LimiterConstants
    <3>2. Cardinality(AdmittedFrom(c, t)) = 0
      BY <1>2, <3>1, EmptyStretch DEF Init, AdmittedFrom
    <3>3. Room(c, t) = (1 + Cardinality(RestartsFrom(t))) * Allowance - 1
      BY <1>2 DEF Init, Room, NoWindow
    <3> QED
      BY <1>1, <1>2, <3>1, <3>2, <3>3, Counts, Positive, FitsByRoom, RoomIsBounded
         DEF FitsIfRoom
  <2>3. Charged(c) /\ Struck(c) /\ Told(c)
    BY <1>2 DEF Init, Charged, Struck, Told, NoWindow
  <2> QED
    BY <2>1, <2>2, <2>3 DEF WellKept
<1> QED
  BY <1>1, <1>2

\* What a counted request finds and leaves.
LEMMA CountedRequest ==
  ASSUME TypeOK, NEW c \in Clients, Past(c), CountRequest(c)
  PROVE  /\ now \in Nat /\ window[c].started_at \in Nat /\ window[c].count \in Nat
         /\ window[c].started_at <= now /\ window[c].count > 0
         /\ Elapsed(c) = now - window[c].started_at
         /\ W - Elapsed(c) \in 1..W
         /\ window' \in [Clients -> [started_at : 0..MaxTime, count : Nat]]
         /\ window'[c].started_at = window[c].started_at
         /\ window'[c].count = window[c].count + 1
         /\ \A d \in Clients \ {c} : window'[d] = window[d]
         /\ now' = now
<1>1. /\ now \in Nat /\ window[c] \in [started_at : 0..MaxTime, count : Nat]
      /\ window[c].started_at \in Nat /\ window[c].count \in Nat
  BY LimiterConstants DEF TypeOK
<1>2. window[c].started_at <= now
  BY DEF Past
<1>3. /\ window[c].count # 0 /\ ~(Elapsed(c) >= W)
      /\ now' = now
  BY DEF CountRequest, Fresh
<1>4. Elapsed(c) = now - window[c].started_at /\ W - Elapsed(c) \in 1..W
  BY <1>1, <1>2, <1>3, Positive DEF Elapsed
<1> DEFINE more == [started_at |-> window[c].started_at, count |-> window[c].count + 1]
<1>5. window' = [window EXCEPT ![c] = more]
  BY DEF CountRequest
<1>6. more \in [started_at : 0..MaxTime, count : Nat]
  BY <1>1
<1>7. /\ window' \in [Clients -> [started_at : 0..MaxTime, count : Nat]]
      /\ window'[c] = more
      /\ \A d \in Clients \ {c} : window'[d] = window[d]
  BY <1>5, <1>6 DEF TypeOK
<1> QED
  BY <1>1, <1>2, <1>3, <1>4, <1>7

\* What a request that is let through leaves.
LEMMA AdmittedRequest ==
  ASSUME TypeOK, NEW c \in Clients, Admit(c)
  PROVE  /\ admitted[c] \in Seq(0..MaxTime)
         /\ admitted' \in [Clients -> Seq(0..MaxTime)]
         /\ admitted'[c] = Append(admitted[c], now)
         /\ strikes' \in [Clients -> Nat] /\ strikes'[c] = 0
         /\ \A d \in Clients \ {c} : admitted'[d] = admitted[d] /\ strikes'[d] = strikes[d]
         /\ UNCHANGED <<last, restarts>>
<1>1. now \in 0..MaxTime /\ admitted \in [Clients -> Seq(0..MaxTime)]
  BY DEF TypeOK
<1>2. admitted[c] \in Seq(0..MaxTime)
  BY <1>1
<1>3. Append(admitted[c], now) \in Seq(0..MaxTime)
  BY <1>1, <1>2
<1>4. admitted' = [admitted EXCEPT ![c] = Append(admitted[c], now)]
  BY DEF Admit
<1> QED
  BY <1>1, <1>2, <1>3, <1>4 DEF Admit, TypeOK

\* Every step keeps the types.
LEMMA StepTypeOK ==
  ASSUME TypeOK, \A c \in Clients : Past(c), [Next]_vars
  PROVE  TypeOK'
<1>0. MaxTime \in Nat /\ NoWindow \in [started_at : 0..MaxTime, count : Nat]
  BY LimiterConstants DEF NoWindow
<1>1. ASSUME NEW c \in Clients, OpenWindow(c) PROVE TypeOK'
  <2>1. [started_at |-> now, count |-> 1] \in [started_at : 0..MaxTime, count : Nat]
    BY DEF TypeOK
  <2> QED
    BY <1>1, <2>1, AdmittedRequest DEF OpenWindow, TypeOK
<1>2. ASSUME NEW c \in Clients, PassThrough(c) PROVE TypeOK'
  <2>1. CountRequest(c) /\ Admit(c)
    BY <1>2 DEF PassThrough
  <2> QED
    BY <2>1, CountedRequest, AdmittedRequest DEF TypeOK
<1>3. ASSUME NEW c \in Clients, Reject(c) PROVE TypeOK'
  <2>1. CountRequest(c)
    BY <1>3 DEF Reject
  <2>2. RetryAfter(W - Elapsed(c)) \in Nat
    BY <2>1, CountedRequest, RetryAfterIsNear
  <2>3. /\ [at |-> now, retry |-> RetryAfter(W - Elapsed(c))] \in [at : 0..MaxTime, retry : Nat]
        /\ (IF now >= ComeBack(c) THEN strikes[c] + 1 ELSE 1) \in Nat
    BY <2>2 DEF TypeOK
  <2> QED
    BY <1>3, <2>1, <2>3, CountedRequest DEF Reject, TypeOK
<1>4. CASE Tick
  BY <1>0, <1>4 DEF Tick, TypeOK
<1>5. CASE Restart
  BY <1>0, <1>5 DEF Restart, TypeOK
<1>6. CASE UNCHANGED vars
  BY <1>6 DEF vars, TypeOK
<1> QED
  BY <1>1, <1>2, <1>3, <1>4, <1>5, <1>6 DEF Next

\* A request let through takes its place in the stretches open now: they fit
\* when the client's room in them grows with it.
LEMMA AdmittedStillFits ==
  ASSUME TypeOK, TypeOK', NEW c \in Clients, Past(c), NEW t \in 0..MaxTime, Fits(c, t),
         Admit(c), now' = now,
         t <= now /\ now < t + W => Room(c, t)' >= Room(c, t) + 1,
         t > now => Room(c, t)' >= 0
  PROVE  Fits(c, t)'
<1>1. t \in Int /\ now \in 0..MaxTime /\ now \in Int /\ W \in Int
  BY LimiterConstants, Positive DEF TypeOK
<1>2. /\ Cardinality(AdmittedFrom(c, t)) \in Nat
      /\ Room(c, t) \in Int /\ FitsIfRoom(c, t)' /\ Room(c, t)' \in Int
  BY <1>1, Counts, RoomIsBounded, FitsByRoomNext DEF FitsIfRoom
<1>3. Cardinality(AdmittedFrom(c, t))' =
        IF t <= now /\ now < t + W THEN Cardinality(AdmittedFrom(c, t)) + 1
        ELSE Cardinality(AdmittedFrom(c, t))
  BY <1>1, AdmittedRequest, StretchGrows DEF AdmittedFrom
<1>4. RestartsFrom(t)' = RestartsFrom(t)
  BY AdmittedRequest DEF RestartsFrom
<1>5. CASE t > now
  <2>1. Cardinality(AdmittedFrom(c, t))' = 0
    BY <1>1, <1>3, <1>5, NothingYet
  <2>2. now' < t + W
    BY <1>1, <1>5, Positive
  <2> QED
    BY <1>2, <1>5, <2>1, <2>2 DEF FitsIfRoom
<1>6. CASE t <= now /\ now < t + W
  <2>1. Cardinality(AdmittedFrom(c, t))' <= Room(c, t)'
    BY <1>2, <1>3, <1>6 DEF Fits
  <2> QED
    BY <1>1, <1>2, <1>6, <2>1 DEF FitsIfRoom
<1>7. CASE ~(now < t + W)
  BY <1>2, <1>3, <1>4, <1>7 DEF FitsIfRoom, Fits, RestartsFrom
<1> QED
  BY <1>1, <1>5, <1>6, <1>7

\* The requests that filled the window are the ones that a rejection is for.
LEMMA WindowWithinLast ==
  ASSUME TypeOK, NEW c \in Clients, Past(c), NEW s \in Int, s > now - W
  PROVE  Cardinality(AdmittedFrom(c, s)) <= Cardinality(AdmittedFrom(c, now - W + 1))
<1>1. admitted[c] \in Seq(0..MaxTime) /\ now \in Int /\ W \in Int
  BY LimiterConstants, Positive DEF TypeOK
<1>2. \A times \in Seq(0..MaxTime) : \A n \in DOMAIN times : times[n] \in Int
  BY LimiterConstants
<1>3. \A n \in DOMAIN admitted[c] : admitted[c][n] \in Int /\ admitted[c][n] <= now
  BY <1>1, <1>2 DEF Past
<1>4. AdmittedFrom(c, s) \subseteq AdmittedFrom(c, now - W + 1)
  BY <1>1, <1>3 DEF AdmittedFrom, Stretch
<1> QED
  BY <1>1, <1>4, StretchWithin DEF AdmittedFrom

\* Another request let through does not take the last rejection's grounds away.
LEMMA EarnedStaysEarned ==
  ASSUME TypeOK, NEW c \in Clients, Charged(c), Admit(c), last[c] # Never
  PROVE  Cardinality(Stretch(admitted'[c], last[c].at - W + 1)) >= Allowance
<1> DEFINE t == last[c].at - W + 1
<1>1. now \in 0..MaxTime /\ last[c].at \in 0..MaxTime
  BY DEF TypeOK
<1>2. t \in Int
  BY <1>1, LimiterConstants, Positive
<1>3. Cardinality(Stretch(admitted[c], t)) >= Allowance
  BY DEF Charged, AdmittedFrom
<1>4. admitted[c] \in Seq(0..MaxTime) /\ admitted'[c] = Append(admitted[c], now)
  BY AdmittedRequest
<1> HIDE DEF t
<1>5. Cardinality(Stretch(admitted[c], t)) \in Nat
  BY <1>2, <1>4, StretchFinite
<1>6. /\ Cardinality(Stretch(admitted'[c], t)) \in Nat
      /\ Cardinality(Stretch(admitted'[c], t)) >= Cardinality(Stretch(admitted[c], t))
  BY <1>1, <1>2, <1>4, <1>5, StretchGrows
<1>7. Cardinality(Stretch(admitted'[c], t)) >= Allowance
  BY <1>3, <1>5, <1>6, Positive
<1> QED
  BY <1>7 DEF t

\* A request that opens a window: the last window is over or was lost.
LEMMA OpenWindowStep ==
  ASSUME TypeOK, TypeOK', NEW c \in Clients, WellKept(c), OpenWindow(c)
  PROVE  WellKept(c)'
<1>1. /\ Past(c) /\ Admit(c) /\ now' = now /\ Fresh(c)
      /\ window[c] \in [started_at : 0..MaxTime, count : Nat]
      /\ window[c].started_at \in Int /\ window[c].count \in Nat
      /\ now \in 0..MaxTime /\ now \in Int /\ W \in Nat \ {0}
  BY LimiterConstants, Positive DEF WellKept, OpenWindow, TypeOK
<1>2. window'[c] = [started_at |-> now, count |-> 1] /\ Filled(c)' = 1
  BY Positive DEF OpenWindow, TypeOK, Filled
<1>3. /\ admitted'[c] = Append(admitted[c], now) /\ strikes'[c] = 0
      /\ last' = last /\ restarts' = restarts
      /\ admitted[c] \in Seq(0..MaxTime)
  BY <1>1, AdmittedRequest
<1>4. Past(c)'
  <2>1. last[c].at <= now /\ \A n \in DOMAIN admitted[c] : admitted[c][n] <= now
    BY <1>1 DEF Past
  <2>2. \A n \in DOMAIN Append(admitted[c], now) : Append(admitted[c], now)[n] <= now
    BY <1>1, <1>3, <2>1
  <2> QED
    BY <1>1, <1>2, <1>3, <2>1, <2>2 DEF Past
<1>5. ASSUME NEW t \in 0..MaxTime PROVE Fits(c, t)'
  <2> DEFINE outside == (1 + Cardinality(RestartsFrom(t))) * Allowance
  <2>1. t \in Int
    BY LimiterConstants
  <2>2. /\ outside \in Nat /\ outside >= Allowance /\ Allowance \in Nat \ {0}
        /\ Filled(c) \in 0..Allowance
    BY <2>1, Counts, Positive
  <2>3. Room(c, t)' = IF now >= t THEN outside - 1 + 1 ELSE 1 - 1
    BY <1>2, <1>3 DEF Room, RestartsFrom
  <2>4. Room(c, t) = IF window[c].count = 0 THEN outside - 1
                     ELSE IF window[c].started_at >= t THEN outside - 1 + Filled(c)
                     ELSE Filled(c) - 1
    BY DEF Room
  <2> HIDE DEF outside
  <2>5. ASSUME t <= now, now < t + W PROVE Room(c, t)' >= Room(c, t) + 1
    <3>1. window[c].count = 0 \/ window[c].started_at < t
      BY <1>1, <2>1, <2>5 DEF Fresh, Elapsed
    <3> QED
      BY <1>1, <2>1, <2>2, <2>3, <2>4, <2>5, <3>1
  <2>6. t > now => Room(c, t)' >= 0
    BY <1>1, <2>1, <2>3
  <2> QED
    BY <1>1, <2>5, <2>6, AdmittedStillFits DEF WellKept
<1>6. Charged(c)'
  <2>1. Cardinality(AdmittedFrom(c, now)) \in Nat
    BY <1>1, Counts
  <2>2. Cardinality(Stretch(admitted'[c], now)) >= 1
    BY <1>1, <1>3, <2>1, StretchGrows DEF AdmittedFrom
  <2>3. ASSUME last[c] # Never
        PROVE  Cardinality(Stretch(admitted'[c], last[c].at - W + 1)) >= Allowance
    BY <1>1, <2>3, EarnedStaysEarned DEF WellKept
  <2> QED
    BY <1>2, <1>3, <2>2, <2>3 DEF Charged, AdmittedFrom
<1>7. Struck(c)'
  BY <1>3 DEF Struck
<1>8. Told(c)'
  <2>1. /\ last[c].at \in Int /\ last[c].at <= now
        /\ last[c] # Never => ComeBack(c) <= last[c].at + W + TicksPerSecond
    BY <1>1, LimiterConstants DEF TypeOK, WellKept, Past, Told
  <2>2. ComeBack(c)' = ComeBack(c)
    BY <1>3 DEF ComeBack
  <2>3. last[c].at >= now => last[c].at = now
    BY <1>1, <2>1
  <2> QED
    BY <1>2, <1>3, <2>1, <2>2, <2>3 DEF Told
<1> QED
  BY <1>4, <1>5, <1>6, <1>7, <1>8 DEF WellKept


\* A request of an open window that is let through: the window has room.
LEMMA PassThroughStep ==
  ASSUME TypeOK, TypeOK', NEW c \in Clients, WellKept(c), PassThrough(c)
  PROVE  WellKept(c)'
<1> DEFINE s == window[c].started_at
           k == window[c].count
<1>1. Past(c) /\ Admit(c) /\ CountRequest(c) /\ k + 1 <= Requests
  BY DEF WellKept, PassThrough, Within
<1>2. /\ now \in Nat /\ s \in Nat /\ k \in Nat /\ s <= now /\ k > 0
      /\ now - s < W
      /\ window'[c].started_at = s /\ window'[c].count = k + 1
      /\ now' = now
  <2>1. /\ now \in Nat /\ s \in Nat /\ k \in Nat /\ s <= now /\ k > 0
        /\ Elapsed(c) = now - s /\ W - Elapsed(c) \in 1..W
        /\ window'[c].started_at = s /\ window'[c].count = k + 1
        /\ now' = now
    BY <1>1, CountedRequest
  <2> QED
    BY <2>1, Positive
<1>3. /\ admitted'[c] = Append(admitted[c], now) /\ strikes'[c] = 0
      /\ last' = last /\ restarts' = restarts
      /\ admitted[c] \in Seq(0..MaxTime)
  BY <1>1, AdmittedRequest
<1>4. Filled(c) = k /\ Filled(c)' = k + 1
  BY <1>1, <1>2, LimiterConstants DEF Filled, Allowance
<1>5. now \in 0..MaxTime /\ now \in Int /\ W \in Nat \ {0}
  BY LimiterConstants, Positive DEF TypeOK
<1>6. Past(c)'
  <2>1. last[c].at <= now /\ \A n \in DOMAIN admitted[c] : admitted[c][n] <= now
    BY <1>1 DEF Past
  <2>2. \A n \in DOMAIN Append(admitted[c], now) : Append(admitted[c], now)[n] <= now
    BY <1>3, <1>5, <2>1
  <2> QED
    BY <1>2, <1>3, <2>1, <2>2 DEF Past
<1>7. ASSUME NEW t \in 0..MaxTime PROVE Fits(c, t)'
  <2> DEFINE outside == (1 + Cardinality(RestartsFrom(t))) * Allowance
  <2>1. t \in Int /\ outside \in Nat
    BY LimiterConstants, Counts
  <2>2. /\ Room(c, t)' = IF s >= t THEN outside - 1 + (k + 1) ELSE k + 1 - 1
        /\ Room(c, t) = IF s >= t THEN outside - 1 + k ELSE k - 1
    BY <1>2, <1>3, <1>4 DEF Room, RestartsFrom
  <2> HIDE DEF outside
  <2>3. Room(c, t)' >= Room(c, t) + 1 /\ (t > now => Room(c, t)' >= 0)
    BY <1>2, <2>1, <2>2
  <2> QED
    BY <1>1, <1>2, <2>3, AdmittedStillFits DEF WellKept
<1>8. Charged(c)'
  <2>1. /\ Cardinality(Stretch(admitted[c], s)) \in Nat
        /\ Cardinality(Stretch(admitted[c], s)) >= k
    <3>1. Cardinality(AdmittedFrom(c, s)) >= Filled(c)
      BY <1>2 DEF WellKept, Charged
    <3>2. Cardinality(AdmittedFrom(c, s)) \in Nat
      <4>1. s \in Int
        BY <1>2
      <4> QED
        BY <4>1, Counts
    <3> QED
      BY <1>4, <3>1, <3>2 DEF AdmittedFrom
  <2>2. Cardinality(Stretch(admitted'[c], s)) = Cardinality(Stretch(admitted[c], s)) + 1
    BY <1>2, <1>3, <1>5, StretchGrows
  <2>3. Cardinality(Stretch(admitted'[c], s)) >= k + 1
    BY <1>2, <2>1, <2>2
  <2>4. ASSUME last[c] # Never
        PROVE  Cardinality(Stretch(admitted'[c], last[c].at - W + 1)) >= Allowance
    BY <1>1, <2>4, EarnedStaysEarned DEF WellKept
  <2> QED
    BY <1>2, <1>3, <1>4, <2>3, <2>4 DEF Charged, AdmittedFrom
<1>9. Struck(c)'
  BY <1>3 DEF Struck
<1>10. Told(c)'
  <2>1. ComeBack(c)' = ComeBack(c)
    BY <1>3 DEF ComeBack
  <2> QED
    BY <1>2, <1>3, <2>1 DEF WellKept, Told
<1> QED
  BY <1>6, <1>7, <1>8, <1>9, <1>10 DEF WellKept

\* A rejection: the window has let its allowance through, and the wait told
\* is near its end.
LEMMA RejectStep ==
  ASSUME TypeOK, TypeOK', NEW c \in Clients, WellKept(c), Reject(c)
  PROVE  WellKept(c)'
<1> DEFINE s == window[c].started_at
           k == window[c].count
           wait == RetryAfter(W - Elapsed(c))
           told == wait * TicksPerSecond
<1>1. Past(c) /\ CountRequest(c) /\ ~(k + 1 <= Requests)
  BY DEF WellKept, Reject, Within
<1>2. /\ now \in Nat /\ s \in Nat /\ k \in Nat /\ s <= now /\ k > 0
      /\ Elapsed(c) = now - s /\ W - Elapsed(c) \in 1..W
      /\ window'[c].started_at = s /\ window'[c].count = k + 1
      /\ now' = now
  BY <1>1, CountedRequest
<1>3. /\ wait \in Nat \ {0} /\ told \in Nat /\ told >= TicksPerSecond
      /\ told <= (W - (now - s)) + TicksPerSecond
      /\ 2 * told >= 2 * (W - (now - s)) - TicksPerSecond
  BY <1>2, RetryAfterIsNear
<1>4. /\ W \in Nat \ {0} /\ TicksPerSecond \in Nat \ {0} /\ Allowance \in Nat \ {0}
      /\ k + 1 > Requests /\ Requests \in Int
  BY <1>1, <1>2, LimiterConstants, Positive
<1>5. /\ last'[c] = [at |-> now, retry |-> wait]
      /\ strikes'[c] = IF now >= ComeBack(c) THEN strikes[c] + 1 ELSE 1
      /\ admitted' = admitted /\ restarts' = restarts
  BY DEF Reject, TypeOK
<1>6. k >= Allowance /\ Filled(c) = Allowance /\ Filled(c)' = Allowance
  <2>1. k >= Allowance
    BY <1>2, <1>4 DEF Allowance
  <2> QED
    BY <1>2, <1>4, <2>1 DEF Filled
<1>7. ComeBack(c)' = now + told /\ last'[c] # Never
  BY <1>3, <1>5 DEF ComeBack, Never
<1> HIDE DEF wait, told
<1>8. Past(c)'
  BY <1>1, <1>2, <1>5 DEF Past
<1>9. ASSUME NEW t \in 0..MaxTime PROVE Fits(c, t)'
  <2>1. Room(c, t)' = Room(c, t)
    BY <1>2, <1>5, <1>6 DEF Room, RestartsFrom
  <2> QED
    BY <1>2, <1>5, <2>1 DEF WellKept, Fits, AdmittedFrom, RestartsFrom
<1>10. Charged(c)'
  <2>1. Cardinality(AdmittedFrom(c, s)) >= Allowance
    BY <1>2, <1>6 DEF WellKept, Charged
  <2>2. Cardinality(AdmittedFrom(c, s)) <= Cardinality(AdmittedFrom(c, now - W + 1))
    BY <1>1, <1>2, <1>4, WindowWithinLast
  <2>3. /\ Cardinality(AdmittedFrom(c, s)) \in Nat
        /\ Cardinality(AdmittedFrom(c, now - W + 1)) \in Nat
    BY <1>2, <1>4, Counts
  <2>4. Cardinality(AdmittedFrom(c, now - W + 1)) >= Allowance
    BY <1>4, <2>1, <2>2, <2>3
  <2> QED
    BY <1>2, <1>5, <1>6, <2>1, <2>4 DEF Charged, AdmittedFrom
<1>11. Struck(c)'
  <2>1. /\ ComeBack(c) \in Int /\ strikes[c] \in Nat /\ strikes[c] <= 2
        /\ strikes[c] > 0 => 2 * ComeBack(c) >= 2 * (s + W) - TicksPerSecond
        /\ strikes[c] = 2 => ComeBack(c) >= s + W
    <3>1. last[c].at \in Int /\ last[c].retry \in Int /\ strikes[c] \in Nat
      BY LimiterConstants DEF TypeOK
    <3>2. \A x, y, z \in Int : x + y * z \in Int
      OBVIOUS
    <3>3. ComeBack(c) \in Int
      BY <1>4, <3>1, <3>2 DEF ComeBack
    <3> QED
      BY <1>2, <3>1, <3>3 DEF WellKept, Struck
  <2>2. 2 * (now + told) >= 2 * (s + W) - TicksPerSecond
    BY <1>2, <1>3, <1>4
  <2>3. CASE now >= ComeBack(c)
    <3>1. strikes[c] # 2
      BY <1>2, <1>4, <2>1, <2>3
    <3>2. strikes[c] = 1 => now + told >= s + W
      BY <1>2, <1>3, <1>4, <2>1, <2>3
    <3> QED
      BY <1>2, <1>5, <1>7, <2>1, <2>2, <2>3, <3>1, <3>2 DEF Struck
  <2>4. CASE ~(now >= ComeBack(c))
    BY <1>2, <1>5, <1>7, <2>2, <2>4 DEF Struck
  <2> QED
    BY <2>3, <2>4
<1>12. Told(c)'
  BY <1>2, <1>3, <1>4, <1>5, <1>7 DEF Told
<1> QED
  BY <1>8, <1>9, <1>10, <1>11, <1>12 DEF WellKept

\* Time passes: fewer stretches are open.
LEMMA TickStep ==
  ASSUME TypeOK, NEW c \in Clients, WellKept(c), Tick
  PROVE  WellKept(c)'
<1>1. now \in Int /\ now' = now + 1 /\ UNCHANGED <<window, admitted, last, strikes, restarts>>
  BY LimiterConstants DEF TypeOK, Tick
<1>2. Past(c)'
  <2>1. \A times \in Seq(0..MaxTime) : \A n \in DOMAIN times : times[n] \in Int
    BY LimiterConstants
  <2>2. /\ window[c].started_at \in Int /\ last[c].at \in Int
        /\ \A n \in DOMAIN admitted[c] : admitted[c][n] \in Int
    BY <2>1, LimiterConstants DEF TypeOK
  <2> QED
    BY <1>1, <2>2 DEF WellKept, Past
<1>3. ASSUME NEW t \in 0..MaxTime PROVE Fits(c, t)'
  <2>1. t + W \in Int
    BY LimiterConstants, Positive
  <2>2. Room(c, t)' = Room(c, t)
    BY <1>1 DEF Room, RestartsFrom, Filled
  <2>3. now' < t + W => now < t + W
    BY <1>1, <2>1
  <2> QED
    BY <1>1, <2>2, <2>3 DEF WellKept, Fits, AdmittedFrom, RestartsFrom
<1>4. Charged(c)' /\ Struck(c)' /\ Told(c)'
  BY <1>1 DEF WellKept, Charged, Struck, Told, AdmittedFrom, Filled, ComeBack
<1> QED
  BY <1>2, <1>3, <1>4 DEF WellKept

\* A restart adds an allowance to the stretches open now.
LEMMA RestartStep ==
  ASSUME TypeOK, TypeOK', NEW c \in Clients, WellKept(c), Restart
  PROVE  WellKept(c)'
<1>1. /\ window'[c] = NoWindow /\ restarts' = Append(restarts, now)
      /\ UNCHANGED <<now, admitted, last, strikes>>
      /\ now \in 0..MaxTime /\ now \in Int /\ W \in Nat \ {0}
      /\ restarts \in Seq(0..MaxTime)
  BY LimiterConstants, Positive DEF TypeOK, Restart
<1>2. Past(c)'
  BY <1>1 DEF WellKept, Past, NoWindow
<1>3. ASSUME NEW t \in 0..MaxTime PROVE Fits(c, t)'
  <2> DEFINE R == Cardinality(RestartsFrom(t))
  <2>1. t \in Int /\ FitsIfRoom(c, t)'
    BY LimiterConstants, FitsByRoomNext
  <2>2. /\ R \in Nat
        /\ (1 + R) * Allowance \in Nat
        /\ (1 + R) * Allowance >= Allowance
        /\ (2 + R) * Allowance = (1 + R) * Allowance + Allowance
        /\ Filled(c) \in 0..Allowance
        /\ Allowance \in Nat \ {0}
    BY <2>1, Counts, Positive
  <2>3. Cardinality(RestartsFrom(t))' = IF t <= now /\ now < t + W THEN R + 1 ELSE R
    BY <1>1, <2>1, StretchGrows DEF RestartsFrom
  <2>4. AdmittedFrom(c, t)' = AdmittedFrom(c, t)
    BY <1>1 DEF AdmittedFrom
  <2>5. Room(c, t)' = (1 + Cardinality(RestartsFrom(t))') * Allowance - 1
    BY <1>1 DEF Room, NoWindow
  <2>6. CASE t > now
    <3>1. Cardinality(AdmittedFrom(c, t)) = 0
      BY <2>1, <2>6, NothingYet DEF WellKept
    <3>2. Room(c, t)' >= 0 /\ now' < t + W
      BY <1>1, <2>1, <2>2, <2>3, <2>5, <2>6
    <3> QED
      BY <2>1, <2>4, <3>1, <3>2 DEF FitsIfRoom
  <2>7. CASE t <= now /\ now < t + W
    <3>1. Cardinality(AdmittedFrom(c, t)) <= Room(c, t)
      BY <2>7 DEF WellKept, Fits
    <3>2. Room(c, t) = IF window[c].count = 0 THEN (1 + R) * Allowance - 1
                       ELSE IF window[c].started_at >= t THEN (1 + R) * Allowance - 1 + Filled(c)
                       ELSE Filled(c) - 1
      BY DEF Room
    <3>3. 1 + (R + 1) = 2 + R
      BY <2>2
    <3>4. Room(c, t)' = (2 + R) * Allowance - 1
      BY <2>3, <2>5, <2>7, <3>3
    <3> DEFINE one == (1 + R) * Allowance
               two == (2 + R) * Allowance
    <3>5. /\ one \in Nat /\ one >= Allowance /\ two = one + Allowance
          /\ Room(c, t) = IF window[c].count = 0 THEN one - 1
                          ELSE IF window[c].started_at >= t THEN one - 1 + Filled(c)
                          ELSE Filled(c) - 1
          /\ Room(c, t)' = two - 1
      BY <2>2, <3>2, <3>4
    <3> HIDE DEF one, two
    <3>6. Room(c, t)' >= Room(c, t) /\ Room(c, t) \in Int
      BY <2>2, <3>5
    <3>7. Cardinality(AdmittedFrom(c, t)) \in Nat
      BY <2>1, Counts
    <3>8. Cardinality(AdmittedFrom(c, t)) <= Room(c, t)'
      BY <2>1, <3>1, <3>6, <3>7 DEF FitsIfRoom
    <3> QED
      BY <1>1, <2>1, <2>4, <2>7, <3>8 DEF FitsIfRoom
  <2>8. CASE ~(now < t + W)
    <3>1. Cardinality(AdmittedFrom(c, t)) < (2 + R) * Allowance
      BY DEF WellKept, Fits
    <3>2. Cardinality(RestartsFrom(t))' = R
      BY <2>3, <2>8
    <3> QED
      BY <1>1, <2>1, <2>4, <2>8, <3>1, <3>2 DEF FitsIfRoom
  <2> QED
    BY <1>1, <2>1, <2>6, <2>7, <2>8
<1>4. Charged(c)' /\ Struck(c)' /\ Told(c)'
  BY <1>1 DEF WellKept, Charged, Struck, Told, AdmittedFrom, NoWindow, ComeBack
<1> QED
  BY <1>2, <1>3, <1>4 DEF WellKept


-----------------------------------------------------------------------------
(* The theorems.                                                           *)

\* Every step keeps the invariant.
LEMMA StepKept == Kept /\ [Next]_vars => Kept'
<1> SUFFICES ASSUME TypeOK, \A c \in Clients : WellKept(c), [Next]_vars
             PROVE  Kept'
  BY IInvByClient
<1>1. TypeOK'
  BY StepTypeOK DEF WellKept
<1>2. ASSUME NEW d \in Clients PROVE WellKept(d)'
  <2>1. ASSUME NEW c \in Clients, OpenWindow(c) PROVE WellKept(d)'
    <3>1. CASE c = d
      BY <1>1, <2>1, <3>1, OpenWindowStep
    <3>2. CASE c # d
      <4>1. /\ admitted'[d] = admitted[d] /\ strikes'[d] = strikes[d]
            /\ UNCHANGED <<last, restarts>>
        BY <1>2, <2>1, <3>2, AdmittedRequest DEF OpenWindow
      <4>2. window'[d] = window[d] /\ now' = now
        BY <1>2, <2>1, <3>2 DEF OpenWindow, TypeOK
      <4> QED
        BY <1>2, <4>1, <4>2, OtherClientsKeepTheirs
    <3> QED
      BY <3>1, <3>2
  <2>2. ASSUME NEW c \in Clients, PassThrough(c) PROVE WellKept(d)'
    <3>1. CASE c = d
      BY <1>1, <2>2, <3>1, PassThroughStep
    <3>2. CASE c # d
      <4>1. /\ admitted'[d] = admitted[d] /\ strikes'[d] = strikes[d]
            /\ UNCHANGED <<last, restarts>>
        BY <1>2, <2>2, <3>2, AdmittedRequest DEF PassThrough
      <4>2. window'[d] = window[d] /\ now' = now
        BY <1>2, <2>2, <3>2, CountedRequest DEF PassThrough, WellKept
      <4> QED
        BY <1>2, <4>1, <4>2, OtherClientsKeepTheirs
    <3> QED
      BY <3>1, <3>2
  <2>3. ASSUME NEW c \in Clients, Reject(c) PROVE WellKept(d)'
    <3>1. CASE c = d
      BY <1>1, <2>3, <3>1, RejectStep
    <3>2. CASE c # d
      <4>1. /\ last'[d] = last[d] /\ strikes'[d] = strikes[d]
            /\ UNCHANGED <<admitted, restarts>>
        BY <1>2, <2>3, <3>2 DEF Reject, TypeOK
      <4>2. window'[d] = window[d] /\ now' = now
        BY <1>2, <2>3, <3>2, CountedRequest DEF Reject, WellKept
      <4> QED
        BY <1>2, <4>1, <4>2, OtherClientsKeepTheirs
    <3> QED
      BY <3>1, <3>2
  <2>4. CASE Tick
    BY <1>2, <2>4, TickStep
  <2>5. CASE Restart
    BY <1>1, <1>2, <2>5, RestartStep
  <2>6. CASE UNCHANGED vars
    BY <1>2, <2>6, OtherClientsKeepTheirs DEF vars
  <2> QED
    BY <2>1, <2>2, <2>3, <2>4, <2>5, <2>6 DEF Next
<1>3. (TypeOK /\ (\A c \in Clients : WellKept(c)) => Kept)'
  BY IInvByClient, PTL
<1> QED
  BY <1>1, <1>2, <1>3

\* The properties and what they rest on hold in every state of the limiter.
LEMMA KeptAlways == Spec => []Kept
BY InitKept, StepKept, PTL DEF Spec

\* No stretch that is not over has let through more than it has room for, and
\* the records of each client agree with its window.
THEOREM LimiterInvariance == Spec => []LimiterIInv
<1>1. Kept => LimiterIInv
  BY DEF Kept
<1> QED
  BY <1>1, KeptAlways, PTL

\* Every variable keeps its type.
THEOREM LimiterTypeCorrect == Spec => []TypeOK
<1>1. LimiterIInv => TypeOK
  BY DEF LimiterIInv
<1> QED
  BY <1>1, LimiterInvariance, PTL

\* In any stretch as long as a window a client gets less than two allowances
\* through, and one more for every restart in it.
THEOREM StretchesAreBounded == Spec => []SlidingBound
<1>1. Kept => SlidingBound
  BY DEF Kept
<1> QED
  BY <1>1, KeptAlways, PTL

\* A client is only rejected after its own whole allowance within a window's
\* length, however often the process was started again.
THEOREM ClientsEarnRejections == Spec => []RejectionsAreEarned
<1>1. Kept => RejectionsAreEarned
  BY DEF Kept
<1> QED
  BY <1>1, KeptAlways, PTL

\* A client that waits as long as Retry-After says is rejected at most twice
\* in a row.
THEOREM ObedientClientsGetThrough == Spec => []WaitingHelps
<1>1. Kept => WaitingHelps
  BY DEF Kept
<1> QED
  BY <1>1, KeptAlways, PTL

\* No client is told to wait more than a second beyond the window that
\* rejected it.
THEOREM WaitsEndWithTheWindow == Spec => []NoOverlongWait
<1>1. Kept => NoOverlongWait
  BY DEF Kept
<1> QED
  BY <1>1, KeptAlways, PTL

=============================================================================
