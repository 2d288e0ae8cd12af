----------------------------- MODULE RateProofs -----------------------------
(***************************************************************************)
(* The rate limits hold in every hour and every day, not only from one     *)
(* window's start to the next, for any number of shops and customers and   *)
(* any limits.                                                             *)
(***************************************************************************)
EXTENDS LoyaltyProofs, SumProofs, RateLimits

-----------------------------------------------------------------------------
(* A fixed window, whatever it counts.                                      *)

Interval(a, b) == {u \in Times : a <= u /\ u < b}
Between(times, a, b) == SumFunctionOnSet(times, Interval(a, b))
Used(times, t) == [times EXCEPT ![t] = @ + 1]

\* A window of the given width opened at start, with its first use, and has
\* counted count uses since; nothing happened after it.  What happened before
\* it leaves room for one more in every stretch that reaches into it.
Window(times, start, count, limit, width) ==
  /\ count <= limit
  /\ \A u \in Times : times[u] # 0 => u < start + width
  /\ Between(times, start, start + width) = count
  /\ IF count = 0 THEN start = 0 ELSE start \in Times /\ times[start] # 0
  /\ \A t \in Nat : t < start /\ start < t + width
       => Between(times, t, start) <= limit - 1

\* A window may open now.
Fresh(times, limit, width) ==
  /\ \A u \in Times : times[u] # 0 => u < now
  /\ \A t \in Nat : t < now /\ now < t + width => Between(times, t, now) <= limit - 1

\* Fewer than twice the limit in any stretch as wide as a window.
Paced(times, limit, width) ==
  \A t \in Times : Between(times, t, t + width) <= 2 * limit - 1

LEMMA TimesFacts ==
  /\ Epoch \in Nat /\ Epoch > 0 /\ MaxTime \in Nat /\ Epoch \in Times
  /\ IsFiniteSet(Times)
  /\ \A u \in Times : u \in Nat /\ u >= Epoch /\ u > 0
<1>1. Epoch \in Nat /\ Epoch > 0 /\ MaxTime \in Nat /\ Epoch <= MaxTime
  BY ClockAssumption, RateAssumption
<1>2. IsFiniteSet(Times) BY <1>1, FS_Interval DEF Times
<1> QED BY <1>1, <1>2 DEF Times

LEMMA NextInstant == \A t \in Times : t < MaxTime => t + 1 \in Times
<1> TAKE t \in Times
<1>1. Epoch \in Nat /\ MaxTime \in Nat BY TimesFacts
<1> QED BY <1>1 DEF Times

LEMMA IntervalFacts ==
  ASSUME NEW a, NEW b
  PROVE  IsFiniteSet(Interval(a, b)) /\ Interval(a, b) \subseteq Times
BY TimesFacts, FS_Subset DEF Interval

LEMMA BetweenIsNat ==
  ASSUME NEW times \in [Times -> Nat], NEW a, NEW b
  PROVE  Between(times, a, b) \in Nat
<1>1. \A x \in Interval(a, b) : times[x] \in Nat BY IntervalFacts
<1> QED BY <1>1, IntervalFacts, SumIsNat DEF Between

LEMMA UsedFacts ==
  ASSUME NEW times \in [Times -> Nat], NEW t \in Times
  PROVE  /\ Used(times, t) \in [Times -> Nat]
         /\ Used(times, t)[t] = times[t] + 1 /\ Used(times, t)[t] # 0
         /\ \A u \in Times \ {t} : Used(times, t)[u] = times[u]
         /\ \A u \in Times : times[u] # 0 => Used(times, t)[u] # 0
BY DEF Used

\* What is not in the interval does not count in it.
LEMMA BetweenSame ==
  ASSUME NEW times \in [Times -> Nat], NEW t \in Times, NEW a \in Nat, NEW b \in Nat,
         t < a \/ t >= b
  PROVE  Between(Used(times, t), a, b) = Between(times, a, b)
<1>1. t \in Nat BY TimesFacts
<1>2. \A x \in Interval(a, b) : x # t BY <1>1 DEF Interval
<1>3. \A x \in Interval(a, b) : Used(times, t)[x] = times[x]
  BY <1>2, IntervalFacts, UsedFacts
<1> QED BY <1>3, IntervalFacts, SumSame DEF Between

LEMMA BetweenMore ==
  ASSUME NEW times \in [Times -> Nat], NEW t \in Times, NEW a \in Nat, NEW b \in Nat,
         a <= t, t < b
  PROVE  Between(Used(times, t), a, b) = Between(times, a, b) + 1
<1> DEFINE S == Interval(a, b)
           w == times
           v == Used(times, t)
<1>1. t \in S /\ IsFiniteSet(S) /\ S \subseteq Times BY IntervalFacts DEF Interval
<1>2. /\ \A x \in S : w[x] \in Nat /\ v[x] \in Nat
      /\ \A x \in S \ {t} : w[x] = v[x]
      /\ v[t] = w[t] + 1 /\ w[t] \in Nat
  BY <1>1, UsedFacts
<1>3. SumFunctionOnSet(w, S) \in Nat BY <1>1, <1>2, SumIsNat
<1> HIDE DEF S, w, v
<1>4. SumFunctionOnSet(v, S) = SumFunctionOnSet(w, S) - w[t] + v[t]
  BY <1>1, <1>2, SumChange
<1>5. SumFunctionOnSet(v, S) = SumFunctionOnSet(w, S) + 1 BY <1>2, <1>3, <1>4
<1> QED BY <1>5 DEF Between, S, w, v

LEMMA BetweenNone ==
  ASSUME NEW times \in [Times -> Nat], NEW a, NEW b,
         \A x \in Interval(a, b) : times[x] = 0
  PROVE  Between(times, a, b) = 0
BY IntervalFacts, SumOfZeros DEF Between

LEMMA BetweenCovered ==
  ASSUME NEW times \in [Times -> Nat], NEW a, NEW b, NEW x, NEW y,
         \A u \in Interval(a, b) : times[u] # 0 => u \in Interval(x, y)
  PROVE  Between(times, a, b) <= Between(times, x, y)
<1>1. \A u \in Interval(a, b) \cup Interval(x, y) : times[u] \in Nat BY IntervalFacts
<1> QED BY <1>1, IntervalFacts, SumCovered DEF Between

\* Two intervals, and nothing that counts outside them.
LEMMA BetweenTwo ==
  ASSUME NEW times \in [Times -> Nat], NEW a \in Nat, NEW b \in Nat, NEW c \in Nat,
         NEW d \in Nat, a <= b,
         \A u \in Interval(a, d) : times[u] # 0 => u < c
  PROVE  Between(times, a, d) <= Between(times, a, b) + Between(times, b, c)
<1> DEFINE S == Interval(a, b)
           T == Interval(b, c)
           U == Interval(a, d)
<1>1. IsFiniteSet(S) /\ IsFiniteSet(T) /\ IsFiniteSet(U) BY IntervalFacts
<1>2. S \subseteq Times /\ T \subseteq Times /\ U \subseteq Times BY IntervalFacts
<1>3. \A x \in S \cup T \cup U : times[x] \in Nat BY <1>2
<1>4. S \cap T = {}
  <2>1. ASSUME NEW u \in S \cap T PROVE FALSE
    BY <2>1, TimesFacts DEF Interval
  <2> QED BY <2>1
<1>5. ASSUME NEW u \in U, times[u] # 0 PROVE u \in S \cup T
  <2>1. u \in Times /\ u \in Nat /\ a <= u BY TimesFacts DEF Interval
  <2>2. u < c BY <1>5
  <2> QED BY <2>1, <2>2 DEF Interval
<1> HIDE DEF S, T, U
<1>6. IsFiniteSet(S \cup T) BY <1>1, FS_Union
<1>7. SumFunctionOnSet(times, U) <= SumFunctionOnSet(times, S \cup T)
  BY <1>1, <1>3, <1>5, <1>6, SumCovered
<1>8. SumFunctionOnSet(times, S \cup T)
        = SumFunctionOnSet(times, S) + SumFunctionOnSet(times, T)
  BY <1>1, <1>3, <1>4, SumUnion
<1> QED BY <1>7, <1>8 DEF Between, S, T, U
-----------------------------------------------------------------------------
(* How a window runs out, opens and is used.                                *)

LEMMA WindowRunsOut ==
  ASSUME NEW times \in [Times -> Nat], NEW start \in Nat, NEW count \in Nat,
         NEW limit \in Nat, limit > 0, NEW width \in Nat, now \in Nat,
         Window(times, start, count, limit, width), now >= start + width
  PROVE  Fresh(times, limit, width)
<1>1. \A u \in Times : u \in Nat /\ (times[u] # 0 => u < start + width)
  BY TimesFacts DEF Window
<1>2. \A u \in Times : times[u] # 0 => u < now BY <1>1
<1>3. ASSUME NEW t \in Nat, t < now, now < t + width
      PROVE  Between(times, t, now) <= limit - 1
  <2>1. start < t BY <1>3
  <2>2. \A u \in Interval(t, now) : times[u] # 0 => u \in Interval(start, start + width)
    BY <1>1, <2>1 DEF Interval
  <2>3. Between(times, t, now) \in Nat BY BetweenIsNat
  <2>4. CASE count = 0
    <3>1. Between(times, start, start + width) = 0 BY <2>4 DEF Window
    <3>2. Between(times, t, now) <= Between(times, start, start + width)
      BY <2>2, BetweenCovered
    <3> QED BY <2>3, <3>1, <3>2
  <2>5. CASE count # 0
    <3> DEFINE S == Interval(t, now)
               T == Interval(start, start + width)
               T0 == T \ {start}
    <3>1. start \in Times /\ times[start] # 0 /\ times[start] \in Nat
      BY <2>5 DEF Window
    <3>2. width > 0 BY <1>3
    <3>3. start \in T BY <3>1, <3>2 DEF Interval
    <3>4. /\ IsFiniteSet(S) /\ IsFiniteSet(T) /\ S \subseteq Times /\ T \subseteq Times
      BY IntervalFacts
    <3>5. IsFiniteSet(T0) BY <3>4, FS_Subset
    <3>6. \A u \in S : times[u] # 0 => u \in T0
      <4>1. \A u \in S : u # start BY <2>1 DEF Interval
      <4> QED BY <2>2, <4>1
    <3>7. \A x \in S \cup T0 : times[x] \in Nat BY <3>4
    <3>8. SumFunctionOnSet(times, S) <= SumFunctionOnSet(times, T0)
      <4> HIDE DEF S, T0
      <4> QED BY <3>4, <3>5, <3>6, <3>7, SumCovered
    <3>9. SumFunctionOnSet(times, T) = times[start] + SumFunctionOnSet(times, T0)
      <4>1. \A x \in T : times[x] \in Nat BY <3>4
      <4> HIDE DEF T
      <4> QED BY <3>3, <3>4, <4>1, SumSplit
    <3>10. SumFunctionOnSet(times, T) = count /\ count <= limit BY DEF Window, Between
    <3>11. SumFunctionOnSet(times, T0) \in Nat
      <4>1. \A x \in T0 : times[x] \in Nat BY <3>4
      <4> HIDE DEF T0
      <4> QED BY <3>5, <4>1, SumIsNat
    <3>12. Between(times, t, now) = SumFunctionOnSet(times, S) BY DEF Between
    <3> HIDE DEF S, T, T0
    <3> QED BY <2>3, <3>1, <3>8, <3>9, <3>10, <3>11, <3>12
  <2> QED BY <2>4, <2>5
<1> QED BY <1>2, <1>3 DEF Fresh

\* After a rest as long as a window.
LEMMA RestedIsFresh ==
  ASSUME NEW times \in [Times -> Nat], NEW limit \in Nat, limit > 0,
         NEW width \in Nat, width > 0, now \in Nat,
         \A u \in Times : times[u] # 0 => u + width <= now
  PROVE  Fresh(times, limit, width)
<1>1. \A u \in Times : u \in Nat BY TimesFacts
<1>2. \A u \in Times : times[u] # 0 => u < now BY <1>1
<1>3. ASSUME NEW t \in Nat, t < now, now < t + width
      PROVE  Between(times, t, now) <= limit - 1
  <2>1. \A u \in Interval(t, now) : times[u] = 0 BY <1>1, <1>3 DEF Interval
  <2>2. Between(times, t, now) = 0 BY <2>1, BetweenNone
  <2> QED BY <2>2
<1> QED BY <1>2, <1>3 DEF Fresh

LEMMA FirstUse ==
  ASSUME NEW times \in [Times -> Nat], now \in Times,
         NEW limit \in Nat, limit > 0, NEW width \in Nat, width > 0,
         Fresh(times, limit, width)
  PROVE  Window(Used(times, now), now, 1, limit, width)
<1>0. now \in Nat BY TimesFacts
<1>1. ASSUME NEW u \in Times, Used(times, now)[u] # 0 PROVE u < now + width
  <2>1. u \in Nat BY TimesFacts
  <2>2. CASE u = now BY <1>0, <2>2
  <2>3. CASE u # now
    <3>1. times[u] # 0 BY <1>1, <2>3, UsedFacts
    <3> QED BY <1>0, <2>1, <3>1 DEF Fresh
  <2> QED BY <2>2, <2>3
<1>2. Between(Used(times, now), now, now + width) = 1
  <2>1. \A u \in Interval(now, now + width) : times[u] = 0
    BY <1>0, TimesFacts DEF Interval, Fresh
  <2>2. Between(times, now, now + width) = 0 BY <2>1, BetweenNone
  <2>3. Between(Used(times, now), now, now + width)
          = Between(times, now, now + width) + 1
    BY <1>0, BetweenMore
  <2> QED BY <2>2, <2>3
<1>3. Used(times, now)[now] # 0 BY UsedFacts
<1>4. ASSUME NEW t \in Nat, t < now, now < t + width
      PROVE  Between(Used(times, now), t, now) <= limit - 1
  <2>1. Between(Used(times, now), t, now) = Between(times, t, now)
    BY <1>0, BetweenSame
  <2> QED BY <1>4, <2>1 DEF Fresh
<1> QED BY <1>1, <1>2, <1>3, <1>4 DEF Window

LEMMA NextUse ==
  ASSUME NEW times \in [Times -> Nat], now \in Times,
         NEW start \in Nat, NEW count \in Nat, count # 0,
         NEW limit \in Nat, NEW width \in Nat,
         Window(times, start, count, limit, width),
         count < limit, start <= now, now < start + width
  PROVE  Window(Used(times, now), start, count + 1, limit, width)
<1>0. now \in Nat BY TimesFacts
<1>1. ASSUME NEW u \in Times, Used(times, now)[u] # 0 PROVE u < start + width
  <2>1. CASE u = now BY <2>1
  <2>2. CASE u # now
    <3>1. times[u] # 0 BY <1>1, <2>2, UsedFacts
    <3> QED BY <3>1 DEF Window
  <2> QED BY <2>1, <2>2
<1>2. Between(Used(times, now), start, start + width) = count + 1
  <2>1. Between(times, start, start + width) = count BY DEF Window
  <2>2. start + width \in Nat OBVIOUS
  <2>3. Between(Used(times, now), start, start + width)
          = Between(times, start, start + width) + 1
    BY <1>0, <2>2, BetweenMore
  <2> QED BY <2>1, <2>3
<1>3. start \in Times /\ Used(times, now)[start] # 0 BY UsedFacts DEF Window
<1>4. ASSUME NEW t \in Nat, t < start, start < t + width
      PROVE  Between(Used(times, now), t, start) <= limit - 1
  <2>1. Between(Used(times, now), t, start) = Between(times, t, start)
    BY <1>0, BetweenSame
  <2> QED BY <1>4, <2>1 DEF Window
<1>5. count + 1 <= limit /\ count + 1 # 0 OBVIOUS
<1> QED BY <1>1, <1>2, <1>3, <1>4, <1>5 DEF Window

\* A use that a window counts keeps every stretch within the bound: the part of
\* it before the window has room for one more, the rest is in the window.
LEMMA UseIsPaced ==
  ASSUME NEW times \in [Times -> Nat], now \in Times,
         NEW start \in Nat, NEW count \in Nat,
         NEW limit \in Nat, limit > 0, NEW width \in Nat,
         Paced(times, limit, width), start <= now,
         Window(Used(times, now), start, count, limit, width)
  PROVE  Paced(Used(times, now), limit, width)
<1> DEFINE v == Used(times, now)
<1>0. now \in Nat BY TimesFacts
<1>1. v \in [Times -> Nat] BY UsedFacts
<1> SUFFICES ASSUME NEW t \in Times
             PROVE  Between(v, t, t + width) <= 2 * limit - 1
  BY DEF Paced
<1>2. t \in Nat /\ t + width \in Nat /\ start + width \in Nat BY TimesFacts
<1>3. Between(v, t, t + width) \in Nat BY <1>1, BetweenIsNat
<1>4. Between(v, start, start + width) = count /\ count <= limit BY DEF Window
<1>5. \A u \in Times : u \in Nat /\ (v[u] # 0 => u < start + width)
  BY TimesFacts DEF Window
<1>6. CASE now < t \/ now >= t + width
  <2>1. Between(v, t, t + width) = Between(times, t, t + width)
    BY <1>2, <1>6, BetweenSame
  <2> QED BY <2>1 DEF Paced
<1>7. CASE t <= now /\ now < t + width /\ start <= t
  <2>1. \A u \in Interval(t, t + width) : v[u] # 0 => u \in Interval(start, start + width)
    BY <1>2, <1>5, <1>7 DEF Interval
  <2>2. Between(v, t, t + width) <= Between(v, start, start + width)
    <3> HIDE DEF v
    <3> QED BY <1>1, <2>1, BetweenCovered
  <2> HIDE DEF v
  <2> QED BY <1>3, <1>4, <2>2
<1>8. CASE t <= now /\ now < t + width /\ t < start
  <2>1. start < t + width BY <1>0, <1>2, <1>8
  <2>2. Between(v, t, start) <= limit - 1 BY <1>2, <1>8, <2>1 DEF Window
  <2>3. \A u \in Interval(t, t + width) : v[u] # 0 => u < start + width
    BY <1>5 DEF Interval
  <2>4. Between(v, t, start) \in Nat /\ Between(v, start, start + width) \in Nat
    BY <1>1, BetweenIsNat
  <2> HIDE DEF v
  <2>5. Between(v, t, t + width)
          <= Between(v, t, start) + Between(v, start, start + width)
    BY <1>1, <1>2, <1>8, <2>3, BetweenTwo
  <2> QED BY <1>3, <1>4, <2>2, <2>4, <2>5
<1> QED BY <1>0, <1>2, <1>6, <1>7, <1>8

\* One more use, by a window that is rolled when it has run out.
LEMMA UseIsCounted ==
  ASSUME NEW times \in [Times -> Nat], now \in Times,
         NEW limit \in Nat, limit > 0, NEW width \in Nat, width > 0, width <= Epoch,
         NEW start \in Nat, NEW count \in Nat, start <= now,
         \/ Window(times, start, count, limit, width)
         \/ start = 0 /\ Fresh(times, limit, width),
         NEW start2, NEW count2,
         IF now - start >= width THEN start2 = now /\ count2 = 0
                                 ELSE start2 = start /\ count2 = count,
         count2 < limit, Paced(times, limit, width)
  PROVE  /\ start2 <= now
         /\ Window(Used(times, now), start2, count2 + 1, limit, width)
         /\ Paced(Used(times, now), limit, width)
<1>0. now \in Nat /\ now >= Epoch /\ Epoch \in Nat BY TimesFacts
<1>1. start2 \in Nat /\ count2 + 1 \in Nat /\ start2 <= now BY <1>0
<1>2. Window(Used(times, now), start2, count2 + 1, limit, width)
  <2>1. CASE now - start >= width
    <3>1. Fresh(times, limit, width)
      <4>1. now >= start + width BY <1>0, <2>1
      <4>2. CASE Window(times, start, count, limit, width)
        BY <1>0, <4>1, <4>2, WindowRunsOut
      <4> QED BY <4>2
    <3>2. Window(Used(times, now), now, 1, limit, width) BY <3>1, FirstUse
    <3>3. start2 = now /\ count2 + 1 = 1 BY <2>1
    <3> QED BY <3>2, <3>3
  <2>2. CASE ~ (now - start >= width)
    <3>1. start2 = start /\ count2 = count BY <2>2
    <3>2. start # 0 BY <1>0, <2>2
    <3>3. Window(times, start, count, limit, width) BY <3>2
    <3>4. count # 0 BY <3>2, <3>3 DEF Window
    <3>5. now < start + width BY <1>0, <2>2
    <3>6. count < limit BY <3>1
    <3> QED BY <3>1, <3>3, <3>4, <3>5, <3>6, NextUse
  <2> QED BY <2>1, <2>2
<1> QED BY <1>1, <1>2, UseIsPaced

\* Uses a cooldown apart.
Apart(times) ==
  \A t \in Times : times[t] # 0 => Between(times, t, t + StampCooldownSeconds) <= 1

LEMMA UseIsApart ==
  ASSUME NEW times \in [Times -> Nat], now \in Times, Apart(times),
         \A u \in Times : times[u] # 0 => u + StampCooldownSeconds <= now
  PROVE  Apart(Used(times, now))
<1> DEFINE cd == StampCooldownSeconds
<1>0. now \in Nat /\ cd \in Nat /\ \A u \in Times : u \in Nat
  BY TimesFacts, LimitsAssumption
<1> SUFFICES ASSUME NEW t \in Times, Used(times, now)[t] # 0
             PROVE  Between(Used(times, now), t, t + cd) <= 1
  BY DEF Apart
<1>1. t \in Nat /\ t + cd \in Nat BY <1>0
<1>2. CASE t # now
  <2>1. times[t] # 0 BY <1>2, UsedFacts
  <2>2. t + cd <= now BY <2>1
  <2>3. Between(Used(times, now), t, t + cd) = Between(times, t, t + cd)
    BY <1>0, <1>1, <2>2, BetweenSame
  <2> QED BY <2>1, <2>3 DEF Apart
<1>3. CASE t = now /\ cd = 0
  <2>1. Interval(t, t + cd) = {}
    <3> SUFFICES ASSUME NEW u \in Interval(t, t + cd) PROVE FALSE
      OBVIOUS
    <3>1. u \in Nat /\ t <= u /\ u < t + cd BY <1>0 DEF Interval
    <3> QED BY <1>1, <1>3, <3>1
  <2>2. Between(Used(times, now), t, t + cd) = 0 BY <2>1, SumOfNone DEF Between
  <2> QED BY <2>2
<1>4. CASE t = now /\ cd # 0
  <2>1. \A u \in Interval(now, now + cd) : times[u] = 0
    <3>1. ASSUME NEW u \in Interval(now, now + cd), times[u] # 0 PROVE FALSE
      <4>1. u \in Times /\ u \in Nat /\ now <= u BY <1>0 DEF Interval
      <4>2. u + cd <= now BY <3>1, <4>1
      <4> QED BY <1>0, <1>4, <4>1, <4>2
    <3> QED BY <3>1
  <2>2. Between(times, now, now + cd) = 0 BY <2>1, BetweenNone
  <2>3. Between(Used(times, now), now, now + cd) = Between(times, now, now + cd) + 1
    BY <1>0, <1>4, BetweenMore
  <2> QED BY <1>4, <2>2, <2>3
<1> QED BY <1>2, <1>3, <1>4
-----------------------------------------------------------------------------
(* The windows the program keeps.                                           *)

\* A shop's window counts what it issued; one that has closed is forgotten.
ShopPaced(b, times, t) ==
  /\ Paced(times, MaxReceiptsPerHour, HourSeconds)
  /\ IF b = NoAccount THEN times = Never
     ELSE /\ b.receipts_window_start <= t
          /\ Window(times, b.receipts_window_start, b.receipts_this_window,
                    MaxReceiptsPerHour, HourSeconds)

\* A card's window counts what its customer claimed, on this card and on those
\* before it.  When a card is gone, nothing was claimed for as long as it takes
\* a card to die.
CardPaced(k, times, t) ==
  /\ Paced(times, MaxClaimsPerCardPerDay, DaySeconds)
  /\ Apart(times)
  /\ IF k = NoAccount
     THEN \A u \in Times : times[u] # 0 => u + CardDeadSeconds <= t
     ELSE /\ k.claims_window_start <= t
          /\ \A u \in Times : times[u] # 0 => u <= k.last_stamp_ts
          /\ Window(times, k.claims_window_start, k.claims_this_window,
                    MaxClaimsPerCardPerDay, DaySeconds)

RateTypeOK ==
  /\ TypeOK
  /\ now \in Times
  /\ issued \in [Merchants -> [Times -> Nat]]
  /\ claimed \in [Merchants -> [Customers -> [Times -> Nat]]]

RateInv ==
  /\ RateTypeOK
  /\ \A m \in Merchants : ShopPaced(shop[m], issued[m], now)
  /\ \A m \in Merchants, c \in Customers : CardPaced(card[m][c], claimed[m][c], now)

\* Between is what the properties call Within.
LEMMA InvIsEnough == RateInv => HourlyIssueBounded /\ ClaimsPaced
<1> SUFFICES ASSUME RateInv PROVE HourlyIssueBounded /\ ClaimsPaced
  OBVIOUS
<1>1. \A times, t, seconds : Within(times, t, seconds) = Between(times, t, t + seconds)
  BY DEF Within, Between, Interval
<1>2. HourlyIssueBounded BY <1>1 DEF RateInv, ShopPaced, Paced, HourlyIssueBounded
<1>3. ASSUME NEW m \in Merchants, NEW c \in Customers, NEW t \in Times
      PROVE  /\ Within(claimed[m][c], t, DaySeconds) <= 2 * MaxClaimsPerCardPerDay - 1
             /\ claimed[m][c][t] > 0
                  => Within(claimed[m][c], t, StampCooldownSeconds) <= 1
  <2>1. Paced(claimed[m][c], MaxClaimsPerCardPerDay, DaySeconds) /\ Apart(claimed[m][c])
    BY DEF RateInv, CardPaced
  <2>2. claimed[m][c][t] > 0 => claimed[m][c][t] # 0 OBVIOUS
  <2> QED BY <1>1, <2>1, <2>2 DEF Paced, Apart
<1> QED BY <1>2, <1>3 DEF ClaimsPaced
-----------------------------------------------------------------------------
(* What each handler does to the windows.                                   *)

SameShopWindow(b, bb) ==
  /\ bb.receipts_window_start = b.receipts_window_start
  /\ bb.receipts_this_window = b.receipts_this_window

SameCardWindow(k, kk) ==
  /\ kk.claims_window_start = k.claims_window_start
  /\ kk.claims_this_window = k.claims_this_window
  /\ kk.last_stamp_ts = k.last_stamp_ts

LEMMA ShopWindowKept ==
  ASSUME NEW b \in Business
  PROVE  /\ \A lock, stamps, ttl :
              SameShopWindow(b, [b EXCEPT !.terms_locked_until = lock,
                                          !.stamps_required = stamps,
                                          !.receipt_ttl_seconds = ttl])
         /\ \A opening \in BOOLEAN : SameShopWindow(b, CountStamp(b, opening))
         /\ SameShopWindow(b, CountMinted(b))
         /\ SameShopWindow(b, CountClosedCard(b))
         /\ SameShopWindow(b, CountRedeemed(b))
         /\ SameShopWindow(b, CountClosedVoucher(b))
<1>0. \A lock, stamps, ttl :
        SameShopWindow(b, [b EXCEPT !.terms_locked_until = lock,
                                    !.stamps_required = stamps,
                                    !.receipt_ttl_seconds = ttl])
  BY DEF SameShopWindow, Business
<1>1. \A opening \in BOOLEAN : SameShopWindow(b, CountStamp(b, opening))
  BY DEF CountStamp, SameShopWindow, Business
<1>2. SameShopWindow(b, CountMinted(b)) BY DEF CountMinted, SameShopWindow, Business
<1>3. SameShopWindow(b, CountClosedCard(b))
  BY DEF CountClosedCard, SameShopWindow, Business
<1>4. SameShopWindow(b, CountClosedVoucher(b))
  BY DEF CountClosedVoucher, SameShopWindow, Business
<1>5. SameShopWindow(b, CountRedeemed(b))
  BY <1>4 DEF CountRedeemed, CountClosedVoucher, SameShopWindow, Business
<1> QED BY <1>0, <1>1, <1>2, <1>3, <1>4, <1>5

LEMMA CardWindowKept ==
  ASSUME NEW k \in LoyaltyCard
  PROVE  /\ \A amount \in Nat : /\ SameCardWindow(k, Passed(k, amount))
                                /\ SameCardWindow(k, Received(k, amount))
         /\ \A b \in Business, burned \in BOOLEAN : SameCardWindow(k, CashedIn(k, b, burned))
         /\ SameCardWindow(k, [k EXCEPT !.nft_cycle = @ + 1])
<1>1. \A amount \in Nat : /\ SameCardWindow(k, Passed(k, amount))
                          /\ SameCardWindow(k, Received(k, amount))
  BY DEF Passed, Received, SameCardWindow, LoyaltyCard
<1>2. \A b \in Business, burned \in BOOLEAN : SameCardWindow(k, CashedIn(k, b, burned))
  BY DEF CashedIn, SameCardWindow, LoyaltyCard
<1>3. SameCardWindow(k, [k EXCEPT !.nft_cycle = @ + 1])
  BY DEF SameCardWindow, LoyaltyCard
<1> QED BY <1>1, <1>2, <1>3

LEMMA HourRolls ==
  ASSUME NEW b \in Business, now \in Nat
  PROVE  LET h == HourlyWindow(b)
             bb == [h EXCEPT !.receipts_this_window = @ + 1] IN
         /\ bb.receipts_window_start = h.receipts_window_start
         /\ bb.receipts_this_window = h.receipts_this_window + 1
         /\ IF now - b.receipts_window_start >= HourSeconds
            THEN h.receipts_window_start = now /\ h.receipts_this_window = 0
            ELSE /\ h.receipts_window_start = b.receipts_window_start
                 /\ h.receipts_this_window = b.receipts_this_window
<1> DEFINE h == HourlyWindow(b)
<1>1. h \in Business BY HourlyWindowType
<1>2. IF now - b.receipts_window_start >= HourSeconds
      THEN h.receipts_window_start = now /\ h.receipts_this_window = 0
      ELSE /\ h.receipts_window_start = b.receipts_window_start
           /\ h.receipts_this_window = b.receipts_this_window
  BY DEF HourlyWindow, Business
<1> HIDE DEF h
<1> DEFINE bb == [h EXCEPT !.receipts_this_window = @ + 1]
<1>3. /\ bb.receipts_window_start = h.receipts_window_start
      /\ bb.receipts_this_window = h.receipts_this_window + 1
  BY <1>1 DEF Business
<1> QED BY <1>2, <1>3 DEF h

LEMMA DayRolls ==
  ASSUME NEW k \in LoyaltyCard, now \in Nat
  PROVE  LET d == DailyWindow(k)
             kk == Stamped(d) IN
         /\ kk.claims_window_start = d.claims_window_start
         /\ kk.claims_this_window = d.claims_this_window + 1
         /\ kk.last_stamp_ts = now
         /\ d.last_stamp_ts = k.last_stamp_ts
         /\ IF now - k.claims_window_start >= DaySeconds
            THEN d.claims_window_start = now /\ d.claims_this_window = 0
            ELSE /\ d.claims_window_start = k.claims_window_start
                 /\ d.claims_this_window = k.claims_this_window
<1> DEFINE d == DailyWindow(k)
<1>1. d \in LoyaltyCard BY DailyWindowType
<1>2. /\ d.last_stamp_ts = k.last_stamp_ts
      /\ IF now - k.claims_window_start >= DaySeconds
         THEN d.claims_window_start = now /\ d.claims_this_window = 0
         ELSE /\ d.claims_window_start = k.claims_window_start
              /\ d.claims_this_window = k.claims_this_window
  BY DEF DailyWindow, LoyaltyCard
<1> HIDE DEF d
<1>3. /\ Stamped(d).claims_window_start = d.claims_window_start
      /\ Stamped(d).claims_this_window = d.claims_this_window + 1
      /\ Stamped(d).last_stamp_ts = now
  BY <1>1 DEF Stamped, LoyaltyCard
<1> QED BY <1>2, <1>3 DEF d
-----------------------------------------------------------------------------
(* One shop, or one card, through one step.                                 *)

LEMMA QuietShop ==
  ASSUME NEW b \in Business \cup {NoAccount}, NEW bb, NEW times, NEW t \in Nat, NEW t2 \in Nat,
         t <= t2, ShopPaced(b, times, t),
         IF b = NoAccount THEN bb = NoAccount ELSE bb # NoAccount /\ SameShopWindow(b, bb)
  PROVE  ShopPaced(bb, times, t2)
<1>1. CASE b = NoAccount BY <1>1 DEF ShopPaced
<1>2. CASE b # NoAccount
  <2>1. b.receipts_window_start \in Nat BY <1>2 DEF Business
  <2> QED BY <1>2, <2>1 DEF ShopPaced, SameShopWindow
<1> QED BY <1>1, <1>2

LEMMA QuietCard ==
  ASSUME NEW k \in LoyaltyCard \cup {NoAccount}, NEW kk, NEW times,
         NEW t \in Nat, NEW t2 \in Nat, t <= t2, CardPaced(k, times, t),
         IF k = NoAccount THEN kk = NoAccount ELSE kk # NoAccount /\ SameCardWindow(k, kk)
  PROVE  CardPaced(kk, times, t2)
<1>1. CASE k = NoAccount
  <2>1. kk = NoAccount BY <1>1
  <2>2. ASSUME NEW u \in Times, times[u] # 0 PROVE u + CardDeadSeconds <= t2
    <3>1. u + CardDeadSeconds <= t BY <1>1, <2>2 DEF CardPaced
    <3>2. u + CardDeadSeconds \in Nat BY TimesFacts, LimitsAssumption
    <3> QED BY <3>1, <3>2
  <2> QED BY <2>1, <2>2 DEF CardPaced
<1>2. CASE k # NoAccount
  <2>1. k.claims_window_start \in Nat BY <1>2 DEF LoyaltyCard
  <2> QED BY <1>2, <2>1 DEF CardPaced, SameCardWindow
<1> QED BY <1>1, <1>2

LEMMA NothingIsPaced ==
  /\ \A a, b : Between(Never, a, b) = 0
  /\ \A limit \in Nat \ {0}, width \in Nat :
       Paced(Never, limit, width) /\ Window(Never, 0, 0, limit, width)
  /\ Apart(Never)
  /\ Never \in [Times -> Nat]
<1>1. Never \in [Times -> Nat] /\ \A u \in Times : Never[u] = 0 BY DEF Never
<1>2. \A a, b : Between(Never, a, b) = 0
  <2> TAKE a, b
  <2>1. \A x \in Interval(a, b) : Never[x] = 0 BY <1>1, IntervalFacts
  <2> HIDE DEF Never
  <2> QED BY <1>1, <2>1, BetweenNone
<1> HIDE DEF Never
<1>3. ASSUME NEW limit \in Nat \ {0}, NEW width \in Nat
      PROVE  Paced(Never, limit, width) /\ Window(Never, 0, 0, limit, width)
  <2>1. Paced(Never, limit, width) BY <1>2 DEF Paced
  <2>2. \A t \in Nat : ~ (t < 0) OBVIOUS
  <2> QED BY <1>1, <1>2, <2>1, <2>2 DEF Window
<1>4. Apart(Never) BY <1>1 DEF Apart
<1> QED BY <1>1, <1>2, <1>3, <1>4

LEMMA LimitsMean ==
  /\ HourSeconds \in Nat /\ HourSeconds > 0 /\ HourSeconds <= Epoch
  /\ DaySeconds \in Nat /\ DaySeconds > 0 /\ DaySeconds <= Epoch
  /\ MaxReceiptsPerHour \in Nat /\ MaxReceiptsPerHour > 0
  /\ MaxClaimsPerCardPerDay \in Nat /\ MaxClaimsPerCardPerDay > 0
  /\ CardDeadSeconds \in Nat /\ StampCooldownSeconds \in Nat
BY RateAssumption, ClockAssumption, LimitsAssumption

LEMMA ClosedShopPaced == \A t : ShopPaced(NoAccount, Never, t)
BY NothingIsPaced, LimitsMean DEF ShopPaced

LEMMA NewShopPaced ==
  ASSUME NEW b \in Business, b.receipts_window_start = 0, b.receipts_this_window = 0,
         NEW times, NEW t \in Nat, ShopPaced(NoAccount, times, t)
  PROVE  ShopPaced(b, times, t)
<1>1. times = Never BY DEF ShopPaced
<1>2. b # NoAccount BY NoAccountAssumption
<1>3. Window(Never, 0, 0, MaxReceiptsPerHour, HourSeconds) BY NothingIsPaced, LimitsMean
<1> HIDE DEF Never
<1> QED BY <1>1, <1>2, <1>3 DEF ShopPaced

LEMMA IssueIsPaced ==
  ASSUME NEW b \in Business, NEW times \in [Times -> Nat], now \in Times,
         ShopPaced(b, times, now),
         HourlyWindow(b).receipts_this_window < MaxReceiptsPerHour
  PROVE  ShopPaced([HourlyWindow(b) EXCEPT !.receipts_this_window = @ + 1],
                   Used(times, now), now)
<1>0. now \in Nat BY TimesFacts
<1> DEFINE h == HourlyWindow(b)
           bb == [h EXCEPT !.receipts_this_window = @ + 1]
<1>1. /\ bb.receipts_window_start = h.receipts_window_start
      /\ bb.receipts_this_window = h.receipts_this_window + 1
      /\ IF now - b.receipts_window_start >= HourSeconds
         THEN h.receipts_window_start = now /\ h.receipts_this_window = 0
         ELSE /\ h.receipts_window_start = b.receipts_window_start
              /\ h.receipts_this_window = b.receipts_this_window
  BY <1>0, HourRolls
<1>2. bb \in Business BY <1>0, HourlyWindowType
<1>3. b # NoAccount /\ bb # NoAccount BY <1>2, NoAccountAssumption
<1>4. b.receipts_window_start \in Nat /\ b.receipts_this_window \in Nat BY DEF Business
<1>5. /\ b.receipts_window_start <= now
      /\ Window(times, b.receipts_window_start, b.receipts_this_window,
                MaxReceiptsPerHour, HourSeconds)
      /\ Paced(times, MaxReceiptsPerHour, HourSeconds)
  BY <1>3 DEF ShopPaced
<1>6. h.receipts_this_window < MaxReceiptsPerHour OBVIOUS
<1> HIDE DEF h, bb
<1>7. /\ h.receipts_window_start <= now
      /\ Window(Used(times, now), h.receipts_window_start, h.receipts_this_window + 1,
                MaxReceiptsPerHour, HourSeconds)
      /\ Paced(Used(times, now), MaxReceiptsPerHour, HourSeconds)
  BY <1>1, <1>4, <1>5, <1>6, LimitsMean, UseIsCounted
<1>8. ShopPaced(bb, Used(times, now), now) BY <1>1, <1>3, <1>7 DEF ShopPaced
<1> QED BY <1>8 DEF bb, h

\* The card a claim stamps, k or a new one, after the claim.
LEMMA ClaimIsPaced ==
  ASSUME NEW k \in LoyaltyCard \cup {NoAccount}, NEW kk \in LoyaltyCard,
         IF k = NoAccount THEN kk.claims_window_start = 0 ELSE kk = k,
         NEW times \in [Times -> Nat], now \in Times, CardPaced(k, times, now),
         Cooled(DailyWindow(kk)),
         DailyWindow(kk).claims_this_window < MaxClaimsPerCardPerDay,
         Stamped(DailyWindow(kk)) \in LoyaltyCard
  PROVE  CardPaced(Stamped(DailyWindow(kk)), Used(times, now), now)
<1>0. now \in Nat /\ \A u \in Times : u \in Nat /\ u > 0 BY TimesFacts
<1> DEFINE d == DailyWindow(kk)
           s == Stamped(d)
<1>1. /\ s.claims_window_start = d.claims_window_start
      /\ s.claims_this_window = d.claims_this_window + 1
      /\ s.last_stamp_ts = now
      /\ d.last_stamp_ts = kk.last_stamp_ts
      /\ IF now - kk.claims_window_start >= DaySeconds
         THEN d.claims_window_start = now /\ d.claims_this_window = 0
         ELSE /\ d.claims_window_start = kk.claims_window_start
              /\ d.claims_this_window = kk.claims_this_window
  BY <1>0, DayRolls
<1>2. s # NoAccount BY NoAccountAssumption
<1>3. /\ kk.claims_window_start \in Nat /\ kk.claims_this_window \in Nat
      /\ kk.last_stamp_ts \in Nat
  BY DEF LoyaltyCard
<1>4. d.last_stamp_ts # 0 => now - d.last_stamp_ts >= StampCooldownSeconds BY DEF Cooled
<1>5. d.claims_this_window < MaxClaimsPerCardPerDay OBVIOUS
<1> HIDE DEF d, s
<1>6. Paced(times, MaxClaimsPerCardPerDay, DaySeconds) /\ Apart(times) BY DEF CardPaced
<1>7. /\ kk.claims_window_start <= now
      /\ \/ Window(times, kk.claims_window_start, kk.claims_this_window,
                   MaxClaimsPerCardPerDay, DaySeconds)
         \/ /\ kk.claims_window_start = 0
            /\ Fresh(times, MaxClaimsPerCardPerDay, DaySeconds)
      /\ \A u \in Times : times[u] # 0 => u + StampCooldownSeconds <= now
  <2>1. CASE k = NoAccount
    <3>1. kk.claims_window_start = 0 BY <2>1
    <3>2. \A u \in Times : times[u] # 0 => u + CardDeadSeconds <= now
      BY <2>1 DEF CardPaced
    <3>3. \A u \in Times : times[u] # 0
            => u + DaySeconds <= now /\ u + StampCooldownSeconds <= now
      BY <1>0, <3>2, LimitsMean, RateAssumption
    <3>4. Fresh(times, MaxClaimsPerCardPerDay, DaySeconds)
      BY <1>0, <3>3, LimitsMean, RestedIsFresh
    <3> QED BY <1>0, <3>1, <3>3, <3>4
  <2>2. CASE k # NoAccount
    <3>1. kk = k BY <2>2
    <3>2. /\ kk.claims_window_start <= now
          /\ \A u \in Times : times[u] # 0 => u <= kk.last_stamp_ts
          /\ Window(times, kk.claims_window_start, kk.claims_this_window,
                    MaxClaimsPerCardPerDay, DaySeconds)
      BY <2>2, <3>1 DEF CardPaced
    <3>3. ASSUME NEW u \in Times, times[u] # 0 PROVE u + StampCooldownSeconds <= now
      <4>1. u \in Nat /\ u > 0 /\ u <= kk.last_stamp_ts BY <1>0, <3>2, <3>3
      <4>2. now - kk.last_stamp_ts >= StampCooldownSeconds BY <1>1, <1>3, <1>4, <4>1
      <4> QED BY <1>0, <1>3, <4>1, <4>2, LimitsMean
    <3> QED BY <3>2, <3>3
  <2> QED BY <2>1, <2>2
<1>8. /\ d.claims_window_start <= now
      /\ Window(Used(times, now), d.claims_window_start, d.claims_this_window + 1,
                MaxClaimsPerCardPerDay, DaySeconds)
      /\ Paced(Used(times, now), MaxClaimsPerCardPerDay, DaySeconds)
  BY <1>1, <1>3, <1>5, <1>6, <1>7, LimitsMean, UseIsCounted
<1>9. Apart(Used(times, now)) BY <1>6, <1>7, UseIsApart
<1>10. ASSUME NEW u \in Times, Used(times, now)[u] # 0 PROVE u <= s.last_stamp_ts
  <2>1. CASE u = now BY <1>0, <1>1, <2>1
  <2>2. CASE u # now
    <3>1. times[u] # 0 BY <1>10, <2>2, UsedFacts
    <3>2. u + StampCooldownSeconds <= now BY <1>7, <3>1
    <3> QED BY <1>0, <1>1, <3>2, LimitsMean
  <2> QED BY <2>1, <2>2
<1>11. CardPaced(s, Used(times, now), now)
  BY <1>1, <1>2, <1>8, <1>9, <1>10 DEF CardPaced
<1> QED BY <1>11 DEF s, d

LEMMA DeadCardPaced ==
  ASSUME NEW k \in LoyaltyCard, NEW times, now \in Nat, CardPaced(k, times, now),
         now - k.last_stamp_ts >= CardDeadSeconds
  PROVE  CardPaced(NoAccount, times, now)
<1>1. k # NoAccount BY NoAccountAssumption
<1>2. ASSUME NEW u \in Times, times[u] # 0 PROVE u + CardDeadSeconds <= now
  <2>1. u <= k.last_stamp_ts BY <1>1, <1>2 DEF CardPaced
  <2>2. u \in Nat /\ k.last_stamp_ts \in Nat BY TimesFacts DEF LoyaltyCard
  <2> QED BY <2>1, <2>2, LimitsMean
<1> QED BY <1>2 DEF CardPaced
-----------------------------------------------------------------------------
(* All of them through one step.                                            *)

ShopsPaced == \A m \in Merchants : ShopPaced(shop[m], issued[m], now)
CardsPaced ==
  \A m \in Merchants, c \in Customers : CardPaced(card[m][c], claimed[m][c], now)

LEMMA InvParts == RateInv <=> RateTypeOK /\ ShopsPaced /\ CardsPaced
BY DEF RateInv, ShopsPaced, CardsPaced

LEMMA SameShopsPaced ==
  ASSUME RateInv, now' \in Nat, now <= now', shop' = shop, issued' = issued
  PROVE  ShopsPaced'
<1>1. now \in Nat /\ now' \in Nat BY DEF RateInv, RateTypeOK, TypeOK
<1>2. ASSUME NEW m \in Merchants PROVE ShopPaced(shop'[m], issued'[m], now')
  <2>1. shop[m] \in Business \cup {NoAccount} BY DEF RateInv, RateTypeOK, TypeOK
  <2>2. ShopPaced(shop[m], issued[m], now) BY DEF RateInv
  <2>3. IF shop[m] = NoAccount THEN shop[m] = NoAccount
        ELSE shop[m] # NoAccount /\ SameShopWindow(shop[m], shop[m])
    BY DEF SameShopWindow
  <2>4. ShopPaced(shop[m], issued[m], now') BY <1>1, <2>1, <2>2, <2>3, QuietShop
  <2> QED BY <2>4
<1> QED BY <1>2 DEF ShopsPaced

LEMMA SameCardsPaced ==
  ASSUME RateInv, now' \in Nat, now <= now', card' = card, claimed' = claimed
  PROVE  CardsPaced'
<1>1. now \in Nat /\ now' \in Nat BY DEF RateInv, RateTypeOK, TypeOK
<1>2. ASSUME NEW m \in Merchants, NEW c \in Customers
      PROVE  CardPaced(card'[m][c], claimed'[m][c], now')
  <2>1. card[m][c] \in LoyaltyCard \cup {NoAccount} BY DEF RateInv, RateTypeOK, TypeOK
  <2>2. CardPaced(card[m][c], claimed[m][c], now) BY DEF RateInv
  <2>3. IF card[m][c] = NoAccount THEN card[m][c] = NoAccount
        ELSE card[m][c] # NoAccount /\ SameCardWindow(card[m][c], card[m][c])
    BY DEF SameCardWindow
  <2>4. CardPaced(card[m][c], claimed[m][c], now') BY <1>1, <2>1, <2>2, <2>3, QuietCard
  <2> QED BY <2>4
<1> QED BY <1>2 DEF CardsPaced

LEMMA OneShopPaced ==
  ASSUME RateInv, now' = now, NEW m \in Merchants, NEW b, NEW times,
         shop' = [shop EXCEPT ![m] = b], issued' = [issued EXCEPT ![m] = times],
         ShopPaced(b, times, now)
  PROVE  ShopsPaced'
<1>1. ASSUME NEW x \in Merchants PROVE ShopPaced(shop'[x], issued'[x], now')
  <2>1. CASE x = m
    <3>1. shop'[x] = b /\ issued'[x] = times BY <2>1 DEF RateInv, RateTypeOK, TypeOK
    <3> QED BY <3>1
  <2>2. CASE x # m
    <3>1. shop'[x] = shop[x] /\ issued'[x] = issued[x]
      BY <2>2 DEF RateInv, RateTypeOK, TypeOK
    <3>2. ShopPaced(shop[x], issued[x], now) BY DEF RateInv
    <3> QED BY <3>1, <3>2
  <2> QED BY <2>1, <2>2
<1> QED BY <1>1 DEF ShopsPaced

LEMMA OneShopQuiet ==
  ASSUME RateInv, now' = now, issued' = issued, NEW m \in Merchants,
         shop[m] # NoAccount, NEW b \in Business, SameShopWindow(shop[m], b),
         shop' = [shop EXCEPT ![m] = b]
  PROVE  ShopsPaced'
<1>1. now \in Nat BY DEF RateInv, RateTypeOK, TypeOK
<1>2. shop[m] \in Business \cup {NoAccount} BY DEF RateInv, RateTypeOK, TypeOK
<1>3. ShopPaced(shop[m], issued[m], now) BY DEF RateInv
<1>4. b # NoAccount BY NoAccountAssumption
<1>5. IF shop[m] = NoAccount THEN b = NoAccount
      ELSE b # NoAccount /\ SameShopWindow(shop[m], b)
  BY <1>4
<1>6. ShopPaced(b, issued[m], now) BY <1>1, <1>2, <1>3, <1>5, QuietShop
<1>7. issued' = [issued EXCEPT ![m] = issued[m]] BY DEF RateInv, RateTypeOK
<1> QED BY <1>6, <1>7, OneShopPaced

LEMMA OneCardPaced ==
  ASSUME RateInv, now' = now, NEW m \in Merchants, NEW c \in Customers, NEW k, NEW times,
         card' = [card EXCEPT ![m][c] = k],
         claimed' = [claimed EXCEPT ![m][c] = times],
         CardPaced(k, times, now)
  PROVE  CardsPaced'
<1>1. ASSUME NEW x \in Merchants, NEW y \in Customers
      PROVE  CardPaced(card'[x][y], claimed'[x][y], now')
  <2>1. CASE x = m /\ y = c
    <3>1. card'[x][y] = k /\ claimed'[x][y] = times
      BY <2>1 DEF RateInv, RateTypeOK, TypeOK
    <3> QED BY <3>1
  <2>2. CASE x # m \/ y # c
    <3>1. card'[x][y] = card[x][y] /\ claimed'[x][y] = claimed[x][y]
      BY <2>2 DEF RateInv, RateTypeOK, TypeOK
    <3>2. CardPaced(card[x][y], claimed[x][y], now) BY DEF RateInv
    <3> QED BY <3>1, <3>2
  <2> QED BY <2>1, <2>2
<1> QED BY <1>1 DEF CardsPaced

LEMMA OneCardQuiet ==
  ASSUME RateInv, now' = now, claimed' = claimed, NEW m \in Merchants, NEW c \in Customers,
         card[m][c] # NoAccount, NEW k \in LoyaltyCard, SameCardWindow(card[m][c], k),
         card' = [card EXCEPT ![m][c] = k]
  PROVE  CardsPaced'
<1>1. now \in Nat BY DEF RateInv, RateTypeOK, TypeOK
<1>2. card[m][c] \in LoyaltyCard \cup {NoAccount} BY DEF RateInv, RateTypeOK, TypeOK
<1>3. CardPaced(card[m][c], claimed[m][c], now) BY DEF RateInv
<1>4. k # NoAccount BY NoAccountAssumption
<1>5. IF card[m][c] = NoAccount THEN k = NoAccount
      ELSE k # NoAccount /\ SameCardWindow(card[m][c], k)
  BY <1>4
<1>6. CardPaced(k, claimed[m][c], now) BY <1>1, <1>2, <1>3, <1>5, QuietCard
<1>7. claimed' = [claimed EXCEPT ![m][c] = claimed[m][c]] BY DEF RateInv, RateTypeOK
<1> QED BY <1>6, <1>7, OneCardPaced

LEMMA TwoCardsQuiet ==
  ASSUME RateInv, now' = now, claimed' = claimed,
         NEW m \in Merchants, NEW c \in Customers, NEW to \in Customers,
         card[m][c] # NoAccount, NEW k \in LoyaltyCard, SameCardWindow(card[m][c], k),
         card[m][to] # NoAccount, NEW kk \in LoyaltyCard, SameCardWindow(card[m][to], kk),
         c # to, card' = [card EXCEPT ![m] = [card[m] EXCEPT ![c] = k, ![to] = kk]]
  PROVE  CardsPaced'
<1>1. ASSUME NEW x \in Merchants, NEW y \in Customers
      PROVE  CardPaced(card'[x][y], claimed'[x][y], now')
  <2>1. /\ now \in Nat /\ card[x][y] \in LoyaltyCard \cup {NoAccount}
        /\ CardPaced(card[x][y], claimed[x][y], now)
    BY DEF RateInv, RateTypeOK, TypeOK
  <2>2. k # NoAccount /\ kk # NoAccount BY NoAccountAssumption
  <2>3. card'[x][y] = IF x = m /\ y = c THEN k ELSE IF x = m /\ y = to THEN kk ELSE card[x][y]
    BY DEF RateInv, RateTypeOK, TypeOK
  <2>4. SameCardWindow(card[x][y], card[x][y]) BY DEF SameCardWindow
  <2>5. IF card[x][y] = NoAccount THEN card'[x][y] = NoAccount
        ELSE card'[x][y] # NoAccount /\ SameCardWindow(card[x][y], card'[x][y])
    BY <2>2, <2>3, <2>4
  <2> QED BY <2>1, <2>5, QuietCard
<1> QED BY <1>1 DEF CardsPaced

LEMMA ShopStepPaces ==
  ASSUME RateInv, ShopStep
  PROVE  ShopsPaced' /\ CardsPaced'
<1>0. TypeOK /\ now \in Nat /\ now <= now BY DEF RateInv, RateTypeOK, TypeOK
<1>1. ASSUME NEW m \in Merchants, NEW stamps \in StampGoals, NEW ttl \in ReceiptTtls,
             NEW lock \in LockDates, NEW relayer \in Relayers,
             RegisterBusiness(m, stamps, ttl, lock, relayer), UNCHANGED <<issued, claimed>>
      PROVE  ShopsPaced' /\ CardsPaced'
  <2> DEFINE b == NewBusiness(stamps, ttl, lock, relayer)
  <2>1. /\ shop[m] = NoAccount /\ shop' = [shop EXCEPT ![m] = b]
        /\ now' = now /\ card' = card /\ CheckSettings(stamps, ttl)
    BY <1>1 DEF RegisterBusiness
  <2>2. b \in Business BY <2>1, SettingsFit, ArgumentsAssumption, NewBusinessType
  <2>3. b.receipts_window_start = 0 /\ b.receipts_this_window = 0 BY DEF NewBusiness
  <2> HIDE DEF b
  <2>4. ShopPaced(NoAccount, issued[m], now) BY <2>1 DEF RateInv
  <2>5. ShopPaced(b, issued[m], now) BY <1>0, <2>2, <2>3, <2>4, NewShopPaced
  <2>6. issued' = [issued EXCEPT ![m] = issued[m]] BY <1>1 DEF RateInv, RateTypeOK
  <2> QED BY <1>0, <1>1, <2>1, <2>5, <2>6, OneShopPaced, SameCardsPaced
<1>2. ASSUME NEW m \in Merchants, NEW stamps \in StampGoals, NEW ttl \in ReceiptTtls,
             NEW lock \in LockDates,
             UpdateBusinessConfig(m, stamps, ttl, lock), UNCHANGED <<issued, claimed>>
      PROVE  ShopsPaced' /\ CardsPaced'
  <2> DEFINE b == [shop[m] EXCEPT !.terms_locked_until = lock,
                                  !.stamps_required = stamps,
                                  !.receipt_ttl_seconds = ttl]
  <2>1. /\ shop[m] # NoAccount /\ shop' = [shop EXCEPT ![m] = b]
        /\ now' = now /\ card' = card /\ CheckSettings(stamps, ttl)
    BY <1>2 DEF UpdateBusinessConfig, UpdateAllowed
  <2>2. shop[m] \in Business BY <1>0, <2>1, AccountType
  <2>3. b \in Business
    BY <2>1, <2>2, SettingsFit, ArgumentsAssumption, NewTermsType
  <2>4. SameShopWindow(shop[m], b) BY <2>2, ShopWindowKept
  <2> HIDE DEF b
  <2> QED BY <1>0, <1>2, <2>1, <2>3, <2>4, OneShopQuiet, SameCardsPaced
<1>3. ASSUME NEW m \in Merchants, CloseBusiness(m),
             issued' = [issued EXCEPT ![m] = Never], UNCHANGED claimed
      PROVE  ShopsPaced' /\ CardsPaced'
  <2>1. shop' = [shop EXCEPT ![m] = NoAccount] /\ now' = now /\ card' = card
    BY <1>3 DEF CloseBusiness
  <2>2. ShopPaced(NoAccount, Never, now) BY ClosedShopPaced
  <2> QED BY <1>0, <1>3, <2>1, <2>2, OneShopPaced, SameCardsPaced
<1> QED BY <1>1, <1>2, <1>3 DEF ShopStep

LEMMA IssuePaces ==
  ASSUME RateInv, NEW m \in Merchants, NEW s \in Secrets, NEW relayer \in Relayers,
         IssueReceipt(m, s, relayer),
         issued' = [issued EXCEPT ![m][now] = @ + 1], claimed' = claimed
  PROVE  ShopsPaced' /\ CardsPaced'
<1>0. TypeOK /\ now \in Nat /\ now <= now BY DEF RateInv, RateTypeOK, TypeOK
<1> DEFINE bb == [HourlyWindow(shop[m]) EXCEPT !.receipts_this_window = @ + 1]
           times == Used(issued[m], now)
<1>1. /\ shop[m] # NoAccount /\ shop' = [shop EXCEPT ![m] = bb]
      /\ now' = now /\ card' = card
      /\ HourlyWindow(shop[m]).receipts_this_window < MaxReceiptsPerHour
  BY DEF IssueReceipt
<1>2. shop[m] \in Business BY <1>0, <1>1, AccountType
<1>3. ShopPaced(shop[m], issued[m], now) /\ issued[m] \in [Times -> Nat] /\ now \in Times
  BY DEF RateInv, RateTypeOK
<1>4. ShopPaced(bb, times, now) BY <1>1, <1>2, <1>3, IssueIsPaced
<1>5. issued' = [issued EXCEPT ![m] = times] BY DEF RateInv, RateTypeOK, Used
<1> HIDE DEF bb, times
<1> QED BY <1>0, <1>1, <1>4, <1>5, OneShopPaced, SameCardsPaced

LEMMA ClaimPaces ==
  ASSUME RateInv, NEW m \in Merchants, NEW s \in Secrets, NEW c \in Customers,
         NEW relayer \in Relayers, ClaimReceipt(m, s, c, relayer),
         claimed' = [claimed EXCEPT ![m][c][now] = @ + 1], issued' = issued
  PROVE  ShopsPaced' /\ CardsPaced'
<1>0. TypeOK /\ now \in Nat /\ now <= now BY DEF RateInv, RateTypeOK, TypeOK
<1> DEFINE k == CardAtCounter(m, c, relayer)
           kk == Stamped(DailyWindow(k))
           opening == card[m][c] = NoAccount
           bb == CountStamp(shop[m], opening)
           times == Used(claimed[m][c], now)
<1>1. /\ shop[m] # NoAccount /\ shop' = [shop EXCEPT ![m] = bb]
      /\ now' = now /\ card' = [card EXCEPT ![m][c] = kk]
      /\ Cooled(DailyWindow(k)) /\ DailyWindow(k).stamps < U8Max
      /\ DailyWindow(k).claims_this_window < MaxClaimsPerCardPerDay
  BY DEF ClaimReceipt, RoomForStamp
<1>2. shop[m] \in Business BY <1>0, <1>1, AccountType
<1>3. bb \in Business /\ SameShopWindow(shop[m], bb)
  <2>1. opening \in BOOLEAN OBVIOUS
  <2> HIDE DEF opening
  <2> QED BY <1>2, <2>1, CountStampType, ShopWindowKept
<1>4. k \in LoyaltyCard
  BY <1>0, <1>2, AccountType, OpenedCardType DEF CardAtCounter
<1>5. kk \in LoyaltyCard BY <1>0, <1>1, <1>4, DailyWindowType, StampedType
<1>6. IF card[m][c] = NoAccount THEN k.claims_window_start = 0 ELSE k = card[m][c]
  BY DEF CardAtCounter, OpenedCard
<1>7. /\ CardPaced(card[m][c], claimed[m][c], now)
      /\ claimed[m][c] \in [Times -> Nat] /\ now \in Times
      /\ card[m][c] \in LoyaltyCard \cup {NoAccount}
  BY DEF RateInv, RateTypeOK, TypeOK
<1> HIDE DEF k
<1>8. CardPaced(kk, times, now) BY <1>1, <1>4, <1>5, <1>6, <1>7, ClaimIsPaced
<1>9. claimed' = [claimed EXCEPT ![m][c] = times] BY DEF RateInv, RateTypeOK, Used
<1> HIDE DEF kk, times, bb
<1>10. ShopsPaced' BY <1>1, <1>3, OneShopQuiet
<1>11. CardsPaced' BY <1>1, <1>8, <1>9, OneCardPaced
<1> QED BY <1>10, <1>11

LEMMA ReceiptStepPaces ==
  ASSUME RateInv, ReceiptStep
  PROVE  ShopsPaced' /\ CardsPaced'
<1>0. now \in Nat /\ now <= now BY DEF RateInv, RateTypeOK, TypeOK
<1>1. ASSUME NEW m \in Merchants, NEW s \in Secrets, ReclaimExpiredReceipt(m, s),
             UNCHANGED <<issued, claimed>>
      PROVE  ShopsPaced' /\ CardsPaced'
  <2>1. shop' = shop /\ card' = card /\ now' = now BY <1>1 DEF ReclaimExpiredReceipt
  <2> QED BY <1>0, <1>1, <2>1, SameShopsPaced, SameCardsPaced
<1> QED BY <1>1, IssuePaces, ClaimPaces DEF ReceiptStep

LEMMA CardStepPaces ==
  ASSUME RateInv, CardNext, UNCHANGED <<issued, claimed>>
  PROVE  ShopsPaced' /\ CardsPaced'
<1>0. TypeOK /\ now \in Nat /\ now <= now BY DEF RateInv, RateTypeOK, TypeOK
<1>1. ASSUME NEW m \in Merchants, NEW c \in Customers, NEW to \in Customers,
             NEW amount \in 1..U8Max, TransferStamps(m, c, to, amount)
      PROVE  ShopsPaced' /\ CardsPaced'
  <2> DEFINE sender == Passed(card[m][c], amount)
             receiver == Received(card[m][to], amount)
  <2>1. /\ card[m][c] # NoAccount /\ card[m][to] # NoAccount /\ c # to
        /\ shop' = shop /\ now' = now
    BY <1>1 DEF TransferStamps
  <2>2. card[m][c] \in LoyaltyCard /\ card[m][to] \in LoyaltyCard
    BY <1>0, <2>1, AccountType
  <2>3. sender \in LoyaltyCard /\ receiver \in LoyaltyCard
    BY <1>1, <2>2, PassedType, ReceivedType DEF TransferStamps
  <2>4. amount \in Nat BY LimitsAssumption
  <2>5. SameCardWindow(card[m][c], sender) /\ SameCardWindow(card[m][to], receiver)
    BY <2>2, <2>4, CardWindowKept
  <2>6. card' = [card EXCEPT ![m] = [card[m] EXCEPT ![c] = sender, ![to] = receiver]]
    BY <1>0, <1>1, <2>2 DEF TransferStamps, TypeOK
  <2> HIDE DEF sender, receiver
  <2>7. CardsPaced' BY <2>1, <2>3, <2>5, <2>6, TwoCardsQuiet
  <2> QED BY <1>0, <2>1, <2>7, SameShopsPaced
<1>2. ASSUME NEW m \in Merchants, NEW c \in Customers, MintCardNft(m, c)
      PROVE  ShopsPaced' /\ CardsPaced'
  <2>1. shop' = shop /\ card' = card /\ now' = now BY <1>2 DEF MintCardNft
  <2> QED BY <1>0, <2>1, SameShopsPaced, SameCardsPaced
<1>3. ASSUME NEW m \in Merchants, NEW c \in Customers, RetireIdleCardNft(m, c)
      PROVE  ShopsPaced' /\ CardsPaced'
  <2> DEFINE kk == [card[m][c] EXCEPT !.nft_cycle = @ + 1]
  <2>1. card[m][c] # NoAccount /\ shop' = shop /\ now' = now
    BY <1>3 DEF RetireIdleCardNft
  <2>2. card[m][c] \in LoyaltyCard BY <1>0, <2>1, AccountType
  <2>3. SameCardWindow(card[m][c], kk) BY <2>2, CardWindowKept
  <2>4. kk \in LoyaltyCard
    <3>1. card[m][c].nft_cycle + 1 \in Nat BY <2>2 DEF LoyaltyCard
    <3> QED BY <2>2, <3>1, CardField
  <2>5. card' = [card EXCEPT ![m][c] = kk] BY <1>0, <1>3 DEF RetireIdleCardNft, TypeOK
  <2> HIDE DEF kk
  <2>6. CardsPaced' BY <2>1, <2>3, <2>4, <2>5, OneCardQuiet
  <2> QED BY <1>0, <2>1, <2>6, SameShopsPaced
<1>4. ASSUME NEW m \in Merchants, NEW c \in Customers, CloseDeadCard(m, c)
      PROVE  ShopsPaced' /\ CardsPaced'
  <2> DEFINE bb == CountClosedCard(shop[m])
  <2>1. /\ shop[m] # NoAccount /\ shop' = [shop EXCEPT ![m] = bb]
        /\ card[m][c] # NoAccount /\ card' = [card EXCEPT ![m][c] = NoAccount]
        /\ now' = now /\ now - card[m][c].last_stamp_ts >= CardDeadSeconds
    BY <1>4 DEF CloseDeadCard, Dead
  <2>2. shop[m] \in Business /\ card[m][c] \in LoyaltyCard BY <1>0, <2>1, AccountType
  <2>3. bb \in Business /\ SameShopWindow(shop[m], bb)
    BY <2>2, CountersType, ShopWindowKept
  <2>4. CardPaced(card[m][c], claimed[m][c], now) BY DEF RateInv
  <2>5. CardPaced(NoAccount, claimed[m][c], now)
    BY <1>0, <2>1, <2>2, <2>4, DeadCardPaced
  <2>6. claimed' = [claimed EXCEPT ![m][c] = claimed[m][c]] BY DEF RateInv, RateTypeOK
  <2> HIDE DEF bb
  <2> QED BY <2>1, <2>3, <2>5, <2>6, OneShopQuiet, OneCardPaced
<1>5. ASSUME NEW m \in Merchants, NEW c \in Customers, NEW relayer \in Relayers,
             MintVoucher(m, c, relayer)
      PROVE  ShopsPaced' /\ CardsPaced'
  <2> DEFINE burned == CardNftId(m, c) \in cardMint
             kk == CashedIn(card[m][c], shop[m], burned)
             bb == CountMinted(shop[m])
  <2>1. /\ shop[m] # NoAccount /\ shop' = [shop EXCEPT ![m] = bb]
        /\ card[m][c] # NoAccount
        /\ card[m][c].stamps >= card[m][c].stamps_required_snapshot
        /\ now' = now
    BY <1>5 DEF MintVoucher
  <2>2. card' = [card EXCEPT ![m][c] = kk] BY <1>0, <1>5 DEF MintVoucher, TypeOK
  <2>3. shop[m] \in Business /\ card[m][c] \in LoyaltyCard BY <1>0, <2>1, AccountType
  <2>4. bb \in Business /\ SameShopWindow(shop[m], bb)
    BY <2>3, CountersType, ShopWindowKept
  <2>5. burned \in BOOLEAN OBVIOUS
  <2> HIDE DEF burned
  <2>6. kk \in LoyaltyCard /\ SameCardWindow(card[m][c], kk)
    BY <2>1, <2>3, <2>5, CashedInType, CardWindowKept
  <2> HIDE DEF kk, bb
  <2> QED BY <2>1, <2>2, <2>4, <2>6, OneShopQuiet, OneCardQuiet
<1> QED BY <1>1, <1>2, <1>3, <1>4, <1>5 DEF CardNext

\* Vouchers and wallets touch a shop's counters at most.
LEMMA OtherStepPaces ==
  ASSUME RateInv, VoucherNext \/ WalletNext \/ Tick, UNCHANGED <<issued, claimed>>
  PROVE  ShopsPaced' /\ CardsPaced'
<1>0. TypeOK /\ now \in Nat /\ now <= now BY DEF RateInv, RateTypeOK, TypeOK
<1>1. ASSUME shop' = shop, card' = card, now' = now PROVE ShopsPaced' /\ CardsPaced'
  BY <1>0, <1>1, SameShopsPaced, SameCardsPaced
<1>2. ASSUME NEW m \in Merchants, shop[m] # NoAccount, NEW bb \in Business,
             SameShopWindow(shop[m], bb), shop' = [shop EXCEPT ![m] = bb],
             card' = card, now' = now
      PROVE  ShopsPaced' /\ CardsPaced'
  BY <1>0, <1>2, OneShopQuiet, SameCardsPaced
<1>3. ASSUME NEW m \in Merchants, NEW i \in VoucherIds, NEW w \in Customers,
             RedeemVoucher(m, i, w)
      PROVE  ShopsPaced' /\ CardsPaced'
  <2>1. /\ shop[m] # NoAccount /\ shop' = [shop EXCEPT ![m] = CountRedeemed(shop[m])]
        /\ card' = card /\ now' = now
    BY <1>0, <1>3 DEF RedeemVoucher, TypeOK
  <2>2. shop[m] \in Business BY <1>0, <2>1, AccountType
  <2> QED BY <1>2, <2>1, <2>2, CountersType, ShopWindowKept
<1>4. ASSUME NEW m \in Merchants, NEW i \in VoucherIds, NEW w \in Customers,
             CloseExpiredVoucher(m, i, w)
      PROVE  ShopsPaced' /\ CardsPaced'
  <2>1. /\ shop[m] # NoAccount
        /\ shop' = [shop EXCEPT ![m] = CountClosedVoucher(shop[m])]
        /\ card' = card /\ now' = now
    BY <1>0, <1>4 DEF CloseExpiredVoucher, TypeOK
  <2>2. shop[m] \in Business BY <1>0, <2>1, AccountType
  <2> QED BY <1>2, <2>1, <2>2, CountersType, ShopWindowKept
<1>5. ASSUME NEW m \in Merchants, NEW i \in VoucherIds, NEW w \in Customers,
             \/ PresentVoucher(m, i, w)
             \/ CancelPresentation(m, i, w)
             \/ \E to \in Customers : TransferVoucher(m, i, w, to)
      PROVE  ShopsPaced' /\ CardsPaced'
  BY <1>1, <1>5 DEF PresentVoucher, CancelPresentation, TransferVoucher
<1>6. CASE VoucherNext BY <1>3, <1>4, <1>5, <1>6 DEF VoucherNext
<1>7. ASSUME NEW id \in cardHeld, WalletBurnsCardToken(id)
      PROVE  ShopsPaced' /\ CardsPaced'
  BY <1>1, <1>7 DEF WalletBurnsCardToken
<1>8. ASSUME NEW m \in Merchants, NEW i \in VoucherIds, NEW w \in Customers,
             \/ \E to \in Customers : WalletMovesVoucher(m, i, w, to)
             \/ WalletBurnsVoucher(m, i, w)
             \/ WalletOpensToken(m, i, w)
             \/ WalletClosesToken(m, i, w)
             \/ WalletGrantsClose(m, i, w)
      PROVE  ShopsPaced' /\ CardsPaced'
  BY <1>1, <1>8 DEF WalletMovesVoucher, WalletBurnsVoucher, WalletOpensToken,
                    WalletClosesToken, WalletGrantsClose
<1>9. CASE WalletNext BY <1>7, <1>8, <1>9 DEF WalletNext
<1>10. CASE Tick
  <2>1. shop' = shop /\ card' = card /\ now' = now + 1 BY <1>10 DEF Tick
  <2>2. now' \in Nat /\ now <= now' BY <1>0, <2>1
  <2> QED BY <2>1, <2>2, SameShopsPaced, SameCardsPaced
<1> QED BY <1>6, <1>9, <1>10

LEMMA RateStepIsNext == RateNext => Next
<1>1. ShopStep => ShopNext BY DEF ShopStep, ShopNext
<1>2. ReceiptStep => ReceiptNext BY DEF ReceiptStep, ReceiptNext
<1> QED BY <1>1, <1>2 DEF RateNext, Next

LEMMA RateStepType ==
  ASSUME RateInv, RateNext
  PROVE  RateTypeOK'
<1>1. TypeOK' BY RateStepIsNext, NextType DEF RateInv, RateTypeOK
<1>2. now' \in Times
  <2>1. ASSUME now' = now PROVE now' \in Times BY <2>1 DEF RateInv, RateTypeOK
  <2>2. CASE ShopStep
    BY <2>1, <2>2 DEF ShopStep, RegisterBusiness, UpdateBusinessConfig, CloseBusiness
  <2>3. CASE ReceiptStep
    BY <2>1, <2>3 DEF ReceiptStep, IssueReceipt, ClaimReceipt, ReclaimExpiredReceipt
  <2>4. CASE CardNext
    <3>1. ASSUME NEW m \in Merchants, NEW c \in Customers,
                 \/ \E to \in Customers, amount \in 1..U8Max :
                      TransferStamps(m, c, to, amount)
                 \/ MintCardNft(m, c)
                 \/ RetireIdleCardNft(m, c)
                 \/ CloseDeadCard(m, c)
          PROVE  now' = now
      BY <3>1 DEF TransferStamps, MintCardNft, RetireIdleCardNft, CloseDeadCard
    <3>2. ASSUME NEW m \in Merchants, NEW c \in Customers, NEW relayer \in Relayers,
                 MintVoucher(m, c, relayer)
          PROVE  now' = now
      BY <3>2 DEF MintVoucher
    <3> QED BY <2>1, <2>4, <3>1, <3>2 DEF CardNext
  <2>5. CASE VoucherNext
    BY <2>1, <2>5 DEF VoucherNext, PresentVoucher, CancelPresentation, TransferVoucher,
                      RedeemVoucher, CloseExpiredVoucher
  <2>6. CASE WalletNext
    <3>1. ASSUME NEW id \in cardHeld, WalletBurnsCardToken(id) PROVE now' = now
      BY <3>1 DEF WalletBurnsCardToken
    <3>2. ASSUME NEW m \in Merchants, NEW i \in VoucherIds, NEW w \in Customers,
                 \/ \E to \in Customers : WalletMovesVoucher(m, i, w, to)
                 \/ WalletBurnsVoucher(m, i, w)
                 \/ WalletOpensToken(m, i, w)
                 \/ WalletClosesToken(m, i, w)
                 \/ WalletGrantsClose(m, i, w)
          PROVE  now' = now
      BY <3>2 DEF WalletMovesVoucher, WalletBurnsVoucher, WalletOpensToken,
                  WalletClosesToken, WalletGrantsClose
    <3> QED BY <2>1, <2>6, <3>1, <3>2 DEF WalletNext
  <2>7. CASE Tick
    <3>1. now' = now + 1 /\ now < MaxTime BY <2>7 DEF Tick
    <3>2. now \in Times BY DEF RateInv, RateTypeOK
    <3> QED BY <3>1, <3>2, NextInstant
  <2> QED BY <2>2, <2>3, <2>4, <2>5, <2>6, <2>7 DEF RateNext
<1>3. issued' \in [Merchants -> [Times -> Nat]]
  <2>1. Never \in [Times -> Nat] BY NothingIsPaced
  <2>2. issued \in [Merchants -> [Times -> Nat]] /\ now \in Times
    BY DEF RateInv, RateTypeOK
  <2>3. ASSUME NEW m \in Merchants, issued' = [issued EXCEPT ![m] = Never]
        PROVE  issued' \in [Merchants -> [Times -> Nat]]
    <3> HIDE DEF Never
    <3> QED BY <2>1, <2>2, <2>3
  <2>4. ASSUME NEW m \in Merchants, issued' = [issued EXCEPT ![m][now] = @ + 1]
        PROVE  issued' \in [Merchants -> [Times -> Nat]]
    <3>1. Used(issued[m], now) \in [Times -> Nat] BY <2>2, UsedFacts
    <3>2. issued' = [issued EXCEPT ![m] = Used(issued[m], now)] BY <2>2, <2>4 DEF Used
    <3> QED BY <2>2, <3>1, <3>2
  <2> QED BY <2>2, <2>3, <2>4 DEF RateNext, ShopStep, ReceiptStep
<1>4. claimed' \in [Merchants -> [Customers -> [Times -> Nat]]]
  <2>1. claimed \in [Merchants -> [Customers -> [Times -> Nat]]] /\ now \in Times
    BY DEF RateInv, RateTypeOK
  <2>2. ASSUME NEW m \in Merchants, NEW c \in Customers,
               claimed' = [claimed EXCEPT ![m][c][now] = @ + 1]
        PROVE  claimed' \in [Merchants -> [Customers -> [Times -> Nat]]]
    <3>1. Used(claimed[m][c], now) \in [Times -> Nat] BY <2>1, UsedFacts
    <3>2. claimed' = [claimed EXCEPT ![m][c] = Used(claimed[m][c], now)]
      BY <2>1, <2>2 DEF Used
    <3> QED BY <2>1, <3>1, <3>2
  <2> QED BY <2>1, <2>2 DEF RateNext, ShopStep, ReceiptStep
<1> QED BY <1>1, <1>2, <1>3, <1>4 DEF RateTypeOK

LEMMA RateStepPaces == RateInv /\ [RateNext]_rateVars => RateInv'
<1> SUFFICES ASSUME RateInv, [RateNext]_rateVars PROVE RateInv'
  OBVIOUS
<1>1. CASE RateNext
  <2>1. RateTypeOK' BY <1>1, RateStepType
  <2>2. ShopsPaced' /\ CardsPaced'
    BY <1>1, ShopStepPaces, ReceiptStepPaces, CardStepPaces, OtherStepPaces DEF RateNext
  <2> QED BY <2>1, <2>2 DEF RateInv, ShopsPaced, CardsPaced
<1>2. CASE UNCHANGED rateVars
  <2>1. UNCHANGED vars /\ issued' = issued /\ claimed' = claimed BY <1>2 DEF rateVars
  <2>2. shop' = shop /\ card' = card /\ now' = now BY <2>1 DEF vars
  <2>3. TypeOK' BY <2>1, NextType DEF RateInv, RateTypeOK
  <2>4. RateTypeOK' BY <2>1, <2>2, <2>3 DEF RateInv, RateTypeOK
  <2>5. now' \in Nat /\ now <= now' BY <2>2 DEF RateInv, RateTypeOK, TypeOK
  <2>6. ShopsPaced' /\ CardsPaced' BY <2>1, <2>2, <2>5, SameShopsPaced, SameCardsPaced
  <2> QED BY <2>4, <2>6 DEF RateInv, ShopsPaced, CardsPaced
<1> QED BY <1>1, <1>2

LEMMA RateInitPaced == RateInit => RateInv
<1> SUFFICES ASSUME RateInit PROVE RateInv
  OBVIOUS
<1>1. TypeOK BY InitType DEF RateInit
<1>2. Never \in [Times -> Nat] BY NothingIsPaced
<1>3. now \in Times BY TimesFacts DEF RateInit, Init
<1>4. /\ issued = [m \in Merchants |-> Never]
      /\ claimed = [m \in Merchants |-> [c \in Customers |-> Never]]
  BY DEF RateInit
<1>5. RateTypeOK
  <2> HIDE DEF Never
  <2> QED BY <1>1, <1>2, <1>3, <1>4 DEF RateTypeOK
<1>6. ASSUME NEW m \in Merchants PROVE ShopPaced(shop[m], issued[m], now)
  <2>1. shop[m] = NoAccount /\ issued[m] = Never BY <1>4 DEF RateInit, Init
  <2> QED BY <2>1, ClosedShopPaced
<1>7. ASSUME NEW m \in Merchants, NEW c \in Customers
      PROVE  CardPaced(card[m][c], claimed[m][c], now)
  <2>1. card[m][c] = NoAccount /\ claimed[m][c] = Never BY <1>4 DEF RateInit, Init
  <2>2. \A u \in Times : Never[u] = 0 BY DEF Never
  <2>3. CardPaced(NoAccount, Never, now)
    BY <2>2, NothingIsPaced, LimitsMean DEF CardPaced
  <2> QED BY <2>1, <2>3
<1> QED BY <1>5, <1>6, <1>7 DEF RateInv

LEMMA AlwaysPaced == RateSpec => []RateInv
BY RateInitPaced, RateStepPaces, PTL DEF RateSpec

\* In any hour at all a shop issues fewer than twice the hourly limit, however
\* the windows fall.
THEOREM HoursAreBounded == RateSpec => []HourlyIssueBounded
BY AlwaysPaced, InvIsEnough, PTL

\* In any day at all a customer claims fewer than twice the daily limit at a
\* shop, and never twice within a cooldown, on whatever cards.
THEOREM ClaimsArePaced == RateSpec => []ClaimsPaced
BY AlwaysPaced, InvIsEnough, PTL
=============================================================================
