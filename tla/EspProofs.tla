----------------------------- MODULE EspProofs -----------------------------
(***************************************************************************)
(* Proofs about the ESP's components.                                      *)
(***************************************************************************)
EXTENDS EspClock, Updater, ZoneService, FiniteSetTheorems, WellFoundedInduction,
        TLAPS

-----------------------------------------------------------------------------
\* The ESP's clock

LEMMA SizeBound ==
  ASSUME NEW x \in Int, NEW bound \in Int
  PROVE  /\ SizeOf(x) \in Nat
         /\ SizeOf(x) <= bound <=> -bound <= x /\ x <= bound
  BY DEF SizeOf

\* A whole number of steps: what a rate adds in them is not rounded.
LEMMA StepsWhole ==
  ASSUME NEW n \in Int
  PROVE  (Unit * n) \div Unit = n
  BY EspClockAssumption

LEMMA RateExact ==
  ASSUME NEW n \in Int, NEW r \in Int
  PROVE  Truncated((Unit * n) * r, Unit) = n * r
<1>1. Unit \in Nat \ {0}
  BY EspClockAssumption
<1>2. (Unit * n) * r = Unit * (n * r) /\ -((Unit * n) * r) = Unit * (-(n * r))
  BY <1>1
<1>3. n * r \in Int
  OBVIOUS
<1>4. (Unit * (n * r)) \div Unit = n * r /\ (Unit * (-(n * r))) \div Unit = -(n * r)
  BY <1>3, StepsWhole
<1> DEFINE product == (Unit * n) * r
<1>5. product \div Unit = n * r /\ (-product) \div Unit = -(n * r)
  BY <1>2, <1>4
<1> HIDE DEF product
<1>6. Truncated(product, Unit) = n * r
  BY <1>3, <1>5 DEF Truncated
<1> QED
  BY <1>6 DEF product

LEMMA TrueUtcInSteps ==
  ASSUME NEW n \in Int
  PROVE  TrueUtc(Unit * n) = Unit * n + n * TrueRate
  BY StepsWhole DEF TrueUtc

\* The record of the clock, and the samples given to it.
Clock == [valid : BOOLEAN, anchorLocal : Int, anchorUtc : Int, rate : Int,
          estimates : 0 .. 2, slew : Int, slewStart : Int, duration : Int]
Samples == [local : Int, offset : Int, error : Nat]

LEMMA SlewedType ==
  ASSUME NEW e \in Clock, NEW at \in Int
  PROVE  Slewed(e, at) \in Int
<1> DEFINE elapsed == at - e.slewStart
<1>1. e.slew \in Int /\ e.duration \in Int /\ elapsed \in Int
  BY DEF Clock
<1>2. ASSUME elapsed > 0, elapsed < e.duration
      PROVE  Truncated(e.slew * elapsed, e.duration) \in Int
  <2> DEFINE product == e.slew * elapsed
  <2>1. product \in Int /\ e.duration \in Nat \ {0}
    BY <1>1, <1>2
  <2> HIDE DEF product
  <2>2. product \div e.duration \in Int /\ (-product) \div e.duration \in Int
    BY <2>1
  <2> QED
    BY <2>2 DEF Truncated, product
<1> HIDE DEF elapsed
<1> QED
  BY <1>1, <1>2 DEF Slewed, elapsed

\* UTC by the model, a whole number of steps from its anchor.
LEMMA UtcInSteps ==
  ASSUME NEW e \in Clock, NEW a \in Int, NEW n \in Int, e.anchorLocal = Unit * a
  PROVE  UtcAt(e, Unit * n)
           = e.anchorUtc + Unit * (n - a) + (n - a) * e.rate + Slewed(e, Unit * n)
<1>1. Unit \in Nat /\ e.rate \in Int
  BY EspClockAssumption DEF Clock
<1>2. Unit * n - e.anchorLocal = Unit * (n - a)
  BY <1>1
<1> DEFINE k == n - a
<1>3. Truncated((Unit * k) * e.rate, Unit) = k * e.rate
  <2>1. k \in Int
    OBVIOUS
  <2> HIDE DEF k
  <2> QED
    BY <1>1, <2>1, RateExact
<1> QED
  BY <1>2, <1>3 DEF UtcAt

\* The invariant: what the anchor will be out by once its slew is in is no more
\* than the error of the sample it was set by and what the drift allowed for has
\* made of it since the sample was taken.
EspInv ==
  /\ esp \in Clock /\ sample \in Samples /\ lag \in Nat
  /\ esp.rate - TrueRate <= EspDrift[esp.estimates]
  /\ TrueRate - esp.rate <= EspDrift[esp.estimates]
  /\ \E n, a, m \in Int :
       /\ local = Unit * n /\ esp.anchorLocal = Unit * a /\ sample.local = Unit * m
       /\ m <= a /\ a <= n
       /\ esp.valid =>
            SizeOf(esp.anchorUtc + esp.slew - TrueUtc(esp.anchorLocal))
              <= sample.error + (a - m) * EspDrift[esp.estimates] + lag

LEMMA EspInvInit == EspInit => EspInv
<1> SUFFICES ASSUME EspInit PROVE EspInv
  OBVIOUS
<1>1. esp \in Clock /\ sample \in Samples /\ lag \in Nat
  BY DEF EspInit, Clock, Samples
<1>2. /\ esp.rate - TrueRate <= EspDrift[esp.estimates]
      /\ TrueRate - esp.rate <= EspDrift[esp.estimates]
  BY EspClockAssumption DEF EspInit
<1>3. /\ local = Unit * 0 /\ esp.anchorLocal = Unit * 0 /\ sample.local = Unit * 0
      /\ esp.valid = FALSE
  BY EspClockAssumption DEF EspInit
<1>4. \E n, a, m \in Int :
        /\ local = Unit * n /\ esp.anchorLocal = Unit * a /\ sample.local = Unit * m
        /\ m <= a /\ a <= n
        /\ esp.valid =>
             SizeOf(esp.anchorUtc + esp.slew - TrueUtc(esp.anchorLocal))
               <= sample.error + (a - m) * EspDrift[esp.estimates] + lag
  <2>1. 0 \in Int /\ 0 <= 0
    OBVIOUS
  <2> QED
    BY <1>3, <2>1, Zenon
<1> QED
  BY <1>1, <1>2, <1>4, Zenon DEF EspInv

LEMMA EspInvBound == EspInv => UncertaintyIsBound
<1> SUFFICES ASSUME EspInv, esp.valid
             PROVE  SizeOf(UtcAt(esp, local) - TrueUtc(local)) <= EspUncertainty(local) + lag
  BY DEF UncertaintyIsBound
<1>1. PICK n \in Int, a \in Int, m \in Int :
        /\ local = Unit * n /\ esp.anchorLocal = Unit * a /\ sample.local = Unit * m
        /\ m <= a /\ a <= n
        /\ SizeOf(esp.anchorUtc + esp.slew - TrueUtc(esp.anchorLocal))
             <= sample.error + (a - m) * EspDrift[esp.estimates] + lag
  BY DEF EspInv
<1> DEFINE D == EspDrift[esp.estimates]
           s == Slewed(esp, local)
           rest == esp.slew - s
<1>2. /\ esp \in Clock /\ esp.anchorUtc \in Int /\ esp.slew \in Int /\ esp.rate \in Int
      /\ sample.error \in Int /\ lag \in Int
      /\ Unit \in Int /\ TrueRate \in Int /\ D \in Nat /\ s \in Int
      /\ esp.rate - TrueRate <= D /\ TrueRate - esp.rate <= D
  <2>1. esp \in Clock /\ local \in Int
    BY <1>1, EspClockAssumption DEF EspInv
  <2>2. s \in Int
    BY <2>1, SlewedType
  <2> QED
    BY <2>1, <2>2, EspClockAssumption DEF EspInv, Clock, Samples
<1>3. /\ UtcAt(esp, local) = esp.anchorUtc + Unit * (n - a) + (n - a) * esp.rate + s
      /\ TrueUtc(local) = Unit * n + n * TrueRate
      /\ TrueUtc(esp.anchorLocal) = Unit * a + a * TrueRate
  <2>1. UtcAt(esp, local) = esp.anchorUtc + Unit * (n - a) + (n - a) * esp.rate + s
    BY <1>1, <1>2, UtcInSteps
  <2>2. TrueUtc(local) = Unit * n + n * TrueRate
    BY <1>1, TrueUtcInSteps
  <2>3. TrueUtc(esp.anchorLocal) = Unit * a + a * TrueRate
    BY <1>1, TrueUtcInSteps
  <2> QED
    BY <2>1, <2>2, <2>3
<1>4. EspUncertainty(local) = sample.error + SizeOf(rest) + (n - m) * D
  <2>1. (local - sample.local) * D = Unit * ((n - m) * D)
    BY <1>1, <1>2
  <2>2. (n - m) * D \in Int
    BY <1>2
  <2>3. ((local - sample.local) * D) \div Unit = (n - m) * D
    BY <2>1, <2>2, StepsWhole
  <2> QED
    BY <2>3 DEF EspUncertainty
<1> HIDE DEF D, s
<1> DEFINE out == esp.anchorUtc + esp.slew - TrueUtc(esp.anchorLocal)
           gain == (n - a) * (esp.rate - TrueRate)
<1>5. /\ out \in Int /\ gain \in Int /\ rest \in Int
  BY <1>2, <1>3
<1>6. UtcAt(esp, local) - TrueUtc(local) = out + gain - rest
  <2>1. gain = (n - a) * esp.rate - (n - a) * TrueRate
    BY <1>2
  <2>2. (n - a) * TrueRate = n * TrueRate - a * TrueRate
    BY <1>2
  <2>3. Unit * (n - a) = Unit * n - Unit * a
    BY <1>2
  <2> DEFINE nr == n * TrueRate
             ar == a * TrueRate
             nar == (n - a) * esp.rate
             nu == Unit * n
             au == Unit * a
  <2>4. nr \in Int /\ ar \in Int /\ nar \in Int /\ nu \in Int /\ au \in Int
    BY <1>2
  <2> HIDE DEF gain
  <2> QED
    BY <1>2, <1>3, <2>1, <2>2, <2>3, <2>4
<1>7. -((n - a) * D) <= gain /\ gain <= (n - a) * D
  <2>1. n - a \in Nat /\ esp.rate - TrueRate \in Int
    BY <1>1, <1>2
  <2>2. -D <= esp.rate - TrueRate /\ esp.rate - TrueRate <= D
    BY <1>2
  <2> QED
    BY <1>2, <2>1, <2>2
<1>8. (n - m) * D = (n - a) * D + (a - m) * D /\ (n - a) * D \in Int /\ (a - m) * D \in Int
  BY <1>2
<1> DEFINE late == (a - m) * D
           since == (n - a) * D
<1> HIDE DEF out, gain, late, since, rest
<1>9. /\ SizeOf(out) <= sample.error + late + lag
      /\ -since <= gain /\ gain <= since
      /\ EspUncertainty(local) = sample.error + SizeOf(rest) + since + late
      /\ late \in Int /\ since \in Int
  <2>1. SizeOf(out) <= sample.error + late + lag
    BY <1>1 DEF out, D, late
  <2>2. -since <= gain /\ gain <= since
    BY <1>7 DEF gain, since
  <2>3. EspUncertainty(local) = sample.error + SizeOf(rest) + since + late
    <3>1. late \in Int /\ since \in Int /\ (n - m) * D = since + late
      BY <1>8 DEF late, since
    <3>2. SizeOf(rest) \in Int
      BY <1>5, SizeBound
    <3> QED
      BY <1>2, <1>4, <3>1, <3>2
  <2> QED
    BY <1>8, <2>1, <2>2, <2>3 DEF late, since
<1>10. SizeOf(out + gain - rest) <= sample.error + SizeOf(rest) + since + late + lag
  BY <1>2, <1>5, <1>9 DEF SizeOf
<1> QED
  BY <1>6, <1>9, <1>10

\* A sample steps the clock to the time it gave, which the drift since has made
\* worse by what lag stands for.
LEMMA SteppedInv ==
  ASSUME EspInv, NEW n \in Int, NEW q \in Int, q <= n, local = Unit * n,
         NEW s \in Samples, s.local = Unit * q,
         SizeOf(s.local + s.offset - TrueUtc(s.local)) <= s.error,
         esp' = Stepped(esp, s, local), sample' = s, UNCHANGED local,
         lag' = ((local - s.local) * SizeOf(esp.rate)) \div Unit
  PROVE  EspInv'
<1> DEFINE D == EspDrift[esp.estimates]
           size == SizeOf(esp.rate)
<1>1. /\ esp \in Clock /\ esp.rate \in Int /\ s.offset \in Int /\ s.error \in Nat
      /\ Unit \in Nat /\ TrueRate \in Int /\ D \in Nat /\ size \in Nat
      /\ esp.rate - TrueRate <= D /\ TrueRate - esp.rate <= D
      /\ TrueRate <= size + D /\ -(size + D) <= TrueRate
  <2>1. /\ esp \in Clock /\ esp.rate \in Int /\ s.offset \in Int /\ s.error \in Nat
        /\ Unit \in Nat /\ TrueRate \in Int /\ D \in Nat
        /\ esp.rate - TrueRate <= D /\ TrueRate - esp.rate <= D
    BY EspClockAssumption DEF EspInv, Clock, Samples
  <2> HIDE DEF D
  <2> QED
    BY <2>1 DEF SizeOf
<1> HIDE DEF size
<1>2. lag' = (n - q) * size
  <2>1. (local - s.local) * size = Unit * ((n - q) * size)
    BY <1>1
  <2>2. (n - q) * size \in Int
    BY <1>1
  <2> QED
    BY <2>1, <2>2, StepsWhole DEF size
<1>3. /\ esp'.anchorLocal = local /\ esp'.anchorUtc = local + s.offset
      /\ esp'.slew = 0 /\ esp'.rate = esp.rate /\ esp'.estimates = esp.estimates
      /\ esp' \in Clock
  <2> DEFINE utc == local + s.offset
  <2>1. local \in Int /\ utc \in Int
    BY <1>1
  <2> HIDE DEF utc, D
  <2>2. esp' = [esp EXCEPT !.anchorLocal = local, !.anchorUtc = utc, !.slew = 0, !.valid = TRUE]
    BY DEF Stepped, utc
  <2>3. esp \in Clock
    BY <1>1
  <2>4. esp' \in Clock
    <3>1. 0 \in Int /\ TRUE \in BOOLEAN
      OBVIOUS
    <3> QED
      BY <2>1, <2>2, <2>3, <3>1, Zenon DEF Clock
  <2>5. /\ esp'.anchorLocal = local /\ esp'.anchorUtc = utc
        /\ esp'.slew = 0 /\ esp'.rate = esp.rate /\ esp'.estimates = esp.estimates
    BY <2>2, <2>3 DEF Clock
  <2> QED
    BY <2>4, <2>5 DEF utc
<1> HIDE DEF D
<1>4. /\ TrueUtc(s.local) = s.local + q * TrueRate
      /\ TrueUtc(local) = local + n * TrueRate
  BY TrueUtcInSteps
<1> DEFINE off == s.local + s.offset - TrueUtc(s.local)
           out == esp'.anchorUtc + esp'.slew - TrueUtc(esp'.anchorLocal)
           drift == (n - q) * TrueRate
           most == (n - q) * (size + D)
<1>5. off \in Int /\ drift \in Int /\ most \in Int /\ off = s.offset - q * TrueRate
      /\ -s.error <= off /\ off <= s.error
  <2>1. off = s.offset - q * TrueRate
    BY <1>1, <1>4
  <2>2. off \in Int
    BY <1>1, <2>1
  <2> HIDE DEF off
  <2>3. -s.error <= off /\ off <= s.error
    BY <1>1, <2>2, SizeBound DEF off
  <2> QED
    BY <1>1, <2>1, <2>2, <2>3
<1>6. out = off - drift
  <2>1. drift = n * TrueRate - q * TrueRate
    BY <1>1
  <2>2. out = s.offset - n * TrueRate
    BY <1>1, <1>3, <1>4
  <2> DEFINE nr == n * TrueRate
             qr == q * TrueRate
  <2>3. nr \in Int /\ qr \in Int
    BY <1>1
  <2> HIDE DEF out, off, drift, nr, qr
  <2> QED
    BY <1>1, <1>5, <2>1, <2>2, <2>3 DEF nr, qr
<1>7. -most <= drift /\ drift <= most
  <2>1. n - q \in Nat /\ size + D \in Nat
    BY <1>1
  <2> QED
    BY <1>1, <2>1
<1>8. most = (n - q) * D + lag' /\ (n - q) * D \in Int /\ lag' \in Nat
  <2>1. n - q \in Nat
    OBVIOUS
  <2> QED
    BY <1>1, <1>2, <2>1
<1>9. SizeOf(out) <= sample'.error + (n - q) * EspDrift[esp'.estimates] + lag'
  <2> DEFINE since == (n - q) * D
  <2>1. most = since + lag' /\ since \in Int
    BY <1>8
  <2> HIDE DEF out, off, drift, most, since
  <2>2. SizeOf(out) <= s.error + since + lag'
    BY <1>1, <1>5, <1>6, <1>7, <1>8, <2>1 DEF SizeOf
  <2> QED
    BY <1>3, <2>2 DEF since, D
<1>10. sample' \in Samples /\ lag' \in Nat
  BY <1>8
<1>11. /\ local' = Unit * n /\ esp'.anchorLocal = Unit * n /\ sample'.local = Unit * q
       /\ q <= n /\ n <= n
  BY <1>3
<1>12. /\ esp'.rate - TrueRate <= EspDrift[esp'.estimates]
       /\ TrueRate - esp'.rate <= EspDrift[esp'.estimates]
  BY <1>1, <1>3 DEF D
<1> HIDE DEF drift, most, off
<1> QED
  BY <1>3, <1>9, <1>10, <1>11, <1>12 DEF EspInv

\* A sample corrects the clock: what the old slew has applied since it was taken
\* is counted once, and the frequency's share since is put right.
LEMMA CorrectedInv ==
  ASSUME EspInv, NEW n \in Int, NEW q \in Int, q <= n, local = Unit * n,
         NEW s \in Samples, s.local = Unit * q,
         SizeOf(s.local + s.offset - TrueUtc(s.local)) <= s.error,
         NEW f \in Estimates(esp),
         esp' = [Corrected(esp, s, local, f[1]) EXCEPT !.estimates = f[2]],
         sample' = s, UNCHANGED local, lag' = 0
  PROVE  EspInv'
<1> DEFINE rate == f[1]
           k == f[2]
           D == EspDrift[k]
           now == Slewed(esp, local)
           then == Slewed(esp, s.local)
           correction == Correction(esp, s, local, rate)
<1>1. PICK a \in Int : esp.anchorLocal = Unit * a
  BY DEF EspInv
<1>2. /\ esp \in Clock /\ esp.rate \in Int /\ esp.anchorUtc \in Int
      /\ s.offset \in Int /\ s.error \in Nat
      /\ Unit \in Nat /\ TrueRate \in Int /\ local \in Int /\ s.local \in Int
  BY EspClockAssumption DEF EspInv, Clock, Samples
<1>3. /\ rate \in Int /\ k \in 0 .. 2 /\ D \in Nat
      /\ rate - TrueRate <= D /\ TrueRate - rate <= D
  <2> DEFINE known == IF esp.estimates < 2 THEN esp.estimates + 1 ELSE 2
  <2>1. known \in 0 .. 2 /\ esp.estimates \in 0 .. 2
    BY <1>2 DEF Clock
  <2> HIDE DEF known
  <2>2. CASE f = <<esp.rate, esp.estimates>>
    BY <1>2, <2>1, <2>2, EspClockAssumption DEF EspInv
  <2>3. ASSUME NEW d \in -EspDrift[known] .. EspDrift[known], f = <<TrueRate + d, known>>
        PROVE  /\ rate \in Int /\ k \in 0 .. 2 /\ D \in Nat
               /\ rate - TrueRate <= D /\ TrueRate - rate <= D
    <3>1. EspDrift[known] \in Nat
      BY <2>1, EspClockAssumption
    <3> QED
      BY <1>2, <2>1, <2>3, <3>1
  <2> QED
    BY <2>2, <2>3 DEF Estimates, known
<1>4. now \in Int /\ then \in Int
  BY <1>2, SlewedType
<1> HIDE DEF rate, k, D, now, then
<1>5. /\ UtcAt(esp, local) = esp.anchorUtc + Unit * (n - a) + (n - a) * esp.rate + now
      /\ UtcAt(esp, s.local) = esp.anchorUtc + Unit * (q - a) + (q - a) * esp.rate + then
      /\ TrueUtc(local) = Unit * n + n * TrueRate
      /\ TrueUtc(s.local) = Unit * q + q * TrueRate
  <2>1. UtcAt(esp, local) = esp.anchorUtc + Unit * (n - a) + (n - a) * esp.rate + now
    BY <1>1, <1>2, UtcInSteps DEF now
  <2>2. UtcAt(esp, s.local)
          = esp.anchorUtc + Unit * (q - a) + (q - a) * esp.rate + then
    BY <1>1, <1>2, UtcInSteps DEF then
  <2>3. TrueUtc(local) = Unit * n + n * TrueRate
    BY TrueUtcInSteps
  <2>4. TrueUtc(s.local) = Unit * q + q * TrueRate
    BY TrueUtcInSteps
  <2> QED
    BY <2>1, <2>2, <2>3, <2>4
<1>6. /\ UtcAt(esp, local) \in Int /\ UtcAt(esp, s.local) \in Int
      /\ TrueUtc(local) \in Int /\ TrueUtc(s.local) \in Int
  BY <1>2, <1>4, <1>5
<1>7. Truncated((local - s.local) * (rate - esp.rate), Unit) = (n - q) * (rate - esp.rate)
  <2> DEFINE steps == n - q
             change == rate - esp.rate
  <2>1. steps \in Int /\ change \in Int /\ local - s.local = Unit * steps
    BY <1>2, <1>3
  <2> HIDE DEF steps, change
  <2> QED
    BY <2>1, RateExact DEF steps, change
<1>8. correction = s.local + s.offset - UtcAt(esp, s.local) - (now - then)
                   + (n - q) * (rate - esp.rate)
  BY <1>7 DEF Correction, now, then
<1>9. correction \in Int
  BY <1>2, <1>3, <1>4, <1>6, <1>8
<1> HIDE DEF correction
<1>10. Duration(correction) \in Int
  <2> DEFINE size == SizeOf(correction)
             product == size * Unit
  <2>1. product \in Int
    BY <1>2, <1>9, SizeBound
  <2> HIDE DEF product
  <2>2. product \div FastRate \in Int /\ product \div GentleRate \in Int
    BY <2>1, EspClockAssumption
  <2> QED
    BY <2>2, EspClockAssumption DEF Duration, product
<1>11. /\ esp'.anchorLocal = local /\ esp'.anchorUtc = UtcAt(esp, local)
       /\ esp'.slew = correction /\ esp'.rate = rate /\ esp'.estimates = k
       /\ esp' \in Clock
  BY <1>2, <1>3, <1>6, <1>9, <1>10 DEF Corrected, Clock, correction, rate, k
<1> DEFINE off == s.local + s.offset - TrueUtc(s.local)
           out == esp'.anchorUtc + esp'.slew - TrueUtc(esp'.anchorLocal)
           drift == (n - q) * (rate - TrueRate)
           most == (n - q) * D
<1>12. off \in Int /\ -s.error <= off /\ off <= s.error
  <2>1. off \in Int
    BY <1>2, <1>6
  <2> HIDE DEF off
  <2> QED
    BY <1>2, <2>1, SizeBound DEF off
<1>13. out = off + drift
  <2> DEFINE nu == Unit * n
             qu == Unit * q
             au == Unit * a
             nr == n * TrueRate
             qr == q * TrueRate
             ne == n * esp.rate
             qe == q * esp.rate
             ae == a * esp.rate
             nf == n * rate
             qf == q * rate
  <2>1. /\ Unit * (n - a) = nu - au /\ Unit * (q - a) = qu - au
        /\ (n - a) * esp.rate = ne - ae /\ (q - a) * esp.rate = qe - ae
    BY <1>2
  <2>2. /\ (n - q) * (rate - esp.rate) = nf - qf - ne + qe
        /\ drift = nf - qf - nr + qr
    BY <1>2, <1>3
  <2>3. /\ nu \in Int /\ qu \in Int /\ au \in Int /\ nr \in Int /\ qr \in Int
        /\ ne \in Int /\ qe \in Int /\ ae \in Int /\ nf \in Int /\ qf \in Int
    BY <1>2, <1>3
  <2>4. /\ UtcAt(esp, local) = esp.anchorUtc + (nu - au) + (ne - ae) + now
        /\ UtcAt(esp, s.local) = esp.anchorUtc + (qu - au) + (qe - ae) + then
        /\ TrueUtc(local) = nu + nr /\ TrueUtc(s.local) = qu + qr
        /\ correction = qu + s.offset - UtcAt(esp, s.local) - (now - then)
                        + (nf - qf - ne + qe)
    BY <1>5, <1>8, <2>1, <2>2
  <2>5. /\ out = UtcAt(esp, local) + correction - TrueUtc(local)
        /\ off = qu + s.offset - TrueUtc(s.local)
    BY <1>11
  <2> HIDE DEF out, off, drift, nu, qu, au, nr, qr, ne, qe, ae, nf, qf
  <2> QED
    BY <1>2, <1>4, <2>2, <2>3, <2>4, <2>5
<1>14. -most <= drift /\ drift <= most /\ drift \in Int /\ most \in Int
  <2>1. n - q \in Nat /\ rate - TrueRate \in Int
    BY <1>2, <1>3
  <2>2. -D <= rate - TrueRate /\ rate - TrueRate <= D
    BY <1>2, <1>3
  <2> QED
    BY <1>3, <2>1, <2>2
<1> HIDE DEF off, out, drift, most
<1>15. SizeOf(out) <= s.error + most
  BY <1>2, <1>12, <1>13, <1>14 DEF SizeOf
<1>16. SizeOf(out) <= sample'.error + (n - q) * EspDrift[esp'.estimates] + lag'
  BY <1>2, <1>11, <1>14, <1>15 DEF most, D
<1>17. /\ sample' \in Samples /\ lag' \in Nat
       /\ local' = Unit * n /\ esp'.anchorLocal = Unit * n /\ sample'.local = Unit * q
       /\ q <= n /\ n <= n
  BY <1>11
<1>18. /\ esp'.rate - TrueRate <= EspDrift[esp'.estimates]
       /\ TrueRate - esp'.rate <= EspDrift[esp'.estimates]
  BY <1>3, <1>11 DEF D
<1> QED
  BY <1>11, <1>16, <1>17, <1>18 DEF EspInv, out

LEMMA EspInvNext == EspInv /\ [EspNext]_espVars => EspInv'
<1> SUFFICES ASSUME EspInv, [EspNext]_espVars PROVE EspInv'
  OBVIOUS
<1>1. PICK n \in Int, a \in Int, m \in Int :
        /\ local = Unit * n /\ esp.anchorLocal = Unit * a /\ sample.local = Unit * m
        /\ m <= a /\ a <= n
        /\ esp.valid =>
             SizeOf(esp.anchorUtc + esp.slew - TrueUtc(esp.anchorLocal))
               <= sample.error + (a - m) * EspDrift[esp.estimates] + lag
  BY DEF EspInv
<1>2. CASE TimeGoes
  <2>1. local' = Unit * (n + 1) /\ n + 1 \in Int /\ a <= n + 1
    BY <1>1, <1>2, EspClockAssumption DEF TimeGoes
  <2> QED
    BY <1>1, <1>2, <2>1 DEF TimeGoes, EspInv
<1>3. CASE Sampled
  <2>0. PICK error \in SampleErrors, late \in {0, Unit} :
          \E off \in {-error, error} :
            Update([local |-> local - late,
                    offset |-> TrueUtc(local - late) - (local - late) + off,
                    error |-> error], local)
    BY <1>3 DEF Sampled
  <2>1. PICK off \in {-error, error} :
          Update([local |-> local - late,
                  offset |-> TrueUtc(local - late) - (local - late) + off,
                  error |-> error], local)
    BY <2>0
  <2> DEFINE at == local - late
             s == [local |-> at, offset |-> TrueUtc(at) - at + off, error |-> error]
  <2>2. PICK q \in {n, n - 1} : at = Unit * q
    BY <1>1, EspClockAssumption
  <2>3. TrueUtc(at) \in Int /\ at \in Int /\ error \in Nat /\ off \in Int
    <3>1. q \in Int /\ Unit * q \in Int /\ q * TrueRate \in Int
      BY <1>1, EspClockAssumption
    <3>2. error \in Nat /\ off \in Int
      BY EspClockAssumption
    <3>3. TrueUtc(at) = Unit * q + q * TrueRate
      BY <2>2, <3>1, TrueUtcInSteps
    <3> QED
      BY <2>2, <3>1, <3>2, <3>3
  <2>4. s \in Samples /\ s.local = Unit * q /\ s.error = error
    BY <2>2, <2>3 DEF Samples
  <2>5. s.local + s.offset - TrueUtc(s.local) = off
    BY <2>3
  <2>6. SizeOf(off) <= error
    BY <2>3 DEF SizeOf
  <2>7. Update(s, local)
    BY <2>1
  <2> HIDE DEF s, at
  <2>8. q \in Int /\ q <= n
    OBVIOUS
  <2>9. sample' = s /\ UNCHANGED local
    BY <2>7 DEF Update
  <2>10. CASE /\ esp' = Stepped(esp, s, local)
              /\ lag' = ((local - s.local) * SizeOf(esp.rate)) \div Unit
    BY <1>1, <2>4, <2>5, <2>6, <2>8, <2>9, <2>10, SteppedInv
  <2>11. CASE /\ \E f \in Estimates(esp) :
                   esp' = [Corrected(esp, s, local, f[1]) EXCEPT !.estimates = f[2]]
              /\ lag' = 0
    BY <1>1, <2>4, <2>5, <2>6, <2>8, <2>9, <2>11, CorrectedInv
  <2> QED
    BY <2>7, <2>10, <2>11 DEF Update
<1>4. CASE UNCHANGED espVars
  BY <1>4 DEF espVars, EspInv
<1> QED
  BY <1>2, <1>3, <1>4 DEF EspNext

\* The clock is never further from UTC than the uncertainty it reports
\* (esp_clock_update, esp_clock_uncertainty_ns): for every size of error, drift and
\* slew, however late each sample came.
THEOREM UncertaintyBounds == EspSpec => []UncertaintyIsBound
<1>1. EspSpec => []EspInv
  BY EspInvInit, EspInvNext, PTL DEF EspSpec
<1> QED
  BY <1>1, EspInvBound, PTL

-----------------------------------------------------------------------------
\* The ESP's updates

\* Comparing versions never says that each is later than the other.
LEMMA NewerOneWay ==
  ASSUME NEW v \in Seq(Nat), NEW w \in Seq(Nat), NewerVersion(v, w)
  PROVE  ~NewerVersion(w, v)
<1> SUFFICES ASSUME NewerVersion(w, v) PROVE FALSE
  OBVIOUS
<1>1. \A k \in Nat : VersionPart(v, k) \in Nat /\ VersionPart(w, k) \in Nat
  BY DEF VersionPart
<1>2. PICK k \in DOMAIN v :
        /\ VersionPart(v, k) > VersionPart(w, k)
        /\ \A j \in 1 .. k - 1 : VersionPart(v, j) = VersionPart(w, j)
  BY DEF NewerVersion
<1>3. PICK l \in DOMAIN w :
        /\ VersionPart(w, l) > VersionPart(v, l)
        /\ \A j \in 1 .. l - 1 : VersionPart(w, j) = VersionPart(v, j)
  BY DEF NewerVersion
<1>4. k \in Nat \ {0} /\ l \in Nat \ {0}
  OBVIOUS
<1>5. k < l => k \in 1 .. l - 1
  BY <1>4
<1>6. l < k => l \in 1 .. k - 1
  BY <1>4
<1>7. CASE k < l
  <2>1. VersionPart(w, k) = VersionPart(v, k)
    BY <1>3, <1>5, <1>7
  <2> QED
    BY <1>1, <1>2, <1>4, <2>1
<1>8. CASE l < k
  <2>1. VersionPart(v, l) = VersionPart(w, l)
    BY <1>2, <1>6, <1>8
  <2> QED
    BY <1>1, <1>3, <1>4, <2>1
<1>9. CASE k = l
  <2>1. VersionPart(w, k) > VersionPart(v, k)
    BY <1>3, <1>9
  <2>2. VersionPart(v, k) \in Nat /\ VersionPart(w, k) \in Nat
    BY <1>1, <1>4
  <2>3. VersionPart(v, k) > VersionPart(w, k)
    BY <1>2
  <2> QED
    BY <2>1, <2>2, <2>3
<1> QED
  BY <1>4, <1>7, <1>8, <1>9

Images    == [version : Versions, whole : BOOLEAN]
Schedules == [dayKnown : BOOLEAN, checkedDay : Int, available : BOOLEAN]
Requests  == [phase : {"IDLE", "MANIFEST", "WRITING", "LEFT"}, action : Actions, any : BOOLEAN,
              auto : BOOLEAN, version : Versions, offset : Int]

UpdaterType ==
  /\ hour \in Nat /\ checks \in Nat
  /\ upd \in Requests /\ sched \in Schedules
  /\ images \in [runs : Images, next : Images]

\* The invariant: a check in this hour is in the hour for it, and the day is known to
\* have had it (or not known, and then this hour is skipped); what is being written is
\* later than what runs.
UpdaterInv ==
  /\ UpdaterType
  /\ OnlyWholeImages
  /\ OneCheckAnHour
  /\ checks # 0 => /\ hour % DayHours = AutoHour
                   /\ sched.dayKnown => sched.checkedDay = hour \div DayHours
  /\ upd.phase \in {"WRITING", "LEFT"} /\ ~upd.any =>
       NewerVersion(upd.version, images.runs.version)

LEMMA IdleType == UpdaterIdle \in Requests /\ UpdaterIdle.phase = "IDLE"
  BY UpdaterAssumption DEF UpdaterIdle, Requests, Actions

LEMMA BeginType ==
  ASSUME NEW action \in Actions, NEW any \in BOOLEAN, NEW auto \in BOOLEAN,
         Begin(action, any, auto)
  PROVE  upd' \in Requests /\ upd'.phase = "MANIFEST"
<1>1. "MANIFEST" \in {"IDLE", "MANIFEST", "WRITING", "LEFT"}
  OBVIOUS
<1> QED
  BY <1>1, IdleType, Zenon DEF Begin, Requests

LEMMA UpdaterInvInit == UpdaterInit => UpdaterInv
<1> SUFFICES ASSUME UpdaterInit PROVE UpdaterInv
  OBVIOUS
<1>1. hour \in Nat /\ checks \in Nat
  BY UpdaterAssumption DEF UpdaterInit
<1>2. upd \in Requests /\ sched \in Schedules /\ images \in [runs : Images, next : Images]
  BY IdleType, UpdaterAssumption DEF UpdaterInit, Images, Schedules
<1> QED
  BY <1>1, <1>2, IdleType
  DEF UpdaterInit, UpdaterInv, UpdaterType, OnlyWholeImages, OneCheckAnHour

\* A result of a request, or the next one that it leads to, keeps the type and what
\* is known of the day, and leaves nothing being written.
LEMMA EndsQuiet ==
  ASSUME UpdaterType, NEW found \in BOOLEAN, Ends(found)
  PROVE  /\ sched' \in Schedules
         /\ sched'.dayKnown = sched.dayKnown /\ sched'.checkedDay = sched.checkedDay
         /\ upd' \in Requests /\ upd'.phase \in {"IDLE", "MANIFEST"}
<1>1. (found /\ upd.action = "CHECK") \in BOOLEAN
  OBVIOUS
<1>2. /\ sched' \in Schedules
      /\ sched'.dayKnown = sched.dayKnown /\ sched'.checkedDay = sched.checkedDay
  BY <1>1, Zenon DEF Ends, UpdaterType, Schedules
<1>3. upd' = UpdaterIdle \/ Begin("INSTALL_BOOT", FALSE, FALSE)
  <2>1. CASE found /\ upd.action = "CHECK" /\ upd.auto
    BY <2>1 DEF Ends
  <2>2. CASE ~(found /\ upd.action = "CHECK" /\ upd.auto)
    BY <2>2 DEF Ends
  <2> QED
    BY <2>1, <2>2
<1>4. upd' \in Requests /\ upd'.phase \in {"IDLE", "MANIFEST"}
  <2>1. Begin("INSTALL_BOOT", FALSE, FALSE) => upd' \in Requests /\ upd'.phase = "MANIFEST"
    BY BeginType, Zenon DEF Actions
  <2> QED
    BY <1>3, <2>1, IdleType
<1> QED
  BY <1>2, <1>4

\* A start of an image leaves nothing under way and the day to be found out.
LEMMA RestartsQuiet ==
  ASSUME NEW image \in Images, image.whole, Restarts(image)
  PROVE  /\ images' \in [runs : Images, next : Images] /\ OnlyWholeImages'
         /\ images'.next = image /\ images'.runs = image
         /\ upd' \in Requests /\ upd'.phase = "IDLE"
         /\ sched' \in Schedules /\ ~sched'.dayKnown
  BY IdleType DEF Restarts, OnlyWholeImages, Schedules

\* What is offered is later than what runs, unless forced.
LEMMA OfferedIsNewer ==
  ASSUME NEW profiles \in Manifests, NEW any \in BOOLEAN,
         NEW v \in Offered(profiles, any)
  PROVE  v \in Versions /\ (~any => NewerVersion(v, images.runs.version))
<1>1. PICK k \in DOMAIN profiles :
        /\ v = profiles[k].version
        /\ NewerVersion(profiles[k].version, IF any THEN <<0, 0, 0>> ELSE images.runs.version)
  BY DEF Offered
<1>2. profiles[k] \in Profile
  BY DEF Manifests
<1> QED
  BY <1>1, <1>2 DEF Profile

\* What is known of the day, and a check in this hour.
CheckKnown ==
  checks # 0 => /\ hour % DayHours = AutoHour
                /\ sched.dayKnown => sched.checkedDay = hour \div DayHours

Written ==
  upd.phase \in {"WRITING", "LEFT"} /\ ~upd.any => NewerVersion(upd.version, images.runs.version)

LEMMA UpdaterInvNext == UpdaterInv /\ [UpdaterNext]_updaterVars => UpdaterInv' /\ [UpdatesForward]_updaterVars
<1> SUFFICES ASSUME UpdaterInv, [UpdaterNext]_updaterVars
             PROVE  UpdaterInv' /\ [UpdatesForward]_updaterVars
  OBVIOUS
<1>0. UpdaterType /\ OnlyWholeImages /\ OneCheckAnHour /\ CheckKnown /\ Written
  BY DEF UpdaterInv, CheckKnown, Written
<1>1. (UpdaterType /\ OnlyWholeImages /\ OneCheckAnHour /\ CheckKnown /\ Written)' => UpdaterInv'
  BY DEF UpdaterInv, CheckKnown, Written
<1>2. UNCHANGED images => [UpdatesForward]_updaterVars
  BY DEF UpdatesForward
<1>3. CASE Console
  <2>1. PICK action \in Actions : Begin(action, action = "INSTALL_BOOT", FALSE)
    BY <1>3 DEF Console
  <2>2. upd' \in Requests /\ upd'.phase = "MANIFEST"
    BY <2>1, BeginType
  <2> QED
    BY <1>0, <1>1, <1>2, <1>3, <2>2
    DEF Console, UpdaterType, OnlyWholeImages, OneCheckAnHour, CheckKnown, Written
<1>4. CASE UpdaterService
  <2> DEFINE s == Started(hour)
             today == hour \div DayHours
  <2>1. /\ hour \in Nat /\ checks \in {0, 1} /\ sched \in Schedules
        /\ today \in Int
    BY <1>0, UpdaterAssumption DEF UpdaterType, OneCheckAnHour
  <2>2. /\ s \in Schedules
        /\ checks # 0 => hour % DayHours = AutoHour /\ s.checkedDay = today
    <3>1. CASE sched.dayKnown
      BY <1>0, <2>1, <3>1 DEF Started, CheckKnown
    <3>2. CASE ~sched.dayKnown
      <4> DEFINE day == IF hour % DayHours = AutoHour THEN today ELSE today - 1
      <4>1. day \in Int /\ (hour % DayHours = AutoHour => day = today)
        BY <2>1
      <4>2. s = [sched EXCEPT !.dayKnown = TRUE, !.checkedDay = day]
        BY <3>2 DEF Started
      <4> HIDE DEF day, s, today
      <4>3. s \in Schedules /\ s.checkedDay = day
        BY <2>1, <4>1, <4>2, Zenon DEF Schedules
      <4> QED
        BY <1>0, <4>1, <4>3 DEF CheckKnown
    <3> QED
      BY <3>1, <3>2
  <2>3. UNCHANGED <<hour, images, cuts>>
    BY <1>4 DEF UpdaterService
  <2>4. CASE UNCHANGED <<upd, checks>> /\ sched' = s
    <3> HIDE DEF s
    <3> QED
      BY <1>0, <1>1, <1>2, <2>2, <2>3, <2>4
      DEF UpdaterType, OnlyWholeImages, OneCheckAnHour, CheckKnown, Written, today
  <2>5. CASE /\ s.checkedDay # today /\ hour % DayHours = AutoHour
             /\ Begin("CHECK", FALSE, TRUE)
             /\ sched' = [s EXCEPT !.checkedDay = today]
             /\ checks' = IF checks < 2 THEN checks + 1 ELSE checks
    <3> HIDE DEF s, today
    <3>1. upd' \in Requests /\ upd'.phase = "MANIFEST"
      BY <2>5, BeginType DEF Actions
    <3>2. sched' \in Schedules /\ sched'.checkedDay = today
      BY <2>1, <2>2, <2>5, Zenon DEF Schedules
    <3>3. checks' = 1
      BY <2>1, <2>2, <2>5
    <3> QED
      BY <1>0, <1>1, <1>2, <2>3, <2>5, <3>1, <3>2, <3>3
      DEF UpdaterType, OnlyWholeImages, OneCheckAnHour, CheckKnown, Written, today
  <2> QED
    BY <1>4, <2>4, <2>5 DEF UpdaterService
<1>5. CASE CheckManifest
  <2>1. UNCHANGED <<hour, images, cuts, checks>>
    BY <1>5 DEF CheckManifest
  <2>2. CASE \E found \in BOOLEAN : Ends(found)
    <3>1. /\ sched' \in Schedules
          /\ sched'.dayKnown = sched.dayKnown /\ sched'.checkedDay = sched.checkedDay
          /\ upd' \in Requests /\ upd'.phase \in {"IDLE", "MANIFEST"}
      BY <1>0, <2>2, EndsQuiet
    <3> QED
      BY <1>0, <1>1, <1>2, <2>1, <3>1
      DEF UpdaterType, OnlyWholeImages, OneCheckAnHour, CheckKnown, Written
  <2>3. CASE /\ \E profiles \in Manifests : \E v \in Offered(profiles, upd.any) :
                  upd' = [upd EXCEPT !.phase = "WRITING", !.version = v]
             /\ UNCHANGED sched
    <3>1. PICK profiles \in Manifests : \E v \in Offered(profiles, upd.any) :
            upd' = [upd EXCEPT !.phase = "WRITING", !.version = v]
      BY <2>3
    <3>2. PICK v \in Offered(profiles, upd.any) :
            upd' = [upd EXCEPT !.phase = "WRITING", !.version = v]
      BY <3>1
    <3>3. upd \in Requests /\ upd.any \in BOOLEAN
      BY <1>0 DEF UpdaterType, Requests
    <3>4. v \in Versions /\ (~upd.any => NewerVersion(v, images.runs.version))
      BY <3>3, OfferedIsNewer
    <3>5. /\ upd' \in Requests /\ upd'.any = upd.any /\ upd'.version = v
      <4>1. "WRITING" \in {"IDLE", "MANIFEST", "WRITING", "LEFT"}
        OBVIOUS
      <4> QED
        BY <3>2, <3>3, <3>4, <4>1, Zenon DEF Requests
    <3> QED
      BY <1>0, <1>1, <1>2, <2>1, <2>3, <3>4, <3>5
      DEF UpdaterType, OnlyWholeImages, OneCheckAnHour, CheckKnown, Written
  <2>4. \/ \E found \in BOOLEAN : Ends(found)
        \/ /\ \E profiles \in Manifests : \E v \in Offered(profiles, upd.any) :
                upd' = [upd EXCEPT !.phase = "WRITING", !.version = v]
           /\ UNCHANGED sched
    BY <1>5 DEF CheckManifest
  <2> QED
    BY <2>2, <2>3, <2>4
<1>6. CASE WriteImage
  <2>1. UNCHANGED <<hour, sched, images, cuts, checks>>
    BY <1>6 DEF WriteImage
  <2>2. /\ upd' \in Requests /\ upd'.any = upd.any /\ upd'.version = upd.version
        /\ upd.phase = "WRITING"
    <3>1. upd \in Requests /\ upd.offset + 1 \in Int /\ upd.phase = "WRITING"
      BY <1>0, <1>6 DEF UpdaterType, Requests, WriteImage
    <3>2. "LEFT" \in {"IDLE", "MANIFEST", "WRITING", "LEFT"}
      OBVIOUS
    <3>3. \/ upd' = [upd EXCEPT !.offset = upd.offset + 1]
          \/ upd' = [upd EXCEPT !.phase = "LEFT"]
      BY <1>6 DEF WriteImage
    <3> QED
      BY <3>1, <3>2, <3>3, Zenon DEF Requests
  <2> QED
    BY <1>0, <1>1, <1>2, <2>1, <2>2
    DEF UpdaterType, OnlyWholeImages, OneCheckAnHour, CheckKnown, Written
<1>7. CASE Install
  <2>1. UNCHANGED <<hour, cuts, checks>> /\ upd.phase \in {"WRITING", "LEFT"}
    BY <1>7 DEF Install
  <2>2. /\ Finished(upd) => Image \in Images /\ Image.whole /\ Image.version = upd.version
        /\ upd.version \in Versions /\ images.runs.version \in Versions
    BY <1>0 DEF UpdaterType, Requests, Finished, Image, Images
  <2>3. ~upd.any => /\ NewerVersion(upd.version, images.runs.version)
                    /\ ~NewerVersion(images.runs.version, upd.version)
    BY <1>0, <2>1, <2>2, NewerOneWay, UpdaterAssumption DEF Written
  <2>4. Ends(FALSE) =>
          /\ sched' \in Schedules
          /\ sched'.dayKnown = sched.dayKnown /\ sched'.checkedDay = sched.checkedDay
          /\ upd' \in Requests /\ upd'.phase \in {"IDLE", "MANIFEST"}
    BY <1>0, EndsQuiet
  <2>5. CASE Ends(FALSE) /\ UNCHANGED images
    BY <1>0, <1>1, <1>2, <2>1, <2>4, <2>5
    DEF UpdaterType, OnlyWholeImages, OneCheckAnHour, CheckKnown, Written
  <2>6. CASE Finished(upd) /\ Restarts(Image)
    <3>1. images'.next.version = upd.version
      BY <2>2, <2>6, RestartsQuiet
    <3> QED
      BY <1>0, <1>1, <2>1, <2>2, <2>3, <2>6, <3>1, RestartsQuiet
      DEF UpdaterType, OneCheckAnHour, CheckKnown, Written, UpdatesForward
  <2>7. CASE Finished(upd) /\ Ends(FALSE) /\ images' = [images EXCEPT !.next = Image]
    <3>1. /\ images' \in [runs : Images, next : Images]
          /\ images'.runs = images.runs /\ images'.next = Image
      BY <1>0, <2>2, <2>7, Zenon DEF UpdaterType
    <3>2. UpdaterType' /\ OnlyWholeImages' /\ OneCheckAnHour' /\ CheckKnown' /\ Written'
      BY <1>0, <2>1, <2>2, <2>4, <2>7, <3>1
      DEF UpdaterType, OnlyWholeImages, OneCheckAnHour, CheckKnown, Written
    <3> QED
      BY <1>1, <2>2, <2>3, <2>7, <3>1, <3>2 DEF UpdatesForward
  <2> QED
    BY <1>7, <2>5, <2>6, <2>7 DEF Install
<1>8. CASE UpdaterPowerCut
  <2>1. Restarts(images.next) /\ UNCHANGED <<hour, checks>>
    BY <1>8 DEF UpdaterPowerCut
  <2>2. images.next \in Images /\ images.next.whole
    BY <1>0 DEF UpdaterType, OnlyWholeImages
  <2> QED
    BY <1>0, <1>1, <1>2, <2>1, <2>2, RestartsQuiet
    DEF UpdaterType, OneCheckAnHour, CheckKnown, Written, UpdatesForward
<1>9. CASE HourPasses
  <2>1. hour' \in Nat /\ checks' = 0 /\ UNCHANGED <<upd, sched, images, cuts>>
    BY <1>0, <1>9 DEF HourPasses, UpdaterType
  <2> QED
    BY <1>0, <1>1, <1>2, <2>1
    DEF UpdaterType, OnlyWholeImages, OneCheckAnHour, CheckKnown, Written
<1>10. CASE UNCHANGED updaterVars
  BY <1>0, <1>1, <1>2, <1>10
  DEF updaterVars, UpdaterType, OnlyWholeImages, OneCheckAnHour, CheckKnown, Written
<1> QED
  BY <1>3, <1>4, <1>5, <1>6, <1>7, <1>8, <1>9, <1>10 DEF UpdaterNext

\* An update leaves the ESP able to start and is not begun again and again, and only
\* what is later replaces what is to be started, unless forced (updater_service,
\* install, check_manifest): for every set of versions, however many profiles a
\* manifest has and whenever the power goes.
THEOREM UpdatesAlwaysHold == UpdaterSpec => UpdatesHold
<1>1. UpdaterInv => OnlyWholeImages /\ OneCheckAnHour
  BY DEF UpdaterInv
<1> QED
  BY <1>1, UpdaterInvInit, UpdaterInvNext, PTL DEF UpdaterSpec, UpdatesHold

-----------------------------------------------------------------------------
\* The time zone service

LEMMA NatsHaveLeast ==
  ASSUME NEW S \in SUBSET Nat, S # {}
  PROVE  \E x \in S : \A y \in S : x <= y
<1> DEFINE R == OpToRel(<, Nat)
<1>1. \A x, y \in Nat : x < y => <<x, y>> \in R
  BY DEF OpToRel
<1>2. IsWellFoundedOn(R, Nat)
  BY NatLessThanWellFounded
<1> HIDE DEF R
<1>3. PICK x \in S : \A y \in S : ~(<<y, x>> \in R)
  BY <1>2, WFMin
<1>4. ASSUME NEW y \in S PROVE x <= y
  <2>1. x \in Nat /\ y \in Nat /\ ~(y < x)
    BY <1>1, <1>3
  <2> QED
    BY <2>1
<1> QED
  BY <1>4

Disks   == [db : Nat, good : BOOLEAN, since : Nat, installed : Nat,
            table : [known : SUBSET LeapSteps, expires : Nat], tables : Nat]
Workers == [reader : Nat, signature : Nat, checked : Nat]
Answers == [reader : Nat, had : BOOLEAN, newest : Nat, tai : Int, until : Nat]

ServiceType ==
  /\ disk \in Disks /\ seconds \in Nat /\ worker \in Workers /\ given \in Answers
  /\ worker.checked <= seconds /\ (disk.good => disk.db # 0)

\* A table knows every change before it expires.
TableHolds == disk.table.known = {s \in LeapSteps : s < disk.table.expires}

\* What a worker has open: the database it last found to be good, if it has looked since.
WorkerHolds ==
  /\ worker.signature = worker.reader
  /\ disk.good /\ worker.checked > disk.since => worker.reader = disk.db

\* What it has answered with is open still; the TAI answer is right from now on until
\* it ends.
GivenHolds ==
  /\ given.had => worker.reader # 0
  /\ \A time \in Nat : seconds <= time /\ time < given.until => given.tai = TaiAt(time)

\* The invariant.
ServiceInv == ServiceType /\ TableHolds /\ WorkerHolds /\ GivenHolds /\ ReaderIsKept

LEMMA ServiceInvInit == ServiceInit => ServiceInv
<1> SUFFICES ASSUME ServiceInit PROVE ServiceInv
  OBVIOUS
<1>1. disk \in Disks /\ seconds \in Nat /\ worker \in Workers /\ given \in Answers
  <2>1. disk \in Disks
    <3>1. disk.table \in [known : SUBSET LeapSteps, expires : Nat]
      BY DEF ServiceInit
    <3> QED
      BY <3>1 DEF ServiceInit, Disks
  <2> QED
    BY <2>1 DEF ServiceInit, Workers, Answers, NoWorker, NothingGiven
<1>2. disk.good = FALSE /\ disk.table.known = {} /\ disk.table.expires = 0
  BY DEF ServiceInit
<1>3. TableHolds
  <2>1. \A s \in LeapSteps : ~(s < 0)
    BY ZoneServiceAssumption
  <2> QED
    BY <1>2, <2>1 DEF TableHolds
<1>4. worker.checked <= seconds /\ worker.signature = worker.reader
  BY DEF ServiceInit, NoWorker
<1>5. GivenHolds /\ ReaderIsKept
  BY DEF ServiceInit, GivenHolds, ReaderIsKept, NothingGiven
<1> QED
  BY <1>1, <1>2, <1>3, <1>4, <1>5 DEF ServiceInv, ServiceType, WorkerHolds

\* Looking at the database: a worker as it stands, and one that starts.
LEMMA LookKeeps ==
  ASSUME ServiceInv, NEW w \in Workers, w = Reload(worker, FALSE)
  PROVE  /\ w.checked <= seconds /\ w.signature = w.reader
         /\ disk.good /\ w.checked > disk.since => w.reader = disk.db
         /\ worker.reader # 0 => w.reader # 0
         /\ disk.good /\ seconds - disk.since >= MmdbCheckInterval => w.reader = disk.db
<1>1. /\ disk.db \in Nat /\ disk.since \in Nat /\ seconds \in Nat
      /\ worker \in Workers /\ worker.checked \in Nat /\ worker.checked <= seconds
      /\ worker.reader \in Nat /\ worker.signature = worker.reader /\ MmdbCheckInterval \in Nat
  BY ZoneServiceAssumption DEF ServiceInv, ServiceType, WorkerHolds, Disks, Workers
<1>2. seconds <= seconds
  BY <1>1
<1>3. /\ disk.good => disk.db # 0
      /\ disk.good /\ worker.checked > disk.since => worker.reader = disk.db
  BY DEF ServiceInv, ServiceType, WorkerHolds
<1>4. CASE seconds - worker.checked < MmdbCheckInterval
  <2>1. w = worker
    BY <1>4 DEF Reload
  <2>2. seconds - disk.since >= MmdbCheckInterval => worker.checked > disk.since
    BY <1>1, <1>4
  <2> QED
    BY <1>1, <1>3, <2>1, <2>2, Zenon
<1>5. CASE ~(seconds - worker.checked < MmdbCheckInterval) /\ (disk.db = worker.signature \/ ~disk.good)
  <2>1. w = [worker EXCEPT !.checked = seconds]
    BY <1>5 DEF Reload
  <2>2. w.checked = seconds /\ w.signature = worker.reader /\ w.reader = worker.reader
    BY <1>1, <2>1, Zenon DEF Workers
  <2>3. w.checked <= seconds
    BY <1>2, <2>2, Zenon
  <2> QED
    BY <1>1, <1>5, <1>3, <2>2, <2>3, Zenon
<1>6. CASE ~(seconds - worker.checked < MmdbCheckInterval) /\ disk.db # worker.signature /\ disk.good
  <2>1. w = [checked |-> seconds, signature |-> disk.db, reader |-> disk.db]
    BY <1>6 DEF Reload
  <2>2. w.checked = seconds /\ w.signature = disk.db /\ w.reader = disk.db
    <3> DEFINE read == [checked |-> seconds, signature |-> disk.db, reader |-> disk.db]
    <3>1. read.checked = seconds /\ read.signature = disk.db /\ read.reader = disk.db
      OBVIOUS
    <3> HIDE DEF read
    <3>2. w = read
      BY <2>1 DEF read
    <3> QED
      BY <3>1, <3>2, Zenon
  <2> QED
    BY <1>6, <1>3, <1>2, <2>2, Zenon
<1> QED
  BY <1>4, <1>5, <1>6

LEMMA StartKeeps ==
  ASSUME ServiceInv, NEW w \in Workers, w = Reload(NoWorker, TRUE)
  PROVE  /\ w.checked <= seconds /\ w.signature = w.reader
         /\ disk.good => w.reader = disk.db
<1>1. seconds \in Nat /\ seconds <= seconds /\ disk.db \in Nat
  BY DEF ServiceInv, ServiceType, Disks
<1>2. disk.good => disk.db # 0
  BY DEF ServiceInv, ServiceType
<1>3. CASE disk.db = 0 \/ ~disk.good
  <2>1. w = [NoWorker EXCEPT !.checked = seconds]
    BY <1>3 DEF Reload, NoWorker
  <2>2. w.checked = seconds /\ w.signature = 0 /\ w.reader = 0
    BY <2>1 DEF NoWorker
  <2> QED
    BY <1>1, <1>3, <1>2, <2>2, Zenon
<1>4. CASE disk.db # 0 /\ disk.good
  <2>1. w = [checked |-> seconds, signature |-> disk.db, reader |-> disk.db]
    BY <1>4 DEF Reload, NoWorker
  <2>2. w.checked = seconds /\ w.signature = disk.db /\ w.reader = disk.db
    <3> DEFINE read == [checked |-> seconds, signature |-> disk.db, reader |-> disk.db]
    <3>1. read.checked = seconds /\ read.signature = disk.db /\ read.reader = disk.db
      OBVIOUS
    <3> HIDE DEF read
    <3>2. w = read
      BY <2>1 DEF read
    <3> QED
      BY <3>1, <3>2, Zenon
  <2> QED
    BY <1>1, <2>2, Zenon
<1> QED
  BY <1>3, <1>4

LEMMA ReloadType ==
  ASSUME ServiceInv, NEW w \in Workers, NEW force \in BOOLEAN
  PROVE  Reload(w, force) \in Workers
<1>1. disk.db \in Nat /\ seconds \in Nat
  BY DEF ServiceInv, ServiceType, Disks
<1>2. [w EXCEPT !.checked = seconds] \in Workers
  BY <1>1, Zenon DEF Workers
<1>3. [checked |-> seconds, signature |-> disk.db, reader |-> disk.db] \in Workers
  BY <1>1 DEF Workers
<1> QED
  BY <1>2, <1>3, Zenon DEF Reload

\* A TAI answer: until it ends TAI-UTC is as it was when it was given.
LEMMA TaiHolds ==
  ASSUME ServiceInv, TableUsable(seconds)
  PROVE  /\ TaiOffset(seconds) \in Int /\ ValidUntil(seconds) \in Nat
         /\ \A time \in Nat : seconds <= time /\ time < ValidUntil(seconds) =>
              TaiOffset(seconds) = TaiAt(time)
<1> DEFINE ends == disk.table.expires
           known == disk.table.known
           bounds == {seconds + Validity, ends} \cup NextChanges(seconds)
           until == ValidUntil(seconds)
<1>1. /\ seconds \in Nat /\ ends \in Nat /\ seconds < ends /\ LeapSteps \subseteq Nat
      /\ known = {s \in LeapSteps : s < ends} /\ Validity \in Nat
  BY ZoneServiceAssumption DEF ServiceInv, ServiceType, TableHolds, Disks, TableUsable
<1>2. bounds \in SUBSET Nat /\ bounds # {}
  <2>1. NextChanges(seconds) \subseteq Nat
    BY <1>1 DEF NextChanges
  <2>2. seconds + Validity \in Nat
    BY <1>1
  <2> HIDE DEF ends, known
  <2> QED
    BY <1>1, <2>1, <2>2
<1> HIDE DEF ends, known
<1>3. until \in bounds /\ \A u \in bounds : until <= u
  <2> HIDE DEF bounds
  <2>1. \E t \in bounds : \A u \in bounds : t <= u
    BY <1>2, NatsHaveLeast
  <2> QED
    BY <2>1 DEF ValidUntil, bounds, ends
<1> HIDE DEF until
<1>4. until \in Nat /\ until <= ends /\ \A u \in NextChanges(seconds) : until <= u
  BY <1>2, <1>3
<1>5. ASSUME NEW time \in Nat, seconds <= time, time < until
      PROVE  {s \in known : s <= seconds} = {s \in LeapSteps : s <= time}
  <2>1. ASSUME NEW s \in LeapSteps, s <= time PROVE s \in known /\ s <= seconds
    <3>1. s \in Nat /\ s < ends
      BY <1>1, <1>4, <1>5, <2>1
    <3>2. s \in known
      BY <1>1, <3>1
    <3>3. s > seconds => s \in NextChanges(seconds)
      BY <3>2 DEF NextChanges, known
    <3> QED
      BY <1>1, <1>4, <1>5, <2>1, <3>1, <3>2, <3>3
  <2>2. ASSUME NEW s \in known, s <= seconds PROVE s \in LeapSteps /\ s <= time
    BY <1>1, <1>5, <2>2
  <2> QED
    BY <2>1, <2>2, <1>1
<1>6. TaiOffset(seconds) \in Int
  <2> DEFINE S == {s \in known : s <= seconds}
  <2>1. S \subseteq 0 .. seconds
    <3>1. \A s \in S : s \in Nat /\ s <= seconds
      BY <1>1
    <3> HIDE DEF S
    <3> QED
      BY <1>1, <3>1
  <2>2. IsFiniteSet(0 .. seconds)
    BY <1>1, FS_Interval
  <2> HIDE DEF S
  <2>3. IsFiniteSet(S)
    BY <2>1, <2>2, FS_Subset
  <2>4. Cardinality(S) \in Nat
    BY <2>3, FS_CardinalityType
  <2> QED
    BY <2>4 DEF TaiOffset, S, known
<1> QED
  BY <1>4, <1>5, <1>6 DEF TaiOffset, TaiAt, until, known

LEMMA ServiceInvNext == ServiceInv /\ [ServiceNext]_serviceVars => ServiceInv'
<1> SUFFICES ASSUME ServiceInv, [ServiceNext]_serviceVars PROVE ServiceInv'
  OBVIOUS
<1>0. ServiceType /\ TableHolds /\ WorkerHolds /\ GivenHolds /\ ReaderIsKept
  BY DEF ServiceInv
<1>1. /\ disk \in Disks /\ seconds \in Nat /\ worker \in Workers /\ given \in Answers
      /\ worker.checked <= seconds
  BY <1>0 DEF ServiceType
<1>2. (disk.good => disk.db # 0) /\ disk.db \in Nat /\ disk.since \in Nat /\ disk.installed \in Nat
  BY <1>0 DEF ServiceType, Disks
<1>3. CASE ByAddress
  <2> DEFINE w == Reload(worker, FALSE)
             newest == IF disk.good /\ seconds - disk.since >= MmdbCheckInterval THEN disk.db ELSE 0
             had == given.had \/ w.reader # 0
  <2>1. w \in Workers
    BY <1>1, ReloadType
  <2>2. /\ w.checked <= seconds /\ w.signature = w.reader
        /\ disk.good /\ w.checked > disk.since => w.reader = disk.db
        /\ worker.reader # 0 => w.reader # 0
        /\ disk.good /\ seconds - disk.since >= MmdbCheckInterval => w.reader = disk.db
    BY <2>1, LookKeeps
  <2>3. /\ worker' = w /\ UNCHANGED <<disk, seconds>>
        /\ given' = [given EXCEPT !.reader = w.reader, !.had = had, !.newest = newest]
    BY <1>3 DEF ByAddress
  <2>4. newest \in Nat /\ had \in BOOLEAN /\ w.reader \in Nat
    BY <1>2, <2>1 DEF Workers
  <2>5. newest # 0 => w.reader = newest
    BY <2>2
  <2>6. had => w.reader # 0
    BY <1>0, <2>2 DEF GivenHolds
  <2> HIDE DEF w, newest, had
  <2>7. /\ given' \in Answers /\ given'.reader = w.reader /\ given'.had = had
        /\ given'.newest = newest /\ given'.tai = given.tai /\ given'.until = given.until
    BY <1>1, <2>3, <2>4, Zenon DEF Answers
  <2>8. ServiceType' /\ TableHolds' /\ WorkerHolds'
    BY <1>0, <2>1, <2>2, <2>3, <2>7 DEF ServiceType, TableHolds, WorkerHolds
  <2>9. GivenHolds' /\ ReaderIsKept'
    BY <1>0, <2>3, <2>5, <2>6, <2>7, Zenon DEF GivenHolds, ReaderIsKept, TaiAt
  <2> QED
    BY <2>8, <2>9 DEF ServiceInv
<1>4. CASE Tai
  <2> DEFINE tai == TaiOffset(seconds)
             until == ValidUntil(seconds)
  <2>1. /\ tai \in Int /\ until \in Nat
        /\ \A time \in Nat : seconds <= time /\ time < until => tai = TaiAt(time)
    BY <1>4, TaiHolds DEF Tai
  <2>2. UNCHANGED <<disk, seconds, worker>> /\ given' = [given EXCEPT !.tai = tai, !.until = until]
    BY <1>4 DEF Tai
  <2> HIDE DEF tai, until
  <2>3. /\ given' \in Answers /\ given'.reader = given.reader /\ given'.had = given.had
        /\ given'.newest = given.newest /\ given'.tai = tai /\ given'.until = until
    BY <1>1, <2>1, <2>2, Zenon DEF Answers
  <2>4. ServiceType' /\ TableHolds' /\ WorkerHolds'
    BY <1>0, <2>2, <2>3 DEF ServiceType, TableHolds, WorkerHolds
  <2>5. GivenHolds' /\ ReaderIsKept'
    BY <1>0, <2>1, <2>2, <2>3, Zenon DEF GivenHolds, ReaderIsKept, TaiAt
  <2> QED
    BY <2>4, <2>5 DEF ServiceInv
<1>5. CASE Ready
  <2> DEFINE w == Reload(worker, FALSE)
  <2>1. w \in Workers
    BY <1>1, ReloadType
  <2>2. /\ w.checked <= seconds /\ w.signature = w.reader
        /\ disk.good /\ w.checked > disk.since => w.reader = disk.db
        /\ worker.reader # 0 => w.reader # 0
    BY <2>1, LookKeeps
  <2>3. worker' = w /\ UNCHANGED <<disk, seconds, given>>
    BY <1>5 DEF Ready
  <2> HIDE DEF w
  <2>4. ServiceType' /\ TableHolds' /\ WorkerHolds'
    BY <1>0, <2>1, <2>2, <2>3 DEF ServiceType, TableHolds, WorkerHolds
  <2>5. GivenHolds' /\ ReaderIsKept'
    BY <1>0, <2>2, <2>3, Zenon DEF GivenHolds, ReaderIsKept, TaiAt
  <2> QED
    BY <2>4, <2>5 DEF ServiceInv
<1>6. CASE InstallDb
  <2>1. PICK good \in BOOLEAN, db \in {0, disk.installed + 1} :
          /\ db <= Databases /\ (db = 0 => ~good)
          /\ disk' = [disk EXCEPT !.db = db, !.good = good, !.since = seconds,
                                  !.installed = IF db = 0 THEN disk.installed ELSE db]
    BY <1>6 DEF InstallDb
  <2> DEFINE installed == IF db = 0 THEN disk.installed ELSE db
  <2>2. db \in Nat /\ installed \in Nat
    BY <1>2
  <2> HIDE DEF installed
  <2>3. /\ disk' \in Disks /\ disk'.db = db /\ disk'.good = good /\ disk'.since = seconds
        /\ disk'.table = disk.table
    BY <1>1, <2>1, <2>2, Zenon DEF Disks, installed
  <2>4. UNCHANGED <<seconds, worker, given>>
    BY <1>6 DEF InstallDb
  <2>5. ~(worker.checked > seconds)
    BY <1>1 DEF Workers
  <2>6. ServiceType' /\ TableHolds' /\ WorkerHolds'
    BY <1>0, <2>1, <2>3, <2>4, <2>5, Zenon DEF ServiceType, TableHolds, WorkerHolds
  <2>7. GivenHolds' /\ ReaderIsKept'
    BY <1>0, <2>4, Zenon DEF GivenHolds, ReaderIsKept, TaiAt
  <2> QED
    BY <2>6, <2>7 DEF ServiceInv
<1>7. CASE InstallTable
  <2> DEFINE table == TableOf(seconds)
  <2>1. /\ disk' = [disk EXCEPT !.table = table, !.tables = disk.tables + 1]
        /\ UNCHANGED <<seconds, worker, given>>
    BY <1>7 DEF InstallTable
  <2>2. /\ table \in [known : SUBSET LeapSteps, expires : Nat]
        /\ table.known = {s \in LeapSteps : s < table.expires}
        /\ disk.tables + 1 \in Nat
    BY <1>1, ZoneServiceAssumption DEF TableOf, Disks
  <2> HIDE DEF table
  <2>3. /\ disk' \in Disks /\ disk'.db = disk.db /\ disk'.good = disk.good
        /\ disk'.since = disk.since /\ disk'.table = table
    BY <1>1, <2>1, <2>2, Zenon DEF Disks
  <2>4. ServiceType' /\ TableHolds' /\ WorkerHolds'
    BY <1>0, <2>1, <2>2, <2>3, Zenon DEF ServiceType, TableHolds, WorkerHolds
  <2>5. GivenHolds' /\ ReaderIsKept'
    BY <1>0, <2>1, Zenon DEF GivenHolds, ReaderIsKept, TaiAt
  <2> QED
    BY <2>4, <2>5 DEF ServiceInv
<1>8. CASE SecondPasses
  <2>1. seconds' = seconds + 1 /\ UNCHANGED <<disk, worker, given>>
    BY <1>8 DEF SecondPasses
  <2>2. seconds' \in Nat /\ worker.checked <= seconds'
    BY <1>1, <2>1 DEF Workers
  <2>3. \A time \in Nat : seconds' <= time => seconds <= time
    BY <1>1, <2>1
  <2>4. ServiceType' /\ TableHolds' /\ WorkerHolds'
    BY <1>0, <2>1, <2>2, Zenon DEF ServiceType, TableHolds, WorkerHolds
  <2>5. GivenHolds' /\ ReaderIsKept'
    BY <1>0, <2>1, <2>3, Zenon DEF GivenHolds, ReaderIsKept, TaiAt
  <2> QED
    BY <2>4, <2>5 DEF ServiceInv
<1>9. CASE WorkerStarts
  <2> DEFINE w == Reload(NoWorker, TRUE)
  <2>1. w \in Workers
    <3>1. NoWorker \in Workers
      BY DEF NoWorker, Workers
    <3> QED
      BY <3>1, ReloadType
  <2>2. /\ w.checked <= seconds /\ w.signature = w.reader
        /\ disk.good => w.reader = disk.db
    BY <2>1, StartKeeps
  <2>3. /\ worker' = w /\ UNCHANGED <<disk, seconds>>
        /\ given' = [NothingGiven EXCEPT !.tai = given.tai, !.until = given.until]
    BY <1>9 DEF WorkerStarts
  <2> HIDE DEF w
  <2>4. /\ given' \in Answers /\ given'.had = FALSE /\ given'.newest = 0
        /\ given'.tai = given.tai /\ given'.until = given.until
    <3>1. /\ NothingGiven \in Answers /\ NothingGiven.had = FALSE /\ NothingGiven.newest = 0
          /\ given.tai \in Int /\ given.until \in Nat
      BY <1>1 DEF NothingGiven, Answers
    <3> QED
      BY <2>3, <3>1, Zenon DEF Answers
  <2>5. ServiceType' /\ TableHolds' /\ WorkerHolds'
    BY <1>0, <2>1, <2>2, <2>3, <2>4, Zenon DEF ServiceType, TableHolds, WorkerHolds
  <2>6. GivenHolds' /\ ReaderIsKept'
    BY <1>0, <2>3, <2>4, Zenon DEF GivenHolds, ReaderIsKept, TaiAt
  <2> QED
    BY <2>5, <2>6 DEF ServiceInv
<1>10. CASE UNCHANGED serviceVars
  BY <1>0, <1>10, Zenon
  DEF serviceVars, ServiceInv, ServiceType, TableHolds, WorkerHolds, GivenHolds, ReaderIsKept, TaiAt
<1> QED
  BY <1>3, <1>4, <1>5, <1>6, <1>7, <1>8, <1>9, <1>10, Zenon DEF ServiceNext

\* Files replaced under the service do it no harm (_reload_geoip_if_changed,
\* build_special_response): for every check interval, validity and course of TAI-UTC,
\* and however many databases and tables come, broken, late or not at all.
THEOREM ServiceIsSound == ServiceSpec => []ServiceSound
<1>1. ServiceInv => ServiceSound
  <2> SUFFICES ASSUME ServiceInv PROVE ReaderIsKept /\ TaiUntilValid
    BY DEF ServiceSound
  <2>1. seconds \in Nat /\ seconds <= seconds
    BY DEF ServiceInv, ServiceType
  <2> QED
    BY <2>1, Zenon DEF ServiceInv, GivenHolds, TaiUntilValid
<1> QED
  BY <1>1, ServiceInvInit, ServiceInvNext, PTL DEF ServiceSpec
====
