---------------------------- MODULE TariffPricing ----------------------------
(***************************************************************************)
(* Tariffs and what a charging session costs under them                    *)
(* (internal/model, internal/pricing).                                     *)
(*                                                                         *)
(* Money is an integer number of ticks of 1/10000; a TIME price is per     *)
(* hour.  Energy is in 1/100 kWh, power in kW, durations in minutes (the   *)
(* code has floats for all of them; a duration is cut to the minute here). *)
(***************************************************************************)
EXTENDS Integers, Sequences, FiniteSets, SequencesExt

Unset == -1                 \* a restriction, price or amount that is absent

\* One price component.  The step size takes no part in pricing.
Component(type, price, after) == [type |-> type, price |-> price, after |-> after]
NoComponent == Component("none", 0, 0)

\* When an element applies.  "ended" says that its end date has passed, which
\* the evaluation does not look at.
Always == [days |-> {}, from |-> Unset, to |-> Unset, minKwh |-> Unset, maxKwh |-> Unset,
           minPower |-> Unset, maxPower |-> Unset, minDur |-> Unset, maxDur |-> Unset,
           ended |-> FALSE]

Element(comps, restrictions) == [comps |-> comps, when |-> restrictions]
Tariff(id, currency, elements) == [id |-> id, currency |-> currency, elements |-> elements]
NoTariff == Tariff("none", "none", << >>)

\* The content hash: the currency and the elements, in no order.
Hash(t) == <<t.currency, ToBag(t.elements)>>

-----------------------------------------------------------------------------
(* A session is [kwh, power, avg, day, minute]; avg 0 stands for power.    *)

Duration(s) ==
  LET p == IF s.avg <= 0 THEN s.power ELSE s.avg
  IN  IF p <= 0 THEN 0 ELSE (s.kwh * 60) \div (p * 100)

AtLeast(bound, x) == bound = Unset \/ x >= bound
AtMost(bound, x) == bound = Unset \/ x <= bound

\* An end not after its start is a window over midnight.
Within(from, to, minute) ==
  LET s == IF from = Unset THEN 0 ELSE from
      e == IF to = Unset THEN 24 * 60 ELSE to
  IN  \/ from = Unset /\ to = Unset
      \/ e <= s /\ (minute >= s \/ minute < e)
      \/ minute >= s /\ minute < e

Matches(r, s) ==
  /\ r.days = {} \/ s.day \in r.days
  /\ Within(r.from, r.to, s.minute)
  /\ AtLeast(r.minKwh, s.kwh) /\ AtMost(r.maxKwh, s.kwh)
  /\ AtLeast(r.minPower, s.power) /\ AtMost(r.maxPower, s.power)
  /\ AtLeast(r.minDur, Duration(s)) /\ AtMost(r.maxDur, Duration(s))

\* The first component of a dimension among the elements that match.
First(t, s, dimension) ==
  LET offers == FlattenSeq([i \in DOMAIN t.elements |->
                  IF Matches(t.elements[i].when, s) THEN t.elements[i].comps ELSE << >>])
      of == SelectSeq(offers, LAMBDA c : c.type = dimension)
  IN  IF of = << >> THEN NoComponent ELSE Head(of)

\* A TIME price with a grace threshold bills the time beyond it.
Billable(c, s) == IF Duration(s) < c.after THEN 0 ELSE Duration(s) - c.after

\* The cost of a session, Unset when nothing of the tariff prices it.
CostOf(energy, flat, time, s) ==
  IF NoComponent = energy /\ NoComponent = flat /\ NoComponent = time THEN Unset
  ELSE (energy.price * s.kwh) \div 100 + flat.price + (time.price * Billable(time, s)) \div 60
Evaluate(t, s) == CostOf(First(t, s, "ENERGY"), First(t, s, "FLAT"), First(t, s, "TIME"), s)

-----------------------------------------------------------------------------
(* The sessions prices are compared by.                                    *)

UsableKwh == 6000           \* DefaultVehicle, in 1/100 kWh
Per100km == 1800
Reference == [day |-> "WEDNESDAY", minute |-> 12 * 60]

\* Metered energy: what the battery gets, and the losses of the charger.
Metered(battery, current) ==
  (battery * 100) \div (IF current = "DC" THEN 94 ELSE 89)

Profile(current, tier, avg, battery) ==
  [current |-> current, tier |-> tier, avg |-> avg, kwh |-> Metered(battery, current)]

Profiles ==
  LET km(n) == (Per100km * n) \div 100
      window(percent) == (UsableKwh * percent) \div 100
  IN  [topup100_ac11    |-> Profile("AC", 11, 11, km(100)),
       topup100_ac22    |-> Profile("AC", 22, 22, km(100)),
       topup100_dc150   |-> Profile("DC", 150, 135, km(100)),
       topup100_dc300   |-> Profile("DC", 300, 240, km(100)),
       charge1080_ac11  |-> Profile("AC", 11, 11, window(70)),
       charge1080_ac22  |-> Profile("AC", 22, 22, window(70)),
       charge1080_dc150 |-> Profile("DC", 150, 110, window(70)),
       charge1080_dc300 |-> Profile("DC", 300, 180, window(70)),
       urban_ac22       |-> Profile("AC", 22, 22, km(40)),
       overnight_ac11   |-> Profile("AC", 11, 11, window(90))]

\* Half a kilowatt of slack is none between whole kilowatts.
Supported(p, power, current) == current = p.current /\ power >= p.tier

SessionOf(p, at) ==
  [kwh |-> p.kwh, power |-> p.tier, avg |-> p.avg, day |-> at.day, minute |-> at.minute]

SessionPriceAt(t, power, current, key, at) ==
  IF key \in DOMAIN Profiles /\ Supported(Profiles[key], power, current)
    THEN Evaluate(t, SessionOf(Profiles[key], at)) ELSE Unset

AllPrices(t, power, current) ==
  LET cost(key) == SessionPriceAt(t, power, current, key, Reference)
  IN  [key \in {k \in DOMAIN Profiles : cost(k) # Unset} |-> cost(key)]

\* A DC charger rarely holds its rated power.
Average(power, current) == IF current = "DC" THEN (power * 73) \div 100 ELSE power

\* 10 to 80 % at the charger's own power, or 30 kWh when that is unknown.
HeadlineAt(t, power, current, at) ==
  LET s == IF power <= 0
             THEN [kwh |-> 3000, power |-> 0, avg |-> 0]
             ELSE [kwh |-> Metered((UsableKwh * 70) \div 100, current), power |-> power,
                   avg |-> Average(power, current)]
  IN  Evaluate(t, [kwh |-> s.kwh, power |-> s.power, avg |-> s.avg,
                   day |-> at.day, minute |-> at.minute])

Headline(t, power, current) == HeadlineAt(t, power, current, Reference)

\* A session the user describes: energy for the battery and, perhaps, a power.
CustomPriceAt(t, power, current, c, at) ==
  LET used == IF c.power > 0 THEN c.power ELSE power
  IN  IF c.battery <= 0 \/ power <= 0 \/ power < c.power THEN Unset
      ELSE Evaluate(t, [kwh |-> Metered(c.battery, current), power |-> used,
                        avg |-> Average(used, current), day |-> at.day, minute |-> at.minute])

=============================================================================
