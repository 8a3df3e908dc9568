--------------------------- MODULE PremiumFundProofs ---------------------------
(***************************************************************************)
(* Theorems about the premium fund, for all tokens, sources, prices, rates *)
(* and bounds that FundAssumption admits.                                  *)
(*                                                                         *)
(* An operation works on a frame.  The lemmas say what each step of the    *)
(* code does to a frame (its result is written g, and a relation between f *)
(* and g is named for it), then what an operation makes of the frame it    *)
(* starts with, then that FundInv holds when the frame is stored.          *)
(*                                                                         *)
(* At par (Prices = {WAD}) an amount is its value, so that the total can   *)
(* be compared with the tokens: Surplus is what it has on top of the       *)
(* tokens of the asset and of all that is due, and no pull changes it.     *)
(***************************************************************************)
EXTENDS PremiumFundProperties, FoldLemmas, TLAPS

-----------------------------------------------------------------------------
(* Arithmetic in fixed point.                                              *)

\* Division of integers.
LEMMA DivType ==
    ASSUME NEW a \in Int, NEW b \in Nat \ {0}
    PROVE  a \div b \in Int /\ (a >= 0 => a \div b \in Nat)
OBVIOUS

\* A quotient is found by its bounds.
LEMMA DivUnique ==
    ASSUME NEW a \in Int, NEW b \in Nat \ {0}, NEW q \in Int, q * b <= a, a < q * b + b
    PROVE  a \div b = q
OBVIOUS

\* Products in fixed point are integers, and natural for natural factors.
LEMMA WadMulType ==
    ASSUME NEW a \in Nat, NEW b \in Int
    PROVE  wadMul(a, b) \in Int /\ (b >= 0 => wadMul(a, b) \in Nat)
<1>1. WAD \in Nat \ {0} /\ WAD \div 2 \in Nat
  BY FundAssumption
<1>2. a * b \in Int /\ (b >= 0 => a * b >= 0)
  OBVIOUS
<1> DEFINE c == a * b
<1>3. c + WAD \div 2 \in Int /\ (c >= 0 => c + WAD \div 2 >= 0)
  <2> HIDE DEF c
  <2> QED
    BY <1>1, <1>2 DEF c
<1> QED
  BY <1>1, <1>2, <1>3, DivType DEF wadMul

\* So are quotients.
LEMMA WadDivType ==
    ASSUME NEW a \in Nat, NEW b \in Nat \ {0}
    PROVE  wadDiv(a, b) \in Nat
<1>1. WAD \in Nat \ {0} /\ b \div 2 \in Nat
  BY FundAssumption
<1>2. a * WAD \in Nat
  BY <1>1
<1>3. a * WAD + b \div 2 \in Nat
  BY <1>1, <1>2
<1> QED
  BY <1>3, DivType DEF wadDiv

\* So are quotients that are rounded.
LEMMA DivUpType ==
    ASSUME NEW a \in Int, NEW b \in Nat \ {0}
    PROVE  divUp(a, b) \in Int /\ (a >= 0 => divUp(a, b) \in Nat)
<1>1. a + b \div 2 \in Int /\ (a >= 0 => a + b \div 2 >= 0)
  OBVIOUS
<1> QED
  BY <1>1, DivType DEF divUp

\* At par, amounts are values.
LEMMA ParMul == ASSUME NEW a \in Nat PROVE wadMul(a, WAD) = a
<1>1. WAD \in Nat \ {0}
  BY FundAssumption
<1>2. WAD \div 2 \in Nat /\ WAD \div 2 < WAD
  BY <1>1
<1>3. a * WAD \in Nat
  BY <1>1
<1>4. a * WAD + WAD \div 2 \in Int /\ a * WAD <= a * WAD + WAD \div 2 /\ a * WAD + WAD \div 2 < a * WAD + WAD
  BY <1>1, <1>2, <1>3
<1> QED
  BY <1>1, <1>4, DivUnique DEF wadMul

\* Division by one, in fixed point, changes nothing.
LEMMA ParDiv == ASSUME NEW a \in Nat PROVE wadDiv(a, WAD) = a
BY ParMul DEF wadDiv, wadMul

\* The average of what is worth one is one.
LEMMA ParDivUp == ASSUME NEW a \in Nat \ {0} PROVE divUp(a * WAD, a) = WAD
<1>1. WAD \in Nat \ {0}
  BY FundAssumption
<1>2. a \div 2 \in Nat /\ a \div 2 < a
  OBVIOUS
<1>3. a * WAD \in Nat /\ WAD * a = a * WAD
  BY <1>1
<1>4. a * WAD + a \div 2 \in Int /\ WAD * a <= a * WAD + a \div 2 /\ a * WAD + a \div 2 < WAD * a + a
  BY <1>1, <1>2, <1>3
<1> QED
  BY <1>1, <1>4, DivUnique DEF divUp

-----------------------------------------------------------------------------
(* Frames, which a replenishment works on.                                 *)

Clock == now \in Nat \ {0}

SourceRecords == [lastPremium : Int, rate : Rates \union {0}, updatedAt : 0..now]
AssetRecords == [accumAmount : Nat, rateValue : Nat, applyFrom : 0..now]
TotalRecords == [accum : Int, rate : Nat, updatedAt : 0..now]
Frames ==
    [token : Tokens, balance : AssetRecords, total : TotalRecords, sources : [Sources -> SourceRecords], next : Nat,
     price : Int, held : Nat, amount : Nat, value : Int, expected : Nat, reverted : BOOLEAN]

\* What the source of a frame owes by its rate.
DueIn(f, s) == (now - f.sources[s].updatedAt) * f.sources[s].rate

SamePlace(f, g) ==
    g.token = f.token /\ g.next = f.next /\ g.balance = f.balance /\ g.total = f.total /\ g.price = f.price

\* The source of f pays a part of what is required, and the result is g.
Paid(f, g, s, required) ==
    /\ g \in Frames /\ SamePlace(f, g) /\ g.expected = f.expected
    /\ \A r \in Sources \ {s} : g.sources[r] = f.sources[r]
    /\ g.sources[s] = [f.sources[s] EXCEPT !.lastPremium = @ + g.value]
    /\ g.held = f.held + g.amount /\ g.value <= required
    /\ ~g.reverted => ~f.reverted /\ g.value >= 0

\* The source of f is pulled, and the result is g.
Collected(f, g, s, increment) ==
    /\ g \in Frames /\ SamePlace(f, g) /\ g.expected = DueIn(f, s)
    /\ \A r \in Sources \ {s} : g.sources[r] = f.sources[r]
    /\ g.sources[s].rate = f.sources[s].rate /\ g.sources[s].updatedAt = now
    /\ g.sources[s].lastPremium <= f.sources[s].lastPremium + most(increment, DueIn(f, s))
    /\ f.sources[s].updatedAt = now => g.sources[s].lastPremium = f.sources[s].lastPremium
    /\ g.held = f.held + g.amount
    /\ ~g.reverted => /\ ~f.reverted /\ g.value >= 0
                      /\ g.sources[s].lastPremium >= f.sources[s].lastPremium

\* A source has a rate that was reported, or none.
LEMMA RatesAreNatural == \A r \in Rates \union {0} : r \in Nat
BY FundAssumption

\* What is due by the rate is what the code expects as supply.
LEMMA DueType ==
    ASSUME Clock, NEW f \in Frames, NEW s \in Sources
    PROVE  DueIn(f, s) \in Nat /\ DueIn(f, s) = expectedSupply(f.sources[s])
           /\ (f.sources[s].updatedAt = now => DueIn(f, s) = 0)
<1>1. f.sources[s] \in SourceRecords
  BY DEF Frames
<1>2. f.sources[s].rate \in Nat /\ f.sources[s].updatedAt \in 0..now
  <2>1. f.sources[s].rate \in Rates \union {0} /\ f.sources[s].updatedAt \in 0..now
    BY <1>1 DEF SourceRecords
  <2> QED
    BY <2>1, RatesAreNatural
<1>3. now - f.sources[s].updatedAt \in Nat
  BY <1>2 DEF Clock
<1> QED
  BY <1>2, <1>3 DEF DueIn, expectedSupply

expecting(f, expected) == [f EXCEPT !.amount = 0, !.value = 0, !.expected = expected]

\* A frame that has nothing but a new expectation.
LEMMA ExpectingType ==
    ASSUME NEW f \in Frames, NEW expected \in Nat, NEW g, g = expecting(f, expected)
    PROVE  /\ g \in Frames /\ SamePlace(f, g) /\ g.sources = f.sources /\ g.held = f.held
           /\ g.reverted = f.reverted /\ g.amount = 0 /\ g.value = 0 /\ g.expected = expected
<1>1. PICK zero \in Nat : zero = 0
  OBVIOUS
<1>2. g = [f EXCEPT !.amount = zero, !.value = zero, !.expected = expected] /\ zero \in Int
  BY <1>1 DEF expecting
<1>3. /\ g \in Frames /\ SamePlace(f, g) /\ g.sources = f.sources /\ g.held = f.held
      /\ g.reverted = f.reverted /\ g.amount = zero /\ g.value = zero /\ g.expected = expected
  BY ONLY f \in Frames, zero \in Nat, expected \in Nat, <1>2 DEF Frames, SamePlace
<1> QED
  BY <1>1, <1>3

\* A source pays a part, in collected.
LEMMA CollectedType ==
    ASSUME Clock, NEW f \in Frames, NEW s \in Sources,
           NEW paid \in Nat, NEW unpaid \in Nat, NEW required \in Nat, NEW price \in Nat \ {0},
           NEW g, g = collected(f, s, paid, unpaid, required, price)
    PROVE  Paid(f, g, s, required) /\ g.amount = paid /\ g.value = required - wadMul(unpaid, price)
<1> DEFINE unpaidValue == wadMul(unpaid, price)
<1>1. unpaidValue \in Nat
  BY WadMulType
<1> HIDE DEF unpaidValue
<1>2. g = [f EXCEPT !.amount = paid, !.value = required - unpaidValue,
                    !.sources[s].lastPremium = @ + required - unpaidValue,
                    !.held = @ + paid, !.reverted = @ \/ required < unpaidValue]
  BY DEF collected, unpaidValue
<1>3. f.sources[s] \in SourceRecords /\ f.sources \in [Sources -> SourceRecords]
  BY DEF Frames
<1>4. f.sources[s].lastPremium \in Int
  BY <1>3 DEF SourceRecords
<1>5. g.sources = [f.sources EXCEPT ![s].lastPremium = @ + required - unpaidValue]
      /\ g.value = required - unpaidValue
  BY <1>2 DEF Frames
<1>6. f.sources[s].lastPremium + required - unpaidValue = f.sources[s].lastPremium + g.value
      /\ g.value \in Int /\ g.value <= required /\ f.sources[s].lastPremium + g.value \in Int
  BY <1>1, <1>4, <1>5
<1>7. g.sources[s] = [f.sources[s] EXCEPT !.lastPremium = @ + g.value]
  BY <1>3, <1>5, <1>6 DEF SourceRecords
<1>8. g.sources[s] \in SourceRecords
  BY <1>3, <1>6, <1>7 DEF SourceRecords
<1>9. /\ g.sources \in [Sources -> SourceRecords]
      /\ \A r \in Sources \ {s} : g.sources[r] = f.sources[r]
  BY <1>3, <1>5, <1>8
<1>10. g.held = f.held + paid /\ g.held \in Nat /\ g.amount = paid /\ g.expected = f.expected
  BY <1>2 DEF Frames
<1>11. g.reverted = (f.reverted \/ required < unpaidValue) /\ f.reverted \in BOOLEAN
  BY <1>2 DEF Frames
<1>12. g.reverted \in BOOLEAN
  BY <1>11
<1>13. ~g.reverted => ~f.reverted /\ g.value >= 0
  <2>1. ~g.reverted => ~f.reverted /\ ~(required < unpaidValue)
    BY <1>11
  <2> QED
    BY <1>1, <1>5, <2>1
<1>14. g = [f EXCEPT !.amount = paid, !.value = g.value, !.sources = g.sources, !.held = g.held, !.reverted = g.reverted]
  BY <1>2, <1>5, <1>10, <1>11 DEF Frames
<1>15. g \in Frames /\ SamePlace(f, g)
  BY <1>6, <1>9, <1>10, <1>12, <1>14 DEF Frames, SamePlace
<1> QED
  BY <1>5, <1>6, <1>7, <1>9, <1>10, <1>13, <1>15 DEF Paid, unpaidValue

\* A source pays a part, in _collectPremium.
LEMMA CollectPremiumType ==
    ASSUME Clock, NEW f \in Frames, f.amount = 0, f.value = 0, NEW s \in Sources, NEW required \in Nat,
           NEW pay \in Pays, NEW g, g = collectPremium(f, s, required, pay)
    PROVE  Paid(f, g, s, required) /\ (pay.price = WAD => g.value = g.amount)
<1>1. pay.price \in Nat \ {0} /\ pay.most \in Nat
  <2>1. pay.price \in Prices /\ pay.most \in Payments
    BY DEF Pays
  <2> QED
    BY <2>1, FundAssumption
<1>2. CASE required = 0
  <2>1. g = f
    BY <1>2 DEF collectPremium
  <2>2. f.sources[s] \in SourceRecords
    BY DEF Frames
  <2>3. f.sources[s] = [f.sources[s] EXCEPT !.lastPremium = @ + f.value]
    BY <2>2 DEF SourceRecords
  <2>4. f.held = f.held + f.amount
    BY DEF Frames
  <2>5. SamePlace(f, f)
    BY DEF SamePlace
  <2> QED
    BY <1>2, <2>1, <2>3, <2>4, <2>5 DEF Paid
<1>3. CASE required # 0
  <2> DEFINE amount == wadDiv(required, pay.price)
             paid == least(pay.most, amount)
             unpaid == amount - paid
  <2>1. amount \in Nat
    BY <1>1, WadDivType
  <2>2. paid \in Nat /\ unpaid \in Nat /\ paid + unpaid = amount
    BY <1>1, <2>1 DEF least
  <2>3. g = collected(f, s, paid, unpaid, required, pay.price)
    BY <1>3 DEF collectPremium, collectAmount
  <2>4. ASSUME pay.price = WAD PROVE required - wadMul(unpaid, pay.price) = paid
    <3>1. amount = required
      BY <2>4, ParDiv
    <3>2. wadMul(unpaid, pay.price) = unpaid
      BY <2>2, <2>4, ParMul
    <3> HIDE DEF paid, unpaid, amount
    <3> QED
      BY <2>2, <3>1, <3>2
  <2> HIDE DEF amount, paid, unpaid
  <2>5. Paid(f, g, s, required) /\ g.amount = paid /\ g.value = required - wadMul(unpaid, pay.price)
    <3>1. pay.price \in Nat \ {0} /\ paid \in Nat /\ unpaid \in Nat
      BY <1>1, <2>2
    <3> QED
      BY ONLY Clock, f \in Frames, s \in Sources, required \in Nat, <2>3, <3>1, CollectedType
  <2> QED
    BY <2>4, <2>5
<1> QED
  BY <1>2, <1>3

\* _replenishFn.
LEMMA ReplenishFnType ==
    ASSUME Clock, NEW f \in Frames, NEW s \in Sources, NEW increment \in Nat, NEW pay \in Pays,
           NEW g, g = replenishFn(f, s, increment, pay)
    PROVE  Collected(f, g, s, increment) /\ (pay.price = WAD => g.value = g.amount)
<1> DEFINE due == DueIn(f, s)
<1>1. due \in Nat /\ due = expectedSupply(f.sources[s]) /\ (f.sources[s].updatedAt = now => due = 0)
  BY DueType
<1>2. f.sources[s] \in SourceRecords /\ f.sources \in [Sources -> SourceRecords] /\ f.held \in Nat
  BY DEF Frames
<1>3. f.sources[s].lastPremium \in Int
  BY <1>2 DEF SourceRecords
<1>4. most(increment, due) \in Nat
  BY <1>1 DEF most
<1> HIDE DEF due
<1>5. CASE f.sources[s].updatedAt = now
  <2>1. g = expecting(f, due)
    BY <1>1, <1>5 DEF replenishFn, expecting
  <2>2. /\ g \in Frames /\ SamePlace(f, g) /\ g.sources = f.sources /\ g.held = f.held
        /\ g.reverted = f.reverted /\ g.amount = 0 /\ g.value = 0 /\ g.expected = due
    BY <1>1, <2>1, ExpectingType
  <2>3. g.held = f.held + g.amount
    BY <1>2, <2>2
  <2>4. g.sources[s].lastPremium <= f.sources[s].lastPremium + most(increment, due)
    BY <1>3, <1>4, <2>2
  <2>5. g.sources[s].lastPremium >= f.sources[s].lastPremium /\ g.value >= 0
    BY <1>3, <2>2
  <2> QED
    BY <1>1, <1>5, <2>2, <2>3, <2>4, <2>5 DEF Collected, due
<1>6. CASE f.sources[s].updatedAt # now
  <2> DEFINE d == expecting(f, due)
             e == expectSupply(f, s)
  <2>1. /\ d \in Frames /\ SamePlace(f, d) /\ d.sources = f.sources /\ d.held = f.held
        /\ d.reverted = f.reverted /\ d.amount = 0 /\ d.value = 0 /\ d.expected = due
    <3> HIDE DEF d
    <3> QED
      BY <1>1, ExpectingType DEF d
  <2>2. e = [d EXCEPT !.sources[s].updatedAt = now]
    BY <1>1 DEF expectSupply, expecting, Frames
  <2>3. g = collectPremium(e, s, most(increment, due), pay)
    BY <1>1, <1>6 DEF replenishFn
  <2> HIDE DEF d, e
  <2>4. e.sources = [f.sources EXCEPT ![s].updatedAt = now]
    BY <2>1, <2>2 DEF Frames
  <2>5. [f.sources[s] EXCEPT !.updatedAt = now] \in SourceRecords
    BY <1>2 DEF SourceRecords, Clock
  <2>6. e.sources \in [Sources -> SourceRecords] /\ e.sources[s] = [f.sources[s] EXCEPT !.updatedAt = now]
        /\ \A r \in Sources \ {s} : e.sources[r] = f.sources[r]
    BY <1>2, <2>4, <2>5
  <2>7. e \in Frames /\ SamePlace(f, e) /\ e.held = f.held /\ e.reverted = f.reverted
        /\ e.amount = 0 /\ e.value = 0 /\ e.expected = due
    BY <2>1, <2>2, <2>6 DEF Frames, SamePlace
  <2>8. Paid(e, g, s, most(increment, due)) /\ (pay.price = WAD => g.value = g.amount)
    BY <1>4, <2>3, <2>7, CollectPremiumType
  <2>9. g \in Frames /\ SamePlace(f, g) /\ g.held = f.held + g.amount /\ g.expected = due
        /\ (~g.reverted => ~f.reverted /\ g.value >= 0) /\ g.value <= most(increment, due)
        /\ \A r \in Sources \ {s} : g.sources[r] = f.sources[r]
    BY <2>6, <2>7, <2>8 DEF Paid, SamePlace
  <2>10. g.sources[s].rate = f.sources[s].rate /\ g.sources[s].updatedAt = now
         /\ g.sources[s].lastPremium = f.sources[s].lastPremium + g.value
    BY <1>2, <2>6, <2>8 DEF SourceRecords, Paid
  <2>11. g.value \in Int
    BY <2>9 DEF Frames
  <2>12. g.sources[s].lastPremium <= f.sources[s].lastPremium + most(increment, due)
         /\ (g.value >= 0 => g.sources[s].lastPremium >= f.sources[s].lastPremium)
    BY <1>3, <1>4, <2>9, <2>10, <2>11
  <2> QED
    BY <1>6, <2>8, <2>9, <2>10, <2>12 DEF Collected, due
<1> QED
  BY <1>5, <1>6

\* _applyRateFromBalanceUpdate gives no date in the future.
LEMMA AppliesFromType ==
    ASSUME Clock, NEW b \in AssetRecords, NEW expected \in Nat
    PROVE  balanceAppliesFrom(b, expected) \in 0..now
<1>1. now \in Nat /\ b.applyFrom \in 0..now /\ b.rateValue \in Nat
  BY DEF AssetRecords, Clock
<1> DEFINE rate == b.rateValue
           delay == (expected + rate - 1) \div rate
<1>2. ASSUME rate # 0, expected > 0 PROVE delay \in Nat
  <2>1. expected + rate - 1 \in Nat /\ rate \in Nat \ {0}
    BY <1>1, <1>2
  <2> QED
    BY <2>1, DivType
<1> HIDE DEF delay
<1>3. ASSUME rate # 0, expected > 0 PROVE least(b.applyFrom + delay, now) \in 0..now
  BY <1>1, <1>2, <1>3 DEF least
<1>4. balanceAppliesFrom(b, expected) =
        IF b.applyFrom = 0 \/ rate = 0 THEN now
        ELSE IF expected > 0 THEN least(b.applyFrom + delay, now) ELSE b.applyFrom
  BY DEF balanceAppliesFrom, delay
<1> HIDE DEF rate
<1>5. CASE b.applyFrom = 0 \/ rate = 0
  BY <1>1, <1>4, <1>5
<1>6. CASE ~(b.applyFrom = 0 \/ rate = 0) /\ expected > 0
  BY <1>3, <1>4, <1>6
<1>7. CASE ~(b.applyFrom = 0 \/ rate = 0) /\ ~(expected > 0)
  BY <1>1, <1>4, <1>7
<1> QED
  BY <1>5, <1>6, <1>7

\* The average price is a natural number.
LEMMA AverageType ==
    ASSUME NEW amount \in Nat, NEW price \in Int, NEW newAmount \in Nat, NEW newValue \in Int
    PROVE  /\ averagePrice(amount, price, newAmount, newValue) \in Int
           /\ price >= 0 /\ newValue >= 0 => averagePrice(amount, price, newAmount, newValue) >= 0
<1> DEFINE value == newValue * WAD + amount * price
           total == amount + newAmount
<1>1. value \in Int /\ (price >= 0 /\ newValue >= 0 => value >= 0)
  <2>1. WAD \in Nat
    BY FundAssumption
  <2>2. newValue * WAD \in Int /\ amount * price \in Int
    BY <2>1
  <2>3. ASSUME price >= 0, newValue >= 0 PROVE newValue * WAD >= 0 /\ amount * price >= 0
    BY <2>1, <2>3
  <2> QED
    BY <2>2, <2>3
<1>2. total \in Nat
  OBVIOUS
<1>3. averagePrice(amount, price, newAmount, newValue) = IF total = 0 THEN 0 ELSE divUp(value, total)
  BY DEF averagePrice
<1> HIDE DEF value, total
<1>4. CASE total = 0
  BY <1>3, <1>4
<1>5. CASE total # 0
  BY <1>1, <1>2, <1>3, <1>5, DivUpType
<1> QED
  BY <1>4, <1>5

\* The average of prices at par is at par.
LEMMA AverageAtPar ==
    ASSUME NEW amount \in Nat, NEW price, amount > 0 => price = WAD, NEW newAmount \in Nat, price \in Int
    PROVE  amount + newAmount > 0 => averagePrice(amount, price, newAmount, newAmount) = WAD
<1> SUFFICES ASSUME amount + newAmount > 0
             PROVE  divUp(newAmount * WAD + amount * price, amount + newAmount) = WAD
  BY DEF averagePrice
<1>1. WAD \in Nat
  BY FundAssumption
<1>2. amount * price = amount * WAD
  <2>1. CASE amount = 0
    BY <1>1, <2>1
  <2>2. CASE amount > 0
    BY <2>2
  <2> QED
    BY <2>1, <2>2
<1>3. newAmount * WAD + amount * WAD = (amount + newAmount) * WAD
  BY <1>1
<1>4. amount + newAmount \in Nat \ {0}
  OBVIOUS
<1>5. newAmount * WAD + amount * price = (amount + newAmount) * WAD
  BY <1>2, <1>3
<1> QED
  BY <1>4, <1>5, ParDivUp

\* An asset with tokens is priced at par.
PricedAtPar(f) == f.balance.accumAmount > 0 => f.price = WAD

\* A source has been pulled, and what it paid is put into the balancer.
Pulled(f, g, s, increment) ==
    /\ g \in Frames /\ g.token = f.token /\ g.next = f.next
    /\ \A r \in Sources \ {s} : g.sources[r] = f.sources[r]
    /\ g.sources[s].rate = f.sources[s].rate /\ g.sources[s].updatedAt = now
    /\ g.sources[s].lastPremium <= f.sources[s].lastPremium + most(increment, DueIn(f, s))
    /\ f.sources[s].updatedAt = now => g.sources[s].lastPremium = f.sources[s].lastPremium
    /\ g.held = f.held + g.amount
    /\ g.balance.accumAmount = f.balance.accumAmount + g.amount
    /\ g.balance.rateValue = f.balance.rateValue
    /\ g.total.rate = f.total.rate /\ g.total.updatedAt = f.total.updatedAt
    /\ g.total.accum = f.total.accum - DueIn(f, s) + g.value
    /\ ~g.reverted => /\ ~f.reverted /\ g.value >= 0
                      /\ g.sources[s].lastPremium >= f.sources[s].lastPremium
                      /\ f.total.accum >= 0 => g.total.accum >= 0
                      /\ f.price >= 0 => g.price >= 0

\* _replenishAsset.
LEMMA ReplenishType ==
    ASSUME Clock, NEW f \in Frames, NEW s \in Sources, NEW increment \in Nat, NEW pay \in Pays,
           NEW g, g = replenish(f, s, increment, pay)
    PROVE  /\ Pulled(f, g, s, increment)
           /\ pay.price = WAD => g.value = g.amount
           /\ pay.price = WAD /\ PricedAtPar(f) => PricedAtPar(g)
<1> DEFINE e == replenishFn(f, s, increment, pay)
           due == DueIn(f, s)
<1>1. Collected(f, e, s, increment) /\ (pay.price = WAD => e.value = e.amount) /\ g = restock(e)
  <2>1. Collected(f, e, s, increment) /\ (pay.price = WAD => e.value = e.amount)
    BY ReplenishFnType
  <2> QED
    BY <2>1 DEF replenish
<1>2. due \in Nat
  BY DueType
<1> HIDE DEF e, due
<1>3. e \in Frames /\ e.balance = f.balance /\ e.total = f.total /\ e.price = f.price /\ e.expected = due
      /\ e.held = f.held + e.amount /\ e.token = f.token /\ e.next = f.next
  BY <1>1 DEF Collected, SamePlace, due
<1>4. /\ \A r \in Sources \ {s} : e.sources[r] = f.sources[r]
      /\ e.sources[s].rate = f.sources[s].rate /\ e.sources[s].updatedAt = now
      /\ e.sources[s].lastPremium <= f.sources[s].lastPremium + most(increment, due)
      /\ f.sources[s].updatedAt = now => e.sources[s].lastPremium = f.sources[s].lastPremium
      /\ ~e.reverted => /\ ~f.reverted /\ e.value >= 0
                        /\ e.sources[s].lastPremium >= f.sources[s].lastPremium
  BY <1>1 DEF Collected, due
<1>5. f.balance \in AssetRecords /\ f.total \in TotalRecords /\ f.price \in Int /\ e.amount \in Nat /\ e.value \in Int
      /\ e.reverted \in BOOLEAN /\ f.reverted \in BOOLEAN
  BY <1>3 DEF Frames
<1>6. f.balance.accumAmount \in Nat /\ f.total.accum \in Int
  BY <1>5 DEF AssetRecords, TotalRecords
<1>7. CASE e.amount = 0 /\ e.expected = 0
  <2>1. PICK zero \in Int : zero = 0
    OBVIOUS
  <2>2. g = [e EXCEPT !.value = zero]
    BY <1>1, <1>7, <2>1 DEF restock
  <2>3. g \in Frames /\ SamePlace(e, g) /\ g.sources = e.sources /\ g.held = e.held /\ g.amount = e.amount
        /\ g.reverted = e.reverted /\ g.value = zero
    BY ONLY <1>3, <2>2, zero \in Int DEF Frames, SamePlace
  <2>4. g.balance = f.balance /\ g.total = f.total /\ g.price = f.price /\ g.token = f.token /\ g.next = f.next
    BY <1>3, <2>3 DEF SamePlace
  <2>5. /\ g.balance.accumAmount = f.balance.accumAmount + g.amount
        /\ g.total.accum = f.total.accum - due + g.value
        /\ g.value >= 0 /\ g.value = g.amount
    BY <1>3, <1>6, <1>7, <2>1, <2>3, <2>4
  <2>6. PricedAtPar(f) => PricedAtPar(g)
    BY <2>4 DEF PricedAtPar
  <2>7. ~g.reverted => /\ ~f.reverted /\ g.value >= 0
                       /\ g.sources[s].lastPremium >= f.sources[s].lastPremium
    BY <1>4, <2>3, <2>5
  <2> QED
    BY <1>3, <1>4, <2>3, <2>4, <2>5, <2>6, <2>7 DEF Pulled, due
<1>8. CASE ~(e.amount = 0 /\ e.expected = 0)
  <2> DEFINE value == IF e.amount = 0 THEN 0 ELSE e.value
             from == balanceAppliesFrom(e.balance, IF e.balance.accumAmount + e.amount = 0 THEN 0 ELSE e.expected)
             price == averagePrice(e.balance.accumAmount, e.price, e.amount, value)
  <2>1. value \in Int /\ (e.value >= 0 => value >= 0)
    BY <1>5
  <2>2. from \in 0..now
    <3>1. (IF e.balance.accumAmount + e.amount = 0 THEN 0 ELSE e.expected) \in Nat
      BY <1>2, <1>3
    <3> QED
      BY <1>3, <1>5, <3>1, AppliesFromType
  <2>3. price \in Int /\ (f.price >= 0 /\ e.value >= 0 => price >= 0)
    <3> HIDE DEF value
    <3> QED
      BY <1>3, <1>5, <1>6, <2>1, AverageType
  <2>4. g = [e EXCEPT !.value = value,
                      !.total.accum = @ - e.expected + value,
                      !.balance.accumAmount = @ + e.amount,
                      !.balance.applyFrom = from,
                      !.price = price,
                      !.reverted = @ \/ e.total.accum < e.expected]
    BY <1>1, <1>8 DEF restock, restocked
  <2>5. ASSUME e.value = e.amount PROVE value = e.amount
    BY <2>5
  <2>6. ASSUME e.value = e.amount, PricedAtPar(f), f.balance.accumAmount + e.amount > 0
        PROVE  price = WAD
    <3>1. price = averagePrice(f.balance.accumAmount, f.price, e.amount, e.amount)
      BY <1>3, <2>5, <2>6
    <3> QED
      BY <1>5, <1>6, <2>6, <3>1, AverageAtPar DEF PricedAtPar
  <2> HIDE DEF value, from, price
  <2>7. /\ g.value = value /\ g.price = price /\ g.token = e.token /\ g.next = e.next /\ g.sources = e.sources
        /\ g.held = e.held /\ g.amount = e.amount /\ g.expected = e.expected
        /\ g.total = [e.total EXCEPT !.accum = @ - e.expected + value]
        /\ g.balance = [e.balance EXCEPT !.accumAmount = @ + e.amount, !.applyFrom = from]
        /\ g.reverted = (e.reverted \/ e.total.accum < e.expected)
    BY <1>3, <2>4 DEF Frames
  <2>8. g.total.accum = f.total.accum - due + value /\ g.total.rate = f.total.rate
        /\ g.total.updatedAt = f.total.updatedAt /\ g.total \in TotalRecords
    BY <1>2, <1>3, <1>5, <2>1, <2>7 DEF TotalRecords
  <2>9. g.balance.accumAmount = f.balance.accumAmount + e.amount /\ g.balance.rateValue = f.balance.rateValue
        /\ g.balance \in AssetRecords
    <3>1. g.balance = [f.balance EXCEPT !.accumAmount = f.balance.accumAmount + e.amount, !.applyFrom = from]
      BY <1>3, <2>7
    <3>2. f.balance.accumAmount + e.amount \in Nat
      BY <1>5, <1>6
    <3> QED
      BY <1>5, <2>2, <3>1, <3>2 DEF AssetRecords
  <2>10. g.reverted \in BOOLEAN /\ (~g.reverted => ~e.reverted /\ ~(f.total.accum < due))
    BY <1>3, <1>5, <2>7
  <2>11. g = [e EXCEPT !.value = g.value, !.total = g.total, !.balance = g.balance, !.price = g.price,
                       !.reverted = g.reverted]
    BY <1>3, <2>4, <2>7 DEF Frames
  <2>12. g \in Frames
    BY <1>3, <2>1, <2>3, <2>7, <2>8, <2>9, <2>10, <2>11 DEF Frames
  <2>13. ~g.reverted => /\ ~f.reverted /\ g.value >= 0
                        /\ g.sources[s].lastPremium >= f.sources[s].lastPremium
                        /\ f.total.accum >= 0 => g.total.accum >= 0
                        /\ f.price >= 0 => g.price >= 0
    <3> SUFFICES ASSUME ~g.reverted
                 PROVE  /\ ~f.reverted /\ g.value >= 0
                        /\ g.sources[s].lastPremium >= f.sources[s].lastPremium
                        /\ f.total.accum >= 0 => g.total.accum >= 0
                        /\ f.price >= 0 => g.price >= 0
      OBVIOUS
    <3>1. ~e.reverted /\ ~(f.total.accum < due)
      BY <2>10
    <3>2. ~f.reverted /\ e.value >= 0 /\ e.sources[s].lastPremium >= f.sources[s].lastPremium
      BY <1>4, <3>1
    <3>3. value >= 0
      BY <2>1, <3>2
    <3>4. g.total.accum >= 0
      BY <1>2, <1>6, <2>1, <2>8, <3>1, <3>3
    <3> QED
      BY <2>3, <2>7, <3>2, <3>3, <3>4
  <2>14. Pulled(f, g, s, increment)
    BY <1>3, <1>4, <2>7, <2>8, <2>9, <2>12, <2>13 DEF Pulled, due
  <2>15. pay.price = WAD => g.value = g.amount
    BY <1>1, <2>5, <2>7
  <2>16. pay.price = WAD /\ PricedAtPar(f) => PricedAtPar(g)
    BY <1>1, <2>6, <2>7, <2>9 DEF PricedAtPar
  <2> QED
    BY <2>14, <2>15, <2>16
<1> QED
  BY <1>7, <1>8

\* _applyRateFrom gives no date in the future.
LEMMA RateAppliesFromType ==
    ASSUME Clock, NEW oldRate \in Nat, NEW newRate \in Nat, NEW applyFrom \in 0..now
    PROVE  rateAppliesFrom(oldRate, newRate, applyFrom) \in 0..now
<1> DEFINE back == (oldRate * (now - applyFrom) + newRate - 1) \div newRate
<1>1. now \in Nat \ {0}
  BY DEF Clock
<1>2. ASSUME newRate # 0 PROVE back \in Nat
  <2>1. now - applyFrom \in Nat
    BY <1>1
  <2>2. oldRate * (now - applyFrom) \in Nat
    BY <2>1
  <2>3. oldRate * (now - applyFrom) + newRate - 1 \in Nat
    BY <1>2, <2>2
  <2> QED
    BY <1>2, <2>3, DivType
<1>3. rateAppliesFrom(oldRate, newRate, applyFrom) =
        IF oldRate = 0 \/ newRate = 0 \/ applyFrom = 0 THEN now ELSE most(1, now - back)
  BY DEF rateAppliesFrom
<1> HIDE DEF back
<1>4. CASE oldRate = 0 \/ newRate = 0 \/ applyFrom = 0
  BY <1>1, <1>3, <1>4
<1>5. CASE ~(oldRate = 0 \/ newRate = 0 \/ applyFrom = 0)
  BY <1>1, <1>2, <1>3, <1>5 DEF most
<1> QED
  BY <1>4, <1>5

\* The rate of the source is replaced, where it is added up too.
RateChanged(f, g, s, newRate) ==
    /\ g \in Frames /\ g.token = f.token /\ g.next = f.next /\ g.price = f.price /\ g.held = f.held
    /\ g.amount = f.amount /\ g.value = f.value /\ g.reverted = f.reverted
    /\ \A r \in Sources \ {s} : g.sources[r] = f.sources[r]
    /\ g.sources[s] = [f.sources[s] EXCEPT !.rate = newRate, !.updatedAt = now]
    /\ g.balance.accumAmount = f.balance.accumAmount
    /\ g.balance.rateValue = f.balance.rateValue - f.sources[s].rate + newRate
    /\ g.total.accum = f.total.accum /\ g.total.updatedAt = f.total.updatedAt
    /\ g.total.rate = f.total.rate - f.sources[s].rate + newRate

\* _changeRate, of a rate that the asset and the total include.
LEMMA ChangeRateType ==
    ASSUME Clock, NEW f \in Frames, NEW lastRate \in Nat, NEW newRate \in Nat,
           lastRate <= f.balance.rateValue, lastRate <= f.total.rate, NEW g, g = changeRate(f, lastRate, newRate)
    PROVE  /\ g \in Frames /\ g.token = f.token /\ g.next = f.next /\ g.price = f.price /\ g.held = f.held
           /\ g.amount = f.amount /\ g.value = f.value /\ g.reverted = f.reverted /\ g.sources = f.sources
           /\ g.balance.accumAmount = f.balance.accumAmount
           /\ g.balance.rateValue = f.balance.rateValue - lastRate + newRate
           /\ g.total.accum = f.total.accum /\ g.total.updatedAt = f.total.updatedAt
           /\ g.total.rate = f.total.rate - lastRate + newRate
<1>1. f.balance \in AssetRecords /\ f.total \in TotalRecords
  BY DEF Frames
<1>2. f.balance.rateValue \in Nat /\ f.total.rate \in Nat /\ f.balance.applyFrom \in 0..now
  BY <1>1 DEF AssetRecords, TotalRecords
<1>3. CASE lastRate = newRate
  <2>1. g = f
    BY <1>3 DEF changeRate
  <2> QED
    BY <1>2, <1>3, <2>1
<1>4. CASE lastRate # newRate
  <2> DEFINE step == most(newRate, lastRate) - least(newRate, lastRate)
             from == rateAppliesFrom(lastRate, step, f.balance.applyFrom)
             value == f.balance.rateValue - lastRate + newRate
             rate == f.total.rate - lastRate + newRate
  <2>1. step \in Nat
    BY DEF most, least
  <2>2. from \in 0..now
    <3> HIDE DEF step
    <3> QED
      BY <1>2, <2>1, RateAppliesFromType
  <2>3. value \in Nat /\ rate \in Nat
    BY <1>2
  <2>4. g = [f EXCEPT !.balance.rateValue = value, !.total.rate = rate, !.balance.applyFrom = from]
    BY <1>4 DEF changeRate, Frames
  <2> HIDE DEF from, value, rate
  <2>5. /\ g.balance = [f.balance EXCEPT !.rateValue = value, !.applyFrom = from]
        /\ g.total = [f.total EXCEPT !.rate = rate]
        /\ g.token = f.token /\ g.next = f.next /\ g.price = f.price /\ g.held = f.held
        /\ g.amount = f.amount /\ g.value = f.value /\ g.reverted = f.reverted /\ g.sources = f.sources
    BY <2>4 DEF Frames
  <2>6. g.balance \in AssetRecords /\ g.balance.accumAmount = f.balance.accumAmount /\ g.balance.rateValue = value
    BY <1>1, <2>2, <2>3, <2>5 DEF AssetRecords
  <2>7. g.total \in TotalRecords /\ g.total.accum = f.total.accum /\ g.total.updatedAt = f.total.updatedAt
        /\ g.total.rate = rate
    BY <1>1, <2>3, <2>5 DEF TotalRecords
  <2>8. g = [f EXCEPT !.balance = g.balance, !.total = g.total]
    BY <2>4, <2>5 DEF Frames
  <2>9. g \in Frames
    BY <2>6, <2>7, <2>8 DEF Frames
  <2> QED
    BY <2>5, <2>6, <2>7, <2>9 DEF value, rate
<1> QED
  BY <1>3, <1>4

\* The rate of a source is set.
LEMMA SetSourceRateType ==
    ASSUME Clock, NEW f \in Frames, NEW s \in Sources, NEW newRate \in Rates \union {0},
           f.sources[s].rate <= f.balance.rateValue, f.sources[s].rate <= f.total.rate,
           NEW g, g = setSourceRate(f, s, f.sources[s].rate, newRate)
    PROVE  RateChanged(f, g, s, newRate)
<1> DEFINE e == changeRate(f, f.sources[s].rate, newRate)
<1>1. f.sources \in [Sources -> SourceRecords] /\ f.sources[s] \in SourceRecords
  BY DEF Frames
<1>2. f.sources[s].rate \in Nat /\ newRate \in Nat
  <2>1. f.sources[s].rate \in Rates \union {0}
    BY <1>1 DEF SourceRecords
  <2> QED
    BY <2>1, RatesAreNatural
<1>3. g = [e EXCEPT !.sources[s].rate = newRate, !.sources[s].updatedAt = now]
  BY DEF setSourceRate
<1>4. /\ e \in Frames /\ e.token = f.token /\ e.next = f.next /\ e.price = f.price /\ e.held = f.held
      /\ e.amount = f.amount /\ e.value = f.value /\ e.reverted = f.reverted /\ e.sources = f.sources
      /\ e.balance.accumAmount = f.balance.accumAmount
      /\ e.balance.rateValue = f.balance.rateValue - f.sources[s].rate + newRate
      /\ e.total.accum = f.total.accum /\ e.total.updatedAt = f.total.updatedAt
      /\ e.total.rate = f.total.rate - f.sources[s].rate + newRate
  BY <1>2, ChangeRateType
<1> HIDE DEF e
<1> DEFINE record == [f.sources[s] EXCEPT !.rate = newRate, !.updatedAt = now]
<1>5. g.sources = [f.sources EXCEPT ![s] = record]
  <2>1. g.sources = [[f.sources EXCEPT ![s].rate = newRate] EXCEPT ![s].updatedAt = now]
    BY <1>3, <1>4 DEF Frames
  <2> QED
    BY <1>1, <2>1
<1>6. record \in SourceRecords
  <2>1. now \in 0..now
    BY DEF Clock
  <2> DEFINE Rs == Rates \union {0}
  <2>2. f.sources[s] \in [lastPremium : Int, rate : Rs, updatedAt : 0..now] /\ newRate \in Rs
    BY <1>1 DEF SourceRecords
  <2> HIDE DEF Rs
  <2>3. record \in [lastPremium : Int, rate : Rs, updatedAt : 0..now]
    BY <2>1, <2>2
  <2> QED
    BY <2>3 DEF SourceRecords, Rs
<1>7. g.sources \in [Sources -> SourceRecords] /\ g.sources[s] = [f.sources[s] EXCEPT !.rate = newRate, !.updatedAt = now]
      /\ \A r \in Sources \ {s} : g.sources[r] = f.sources[r]
  BY <1>1, <1>5, <1>6
<1>8. /\ g.token = e.token /\ g.next = e.next /\ g.price = e.price /\ g.held = e.held /\ g.balance = e.balance
      /\ g.total = e.total /\ g.amount = e.amount /\ g.value = e.value /\ g.reverted = e.reverted
  BY <1>3, <1>4 DEF Frames
<1>9. g = [e EXCEPT !.sources = g.sources]
  BY <1>3, <1>4 DEF Frames
<1>10. g \in Frames
  BY <1>4, <1>7, <1>9 DEF Frames
<1> QED
  BY <1>4, <1>7, <1>8, <1>10 DEF RateChanged

\* The source of f is pulled and gets a new rate, which is stopped if it paid too little.
Updated(f, g, s, increment, newRate) ==
    /\ g \in Frames /\ g.token = f.token /\ g.next = f.next
    /\ \A r \in Sources \ {s} : g.sources[r] = f.sources[r]
    /\ g.sources[s].rate \in {0, newRate} /\ g.sources[s].updatedAt = now
    /\ g.sources[s].lastPremium <= f.sources[s].lastPremium + most(increment, DueIn(f, s))
    /\ f.sources[s].updatedAt = now => g.sources[s].lastPremium = f.sources[s].lastPremium
    /\ g.held = f.held + g.amount
    /\ g.balance.accumAmount = f.balance.accumAmount + g.amount
    /\ g.balance.rateValue = f.balance.rateValue - f.sources[s].rate + g.sources[s].rate
    /\ g.total.rate = f.total.rate - f.sources[s].rate + g.sources[s].rate
    /\ g.total.updatedAt = f.total.updatedAt
    /\ g.total.accum = f.total.accum - DueIn(f, s) + g.value
    /\ ~g.reverted => /\ ~f.reverted /\ g.value >= 0
                      /\ g.sources[s].lastPremium >= f.sources[s].lastPremium
                      /\ f.total.accum >= 0 => g.total.accum >= 0
                      /\ f.price >= 0 => g.price >= 0

\* A source is pulled and its rate is set, in _premiumAllocationUpdated.
LEMMA UpdateType ==
    ASSUME Clock, NEW f \in Frames, NEW s \in Sources, NEW increment \in Nat, NEW newRate \in Rates \union {0},
           NEW pay \in Pays, f.sources[s].rate <= f.balance.rateValue, f.sources[s].rate <= f.total.rate,
           NEW g, g = allocationUpdated(f, s, increment, newRate, pay)
    PROVE  /\ Updated(f, g, s, increment, newRate)
           /\ pay.price = WAD => g.value = g.amount
           /\ pay.price = WAD /\ PricedAtPar(f) => PricedAtPar(g)
<1> DEFINE e == replenish(f, s, increment, pay)
           rate == promisedRate(e, increment, newRate)
<1>1. /\ Pulled(f, e, s, increment)
      /\ pay.price = WAD => e.value = e.amount
      /\ pay.price = WAD /\ PricedAtPar(f) => PricedAtPar(e)
  BY ReplenishType
<1>2. rate \in Rates \union {0} /\ rate \in {0, newRate}
  BY DEF promisedRate
<1>3. g = setSourceRate(e, s, f.sources[s].rate, rate)
  BY DEF allocationUpdated, rateReplenished
<1> HIDE DEF e, rate
<1>4. e \in Frames /\ e.sources[s].rate = f.sources[s].rate /\ e.balance.rateValue = f.balance.rateValue
      /\ e.total.rate = f.total.rate
  BY <1>1 DEF Pulled
<1>5. RateChanged(e, g, s, rate)
  BY <1>2, <1>3, <1>4, SetSourceRateType
<1>6. e.sources[s] \in SourceRecords /\ e.balance \in AssetRecords
  BY <1>4 DEF Frames
<1>7. g.sources[s].rate = rate /\ g.sources[s].updatedAt = now /\ g.sources[s].lastPremium = e.sources[s].lastPremium
  BY <1>5, <1>6 DEF RateChanged, SourceRecords
<1>8. Updated(f, g, s, increment, newRate)
  BY <1>1, <1>2, <1>5, <1>7 DEF Pulled, RateChanged, Updated
<1>9. PricedAtPar(e) => PricedAtPar(g)
  BY <1>5 DEF RateChanged, PricedAtPar
<1>10. e.value = e.amount => g.value = g.amount
  BY <1>5 DEF RateChanged
<1> QED
  BY <1>1, <1>8, <1>9, <1>10

-----------------------------------------------------------------------------
(* Sums over the sources of a frame.                                       *)

RatesIn(f) == [s \in Sources |-> f.sources[s].rate]
DuesIn(f) == [s \in Sources |-> DueIn(f, s)]

\* The rates of a frame: active are the sources of its asset, and the other
\* assets have the rate others.
RatesFit(f, active, others) ==
    /\ f.balance.rateValue = SumFunctionOnSet(RatesIn(f), active)
    /\ f.total.rate = f.balance.rateValue + others
    /\ f.total.rate = SumFunctionOnSet(RatesIn(f), Sources)

\* The sums over the rates and over the dues of a frame are defined.
LEMMA FrameSums ==
    ASSUME Clock, NEW f \in Frames, NEW active \in SUBSET Sources
    PROVE  /\ IsFiniteSet(Sources) /\ IsFiniteSet(active)
           /\ \A s \in Sources : RatesIn(f)[s] \in Nat /\ RatesIn(f)[s] = f.sources[s].rate
           /\ \A s \in Sources : DuesIn(f)[s] \in Nat /\ DuesIn(f)[s] = DueIn(f, s)
           /\ Summable(RatesIn(f), Sources) /\ Summable(RatesIn(f), active) /\ Summable(DuesIn(f), Sources)
<1>1. IsFiniteSet(Sources)
  BY FundAssumption
<1>2. IsFiniteSet(active)
  BY <1>1, FS_Subset
<1>3. ASSUME NEW s \in Sources PROVE RatesIn(f)[s] \in Nat /\ RatesIn(f)[s] = f.sources[s].rate
  <2>1. f.sources[s].rate \in Rates \union {0}
    BY DEF Frames, SourceRecords
  <2>2. RatesIn(f)[s] = f.sources[s].rate
    BY DEF RatesIn
  <2> QED
    BY <2>1, <2>2, RatesAreNatural
<1>4. ASSUME NEW s \in Sources PROVE DuesIn(f)[s] \in Nat /\ DuesIn(f)[s] = DueIn(f, s)
  BY DueType DEF DuesIn
<1> QED
  BY <1>1, <1>2, <1>3, <1>4 DEF Summable

\* The rate of a source can be taken off.
LEMMA RateIncluded ==
    ASSUME Clock, NEW f \in Frames, NEW active \in SUBSET Sources, NEW others \in Nat, RatesFit(f, active, others),
           NEW s \in Sources, s \notin active => f.sources[s].rate = 0
    PROVE  f.sources[s].rate <= f.balance.rateValue /\ f.sources[s].rate <= f.total.rate
<1>1. f.balance.rateValue \in Nat
  BY DEF Frames, AssetRecords
<1>2. f.sources[s].rate <= f.balance.rateValue
  <2>1. CASE s \in active
    <3>1. \A r \in active : RatesIn(f)[r] \in Nat
      BY FrameSums
    <3>2. RatesIn(f)[s] <= SumFunctionOnSet(RatesIn(f), active)
      BY <2>1, <3>1, FrameSums, SumIncludes
    <3> QED
      BY <3>2, FrameSums DEF RatesFit
  <2>2. CASE s \notin active
    BY <1>1, <2>2
  <2> QED
    BY <2>1, <2>2
<1>3. f.sources[s].rate \in Nat
  BY FrameSums
<1> QED
  BY <1>1, <1>2, <1>3 DEF RatesFit

\* Rates that add up do so after an update, when the source counts as active.
LEMMA UpdateKeepsRates ==
    ASSUME Clock, NEW f \in Frames, NEW active \in SUBSET Sources, NEW others \in Nat, RatesFit(f, active, others),
           NEW s \in Sources, s \notin active => f.sources[s].rate = 0,
           NEW g \in Frames, \A r \in Sources \ {s} : g.sources[r] = f.sources[r],
           g.balance.rateValue = f.balance.rateValue - f.sources[s].rate + g.sources[s].rate,
           g.total.rate = f.total.rate - f.sources[s].rate + g.sources[s].rate
    PROVE  RatesFit(g, active \union {s}, others)
<1> DEFINE R == RatesIn(f)
           Q == RatesIn(g)
           all == active \union {s}
<1>1. /\ \A r \in Sources : R[r] \in Nat /\ Q[r] \in Nat /\ R[r] = f.sources[r].rate /\ Q[r] = g.sources[r].rate
      /\ Summable(R, Sources) /\ Summable(R, active) /\ Summable(R, all) /\ R[s] \in Int /\ Q[s] \in Int
  <2>1. all \in SUBSET Sources
    OBVIOUS
  <2> QED
    BY <2>1, FrameSums
<1>2. \A r \in Sources \ {s} : R[r] = Q[r]
  BY <1>1
<1> HIDE DEF R, Q
<1>3. SumFunctionOnSet(R, all) = SumFunctionOnSet(R, active)
  <2>1. CASE s \in active
    <3>1. all = active
      BY <2>1
    <3> QED
      BY <3>1
  <2>2. CASE s \notin active
    <3>1. SumFunctionOnSet(R, all) = R[s] + SumFunctionOnSet(R, active)
      BY <1>1, <2>2, SumAdd
    <3>2. R[s] = 0 /\ SumFunctionOnSet(R, active) \in Int
      BY <1>1, <2>2, SumInt
    <3> QED
      BY <3>1, <3>2
  <2> QED
    BY <2>1, <2>2
<1>4. SumFunctionOnSet(Q, all) = SumFunctionOnSet(R, all) - R[s] + Q[s]
  <2>1. ChangedAt(R, Q, all, s)
    BY <1>2 DEF ChangedAt
  <2>2. s \in all
    OBVIOUS
  <2>3. Summable(R, all) /\ Q[s] \in Int
    BY <1>1
  <2> HIDE DEF all
  <2> QED
    BY ONLY Zenon, <2>1, <2>2, <2>3, SumChange
<1>5. SumFunctionOnSet(Q, Sources) = SumFunctionOnSet(R, Sources) - R[s] + Q[s]
  <2>1. Summable(R, Sources) /\ Q[s] \in Int /\ ChangedAt(R, Q, Sources, s)
    BY <1>1, <1>2 DEF ChangedAt
  <2> QED
    BY ONLY Zenon, s \in Sources, <2>1, SumChange
<1>6. /\ f.balance.rateValue = SumFunctionOnSet(R, active) /\ f.total.rate = f.balance.rateValue + others
      /\ f.total.rate = SumFunctionOnSet(R, Sources)
  BY DEF RatesFit, R
<1>7. f.balance.rateValue \in Int /\ R[s] = f.sources[s].rate /\ Q[s] = g.sources[s].rate
  BY <1>1 DEF Frames, AssetRecords
<1>8. /\ g.balance.rateValue = SumFunctionOnSet(Q, all) /\ g.total.rate = SumFunctionOnSet(Q, Sources)
  BY <1>3, <1>4, <1>5, <1>6, <1>7
<1>9. g.total.rate = g.balance.rateValue + others
  BY <1>1, <1>6, <1>7
<1> QED
  BY <1>8, <1>9 DEF RatesFit, Q

\* What is left when all supply that is due and all tokens are taken from the total.
Surplus(f) == f.total.accum - f.balance.accumAmount - SumFunctionOnSet(DuesIn(f), Sources)

\* A surplus is an integer.
LEMMA SurplusType == ASSUME Clock, NEW f \in Frames PROVE Surplus(f) \in Int
<1>1. SumFunctionOnSet(DuesIn(f), Sources) \in Int
  BY FrameSums, SumInt
<1>2. f.total.accum \in Int /\ f.balance.accumAmount \in Int
  BY DEF Frames, TotalRecords, AssetRecords
<1> QED
  BY <1>1, <1>2 DEF Surplus

\* A source that is pulled owes nothing.
LEMMA DuesAreTaken ==
    ASSUME Clock, NEW f \in Frames, NEW s \in Sources, NEW g \in Frames,
           \A r \in Sources \ {s} : g.sources[r] = f.sources[r], DueIn(g, s) = 0
    PROVE  SumFunctionOnSet(DuesIn(g), Sources) = SumFunctionOnSet(DuesIn(f), Sources) - DueIn(f, s)
<1> DEFINE P == DuesIn(f)
           Q == DuesIn(g)
<1>1. /\ \A r \in Sources : P[r] \in Nat /\ Q[r] \in Nat /\ P[r] = DueIn(f, r) /\ Q[r] = DueIn(g, r)
      /\ Summable(P, Sources) /\ Q[s] \in Int
  BY FrameSums
<1>2. \A r \in Sources \ {s} : P[r] = Q[r]
  BY <1>1 DEF DueIn
<1> HIDE DEF P, Q
<1>4. SumFunctionOnSet(Q, Sources) = SumFunctionOnSet(P, Sources) - P[s] + Q[s]
  <2>1. Summable(P, Sources) /\ Q[s] \in Int /\ ChangedAt(P, Q, Sources, s)
    BY <1>1, <1>2 DEF ChangedAt
  <2> QED
    BY ONLY Zenon, s \in Sources, <2>1, SumChange
<1>5. SumFunctionOnSet(P, Sources) \in Int
  BY <1>1, SumInt
<1> QED
  BY <1>1, <1>4, <1>5 DEF P, Q

\* A replenishment moves value from the dues into the tokens of the asset.
LEMMA SurplusIsKept ==
    ASSUME Clock, NEW f \in Frames, NEW s \in Sources, NEW g \in Frames,
           \A r \in Sources \ {s} : g.sources[r] = f.sources[r], g.sources[s].updatedAt = now,
           g.balance.accumAmount = f.balance.accumAmount + g.amount,
           g.total.accum = f.total.accum - DueIn(f, s) + g.amount
    PROVE  Surplus(g) = Surplus(f)
<1>1. SumFunctionOnSet(DuesIn(g), Sources) = SumFunctionOnSet(DuesIn(f), Sources) - DueIn(f, s)
  BY DueType, DuesAreTaken
<1>2. SumFunctionOnSet(DuesIn(f), Sources) \in Int
  BY FrameSums, SumInt
<1>3. f.total.accum \in Int /\ f.balance.accumAmount \in Int /\ g.amount \in Int /\ DueIn(f, s) \in Int
  BY DueType DEF Frames, TotalRecords, AssetRecords
<1> DEFINE dues == SumFunctionOnSet(DuesIn(f), Sources)
<1>4. dues \in Int /\ SumFunctionOnSet(DuesIn(g), Sources) = dues - DueIn(f, s)
  BY <1>1, <1>2
<1> HIDE DEF dues
<1>5. g.total.accum - g.balance.accumAmount - (dues - DueIn(f, s)) = f.total.accum - f.balance.accumAmount - dues
  BY <1>3, <1>4
<1> QED
  BY <1>4, <1>5 DEF Surplus, dues

-----------------------------------------------------------------------------
(* Pulling at the rates there are.                                         *)

AtPar == Prices = {WAD}

\* Values that must not be negative when nothing has failed.
Sound(f) == f.total.accum >= 0 /\ f.price >= 0 /\ \A s \in Sources : f.sources[s].lastPremium >= 0

\* What a source has been charged or owes.
Charge(f, s) == f.sources[s].lastPremium + DueIn(f, s)

\* g comes of f by pulls of active sources.
Continues(f, g, active, others) ==
    /\ g \in Frames /\ g.token = f.token /\ g.total.updatedAt = f.total.updatedAt
    /\ RatesFit(g, active, others)
    /\ \A r \in Sources \ active : g.sources[r] = f.sources[r]
    /\ \A r \in Sources : g.sources[r].rate \in {0, f.sources[r].rate} /\ Charge(g, r) <= Charge(f, r)
    /\ g.held - g.balance.accumAmount = f.held - f.balance.accumAmount
    /\ ~g.reverted => Sound(g)
    /\ AtPar /\ PricedAtPar(f) => PricedAtPar(g) /\ Surplus(g) = Surplus(f)

\* One pull of syncAsset.
LEMMA SyncContinues ==
    ASSUME Clock, NEW f \in Frames, NEW active \in SUBSET Sources, NEW others \in Nat,
           NEW g, Continues(f, g, active, others), NEW s \in active, NEW pay \in Pays,
           NEW h, h = syncSource(g, s, pay)
    PROVE  Continues(f, h, active, others)
<1>1. /\ g \in Frames /\ g.token = f.token /\ g.total.updatedAt = f.total.updatedAt
      /\ RatesFit(g, active, others)
      /\ \A r \in Sources \ active : g.sources[r] = f.sources[r]
      /\ \A r \in Sources : g.sources[r].rate \in {0, f.sources[r].rate} /\ Charge(g, r) <= Charge(f, r)
      /\ g.held - g.balance.accumAmount = f.held - f.balance.accumAmount
      /\ ~g.reverted => Sound(g)
      /\ AtPar /\ PricedAtPar(f) => PricedAtPar(g) /\ Surplus(g) = Surplus(f)
  BY DEF Continues
<1>2. g.sources[s].rate <= g.balance.rateValue /\ g.sources[s].rate <= g.total.rate
  BY <1>1, RateIncluded
<1>3. h = allocationUpdated(g, s, 0, g.sources[s].rate, pay) /\ g.sources[s].rate \in Rates \union {0}
  BY <1>1 DEF syncSource, Frames, SourceRecords
<1>4. /\ Updated(g, h, s, 0, g.sources[s].rate)
      /\ pay.price = WAD => h.value = h.amount
      /\ pay.price = WAD /\ PricedAtPar(g) => PricedAtPar(h)
  <2>1. PICK zero \in Nat : zero = 0
    OBVIOUS
  <2>2. /\ Updated(g, h, s, zero, g.sources[s].rate)
        /\ pay.price = WAD => h.value = h.amount
        /\ pay.price = WAD /\ PricedAtPar(g) => PricedAtPar(h)
    BY <1>1, <1>2, <1>3, <2>1, UpdateType
  <2> QED
    BY <2>1, <2>2
<1>5. /\ h \in Frames /\ h.token = g.token /\ h.next = g.next
      /\ \A r \in Sources \ {s} : h.sources[r] = g.sources[r]
      /\ h.sources[s].rate \in {0, g.sources[s].rate} /\ h.sources[s].updatedAt = now
      /\ h.sources[s].lastPremium <= g.sources[s].lastPremium + most(0, DueIn(g, s))
      /\ h.held = g.held + h.amount
      /\ h.balance.accumAmount = g.balance.accumAmount + h.amount
      /\ h.balance.rateValue = g.balance.rateValue - g.sources[s].rate + h.sources[s].rate
      /\ h.total.rate = g.total.rate - g.sources[s].rate + h.sources[s].rate
      /\ h.total.updatedAt = g.total.updatedAt
      /\ h.total.accum = g.total.accum - DueIn(g, s) + h.value
      /\ ~h.reverted => /\ ~g.reverted /\ h.value >= 0
                        /\ h.sources[s].lastPremium >= g.sources[s].lastPremium
                        /\ g.total.accum >= 0 => h.total.accum >= 0
                        /\ g.price >= 0 => h.price >= 0
  BY <1>4 DEF Updated
<1>6. RatesFit(h, active, others)
  <2>1. RatesFit(h, active \union {s}, others)
    BY <1>1, <1>5, UpdateKeepsRates
  <2>2. active \union {s} = active
    OBVIOUS
  <2> QED
    BY <2>1, <2>2
<1>7. ASSUME NEW r \in Sources
      PROVE  h.sources[r].rate \in {0, f.sources[r].rate} /\ Charge(h, r) <= Charge(f, r)
  <2>1. CASE r # s
    <3>1. h.sources[r] = g.sources[r]
      BY <1>5, <2>1
    <3> QED
      BY <1>1, <3>1 DEF Charge, DueIn
  <2>2. CASE r = s
    <3>1. DueIn(h, s) = 0 /\ DueIn(g, s) \in Nat /\ DueIn(f, s) \in Nat
      BY <1>1, <1>5, DueType
    <3>2. h.sources[s].lastPremium \in Int /\ g.sources[s].lastPremium \in Int /\ f.sources[s].lastPremium \in Int
      BY <1>1, <1>5 DEF Frames, SourceRecords
    <3>3. most(0, DueIn(g, s)) = DueIn(g, s)
      BY <3>1 DEF most
    <3>4. Charge(h, s) <= Charge(g, s) /\ Charge(g, s) <= Charge(f, s)
      BY <1>1, <1>5, <3>1, <3>2, <3>3 DEF Charge
    <3>5. Charge(h, s) <= Charge(f, s)
      BY <3>1, <3>2, <3>4 DEF Charge
    <3> QED
      BY <1>1, <1>5, <2>2, <3>5
  <2> QED
    BY <2>1, <2>2
<1>8. h.held - h.balance.accumAmount = f.held - f.balance.accumAmount
  <2>1. g.held \in Int /\ g.balance.accumAmount \in Int /\ h.amount \in Int
    BY <1>1, <1>5 DEF Frames, AssetRecords
  <2> QED
    BY <1>1, <1>5, <2>1
<1>9. ASSUME ~h.reverted PROVE Sound(h)
  <2>1. Sound(g) /\ h.total.accum >= 0 /\ h.price >= 0 /\ h.sources[s].lastPremium >= g.sources[s].lastPremium
    BY <1>1, <1>5, <1>9 DEF Sound
  <2>2. h.sources[s].lastPremium \in Int /\ g.sources[s].lastPremium \in Int
    BY <1>1, <1>5 DEF Frames, SourceRecords
  <2> QED
    BY <1>5, <2>1, <2>2 DEF Sound
<1>10. ASSUME AtPar, PricedAtPar(f) PROVE PricedAtPar(h) /\ Surplus(h) = Surplus(f)
  <2>1. pay.price = WAD
    BY <1>10 DEF AtPar, Pays
  <2>2. PricedAtPar(h) /\ h.value = h.amount
    BY <1>1, <1>4, <1>10, <2>1
  <2>3. Surplus(h) = Surplus(g)
    BY <1>1, <1>5, <2>2, SurplusIsKept
  <2> QED
    BY <1>1, <1>10, <2>2, <2>3
<1>11. \A r \in Sources \ active : h.sources[r] = f.sources[r]
  BY <1>1, <1>5
<1> QED
  BY <1>1, <1>5, <1>6, <1>7, <1>8, <1>9, <1>10, <1>11 DEF Continues

\* The loop of syncAsset.
syncAll(f, list, price, payments) ==
    FoldLeft(LAMBDA g, s : syncSource(g, s, [price |-> price, most |-> payments[s]]), f, list)

\* All pulls of syncAsset, by induction over the list.
LEMMA SyncAllContinues ==
    ASSUME Clock, NEW f \in Frames, NEW active \in SUBSET Sources, NEW others \in Nat,
           Continues(f, f, active, others), NEW list \in Seq(active),
           NEW price \in Prices, NEW payments \in [Sources -> Payments]
    PROVE  Continues(f, syncAll(f, list, price, payments), active, others)
<1> DEFINE D == {g \in Frames : Continues(f, g, active, others)}
           pay(k) == [price |-> price, most |-> payments[list[k]]]
           n == Len(list)
           step == [p \in (1..n) \X D |-> syncSource(p[2], list[p[1]], pay(p[1]))]
           pick == [T \in SUBSET (1..n) |-> Max(T)]
           Def(it) == it = [T \in SUBSET (1..n) |-> IF T = {} THEN f
                                                    ELSE syncSource(it[T \ {Max(T)}], list[Max(T)], pay(Max(T)))]
           loop == CHOOSE it : Def(it)
           G == {T \in SUBSET (1..n) : loop[T] \in D}
<1>1. n \in Nat /\ DOMAIN list = 1..n /\ IsFiniteSet(1..n)
  BY FS_Interval
<1>2. f \in D
  OBVIOUS
<1>3. ASSUME NEW k \in 1..n, NEW g \in D PROVE syncSource(g, list[k], pay(k)) \in D
  <2>1. list[k] \in active /\ pay(k) \in Pays
    BY <1>1, <1>3 DEF Pays
  <2>2. Continues(f, syncSource(g, list[k], pay(k)), active, others)
    <3>1. Continues(f, g, active, others)
      BY <1>3
    <3> HIDE DEF pay
    <3> QED
      BY <2>1, <3>1, SyncContinues
  <2> QED
    BY <2>2 DEF Continues
<1>4. ASSUME NEW T \in SUBSET (1..n), T # {} PROVE Max(T) \in T
  BY <1>1, <1>4, MaxIsIn
<1>5. PICK it : FoldsBy(it, 1..n, D, f, step, pick)
  <2>1. step \in [(1..n) \X D -> D]
    <3> HIDE DEF D, pay
    <3> QED
      BY <1>3
  <2>2. \A T \in SUBSET (1..n) : T # {} => pick[T] \in T
    BY <1>4
  <2> HIDE DEF step, pick, D
  <2> QED
    BY <1>1, <1>2, <2>1, <2>2, FoldIsDefined
<1>6. Def(it)
  <2>1. it \in [SUBSET (1..n) -> D]
    BY <1>5 DEF FoldsBy
  <2>2. ASSUME NEW T \in SUBSET (1..n)
        PROVE  it[T] = IF T = {} THEN f ELSE syncSource(it[T \ {Max(T)}], list[Max(T)], pay(Max(T)))
    <3>1. it[T] = IF T = {} THEN f ELSE step[<<pick[T], it[T \ {pick[T]}]>>]
      BY <1>5 DEF FoldsBy
    <3>2. CASE T = {}
      BY <3>1, <3>2
    <3>3. CASE T # {}
      <4>1. Max(T) \in 1..n /\ it[T \ {Max(T)}] \in D /\ pick[T] = Max(T)
        BY <1>4, <2>1, <3>3
      <4> HIDE DEF D, pay, pick
      <4> QED
        BY <3>1, <3>3, <4>1
    <3> QED
      BY <3>2, <3>3
  <2> HIDE DEF D, pay, pick, step
  <2> QED
    BY <2>1, <2>2
<1>7. Def(loop)
  BY <1>6
<1>8. syncAll(f, list, price, payments) = loop[1..n]
  BY <1>1 DEF syncAll, FoldLeft, MapThenFoldSet
<1> HIDE DEF loop
<1>9. ASSUME NEW T \in SUBSET (1..n), \A x \in T : T \ {x} \in G PROVE T \in G
  <2>1. loop[T] = IF T = {} THEN f ELSE syncSource(loop[T \ {Max(T)}], list[Max(T)], pay(Max(T)))
    BY <1>7
  <2>2. CASE T = {}
    BY <1>2, <2>1, <2>2
  <2>3. CASE T # {}
    <3>1. Max(T) \in T /\ loop[T \ {Max(T)}] \in D
      BY <1>4, <1>9, <2>3
    <3> HIDE DEF D, pay
    <3> QED
      BY <1>3, <2>1, <2>3, <3>1
  <2> QED
    BY <2>2, <2>3
<1>10. SUBSET (1..n) \subseteq G
  <2> DEFINE S == 1..n
  <2>1. IsFiniteSet(S)
    BY <1>1
  <2> HIDE DEF G
  <2>2. \A T \in SUBSET S : (\A x \in T : T \ {x} \in G) => T \in G
    BY <1>9
  <2> HIDE DEF S
  <2>3. SUBSET S \subseteq G
    BY ONLY <2>1, <2>2, SubsetInduction
  <2> QED
    BY <2>3 DEF S
<1> QED
  BY <1>8, <1>10

-----------------------------------------------------------------------------
(* The inductive invariant.                                                *)

AllocatedOK == allocated \in [Sources -> [accum : Nat, rate : Nat, updatedAt : 0..now]]

\* A token lists a source once, and only sources that are registered for it.
Once(list) == \A i, j \in DOMAIN list : list[i] = list[j] => i = j
Elements(list) == {list[k] : k \in DOMAIN list}
ActiveOK == \A t \in Tokens : Once(activeSources[t]) /\ \A s \in ActiveOf(t) : sourceToken[s] = t

\* The total rate is what makes the total grow as the supply of the sources does.
TotalRateOK == totalBalance.rate = SumFunctionOnSet(RateOfSource, Sources)

RatesInv == FundTypeOK /\ AllocatedOK /\ ActiveOK /\ RatesAddUp /\ TotalRateOK

\* A source is not charged for more than the actuary allocates, now and from now on;
\* one that has never been registered has no records.
ChargeOK(s) ==
    /\ isRegistered(s) => /\ sourceBalances[s].rate <= allocated[s].rate
                         /\ sourceBalances[s].lastPremium + Supply(s) <= allocatedTotal(s, 0)
    /\ ~isRegistered(s) /\ s \notin formerSources =>
          sourceBalances[s] = NoSourceBalance /\ allocated[s] = NoSupply
ChargesOK == \A s \in Sources : ChargeOK(s)

\* The value of the tokens of an asset, at par.
AmountOfToken == [t \in Tokens |-> balances[t].accumAmount]

HeldAtPar == \A t \in Tokens : balances[t].accumAmount > 0 => configs[t].price = WAD
Covered ==
    sync(totalBalance).accum >= SumFunctionOnSet(AmountOfToken, Tokens) + SumFunctionOnSet(SupplyOfSource, Sources)

FundInv == RatesInv /\ TokensReceived /\ ChargesOK /\ (AtPar => HeldAtPar /\ Covered)

\* The types, in the form in which the proofs use them.
LEMMA FundTyping ==
    ASSUME RatesInv
    PROVE  /\ Clock /\ now \in Nat
           /\ collectedFees \in [AllTokens -> Nat] /\ takenFees \in [AllTokens -> Nat] /\ held \in [AllTokens -> Nat]
           /\ sourceToken \in [Sources -> Tokens \union {NoToken}]
           /\ \A t \in Tokens : activeSources[t] \in Seq(Sources) /\ ActiveOf(t) \in SUBSET Sources
           /\ nextReplenish \in [Tokens -> 0..Cardinality(Sources)]
           /\ sourceBalances \in [Sources -> [lastPremium : Nat, rate : Rates \union {0}, updatedAt : 0..now]]
           /\ totalBalance \in [accum : Nat, rate : Nat, updatedAt : 0..now]
           /\ balances \in [Tokens -> AssetRecords]
           /\ configs \in [AllTokens -> [price : Nat, suspended : BOOLEAN, finished : BOOLEAN, auto : BOOLEAN]]
<1>1. now \in GENESIS..LAST_TIME /\ GENESIS \in Nat \ {0} /\ LAST_TIME \in Nat
  BY FundAssumption DEF RatesInv, FundTypeOK
<1>2. Clock /\ now \in Nat
  BY <1>1 DEF Clock
<1>3. ASSUME NEW t \in Tokens PROVE ActiveOf(t) \in SUBSET Sources
  BY DEF RatesInv, FundTypeOK, ActiveOf
<1> QED
  BY <1>2, <1>3 DEF RatesInv, FundTypeOK, AssetRecords

\* The total is brought up to date.
LEMMA SyncedTotal ==
    ASSUME RatesInv
    PROVE  /\ sync(totalBalance) \in [accum : Nat, rate : Nat, updatedAt : 0..now]
           /\ sync(totalBalance).rate = totalBalance.rate /\ sync(totalBalance).updatedAt = now
           /\ sync(totalBalance).accum = totalBalance.accum + totalBalance.rate * (now - totalBalance.updatedAt)
           /\ totalBalance.rate * (now - totalBalance.updatedAt) \in Nat
<1>1. totalBalance \in [accum : Nat, rate : Nat, updatedAt : 0..now] /\ now \in Nat
  BY FundTyping
<1>2. now - totalBalance.updatedAt \in Nat /\ totalBalance.rate \in Nat /\ totalBalance.accum \in Nat
  BY <1>1
<1> DEFINE growth == totalBalance.rate * (now - totalBalance.updatedAt)
<1>3. growth \in Nat
  BY <1>2
<1>4. sync(totalBalance) = [totalBalance EXCEPT !.accum = @ + growth, !.updatedAt = now]
  BY DEF sync
<1> HIDE DEF growth
<1>5. totalBalance.accum + growth \in Nat /\ now \in 0..now
  BY <1>1, <1>2, <1>3
<1>6. sync(totalBalance) \in [accum : Nat, rate : Nat, updatedAt : 0..now]
  BY <1>1, <1>4, <1>5
<1>7. sync(totalBalance).rate = totalBalance.rate /\ sync(totalBalance).updatedAt = now
      /\ sync(totalBalance).accum = totalBalance.accum + growth
  BY <1>1, <1>4
<1> QED
  BY <1>3, <1>6, <1>7 DEF growth

\* The rate of the assets but one.
othersOf(t) == totalBalance.rate - balances[t].rateValue

\* The total rate includes that of an asset.
LEMMA OthersType ==
    ASSUME RatesInv, NEW t \in Tokens
    PROVE  othersOf(t) \in Nat /\ balances[t].rateValue \in Nat /\ totalBalance.rate = balances[t].rateValue + othersOf(t)
<1>1. totalBalance.rate \in Nat /\ \A u \in Tokens : RateOfToken[u] \in Nat /\ RateOfToken[u] = balances[u].rateValue
  BY FundTyping DEF RateOfToken, AssetRecords
<1>2. totalBalance.rate = SumFunctionOnSet(RateOfToken, Tokens)
  BY DEF RatesInv, RatesAddUp, SumFunction, RateOfToken
<1>3. RateOfToken[t] <= SumFunctionOnSet(RateOfToken, Tokens)
  <2>1. IsFiniteSet(Tokens)
    BY FundAssumption
  <2> QED
    BY <1>1, <2>1, SumIncludes
<1>4. balances[t].rateValue <= totalBalance.rate /\ balances[t].rateValue \in Nat
  BY <1>1, <1>2, <1>3
<1> QED
  BY <1>1, <1>4 DEF othersOf

\* The frame an operation starts with.
LEMMA FrameStart ==
    ASSUME RatesInv, NEW t \in Tokens, NEW total \in [accum : Nat, rate : Nat, updatedAt : 0..now],
           total.rate = totalBalance.rate, NEW f, f = frame(t, total)
    PROVE  /\ f \in Frames /\ Sound(f) /\ ~f.reverted /\ f.token = t /\ f.balance = balances[t] /\ f.total = total
           /\ f.sources = sourceBalances /\ f.price = configs[t].price /\ f.held = held[t]
           /\ f.next = nextReplenish[t] /\ f.amount = 0
           /\ ActiveOf(t) \in SUBSET Sources /\ othersOf(t) \in Nat
           /\ RatesFit(f, ActiveOf(t), othersOf(t))
<1>1. /\ balances[t] \in AssetRecords /\ held[t] \in Nat /\ configs[t].price \in Nat /\ configs[t].price \in Int
      /\ nextReplenish[t] \in Nat /\ total \in TotalRecords /\ sourceBalances \in [Sources -> SourceRecords]
  <2>1. balances[t] \in AssetRecords
    BY FundTyping
  <2>2. t \in AllTokens
    BY DEF AllTokens
  <2>3. held[t] \in Nat /\ configs[t].price \in Nat /\ configs[t].price \in Int
    BY <2>2, FundTyping
  <2>4. nextReplenish[t] \in 0..Cardinality(Sources)
    BY FundTyping
  <2>5. total \in TotalRecords
    BY DEF TotalRecords
  <2>6. ASSUME NEW s \in Sources PROVE sourceBalances[s] \in SourceRecords
    BY FundTyping DEF SourceRecords
  <2> QED
    BY <2>1, <2>3, <2>4, <2>5, <2>6, FundTyping
<1>2. /\ f.token = t /\ f.balance = balances[t] /\ f.total = total /\ f.sources = sourceBalances
      /\ f.price = configs[t].price /\ f.held = held[t] /\ f.next = nextReplenish[t]
      /\ f.amount = 0 /\ f.value = 0 /\ f.expected = 0 /\ f.reverted = FALSE
  BY DEF frame
<1>3. f \in Frames
  <2>1. f = [token |-> f.token, balance |-> f.balance, total |-> f.total, sources |-> f.sources, next |-> f.next,
             price |-> f.price, held |-> f.held, amount |-> f.amount, value |-> f.value, expected |-> f.expected,
             reverted |-> f.reverted]
    BY DEF frame
  <2>2. /\ f.token \in Tokens /\ f.balance \in AssetRecords /\ f.total \in TotalRecords
        /\ f.sources \in [Sources -> SourceRecords] /\ f.next \in Nat /\ f.price \in Int /\ f.held \in Nat
    <3>1. /\ f.token = t /\ f.balance = balances[t] /\ f.total = total /\ f.sources = sourceBalances
          /\ f.price = configs[t].price /\ f.held = held[t] /\ f.next = nextReplenish[t]
      BY <1>2
    <3> QED
      BY ONLY t \in Tokens, <1>1, <3>1
  <2>3. f.amount \in Nat /\ f.value \in Int /\ f.expected \in Nat /\ f.reverted \in BOOLEAN
    <3>1. f.amount = 0 /\ f.value = 0 /\ f.expected = 0
      BY <1>2
    <3>2. f.reverted \in BOOLEAN
      BY <1>2
    <3> QED
      BY ONLY <3>1, <3>2
  <2> QED
    BY ONLY <2>1, <2>2, <2>3 DEF Frames
<1>4. Sound(f)
  <2>1. \A s \in Sources : sourceBalances[s].lastPremium >= 0
    BY FundTyping
  <2> QED
    BY <1>1, <1>2, <2>1 DEF Sound
<1>5. RatesFit(f, ActiveOf(t), othersOf(t))
  <2>1. RatesIn(f) = RateOfSource
    BY <1>2 DEF RatesIn, RateOfSource
  <2>2. balances[t].rateValue = SumFunctionOnSet(RateOfSource, ActiveOf(t))
        /\ totalBalance.rate = SumFunctionOnSet(RateOfSource, Sources)
    BY DEF RatesInv, RatesAddUp, TotalRateOK
  <2> QED
    BY <1>2, <2>1, <2>2, OthersType DEF RatesFit
<1> QED
  BY <1>2, <1>3, <1>4, <1>5, FundTyping, OthersType

\* The rates add up when a frame has been saved, of which the active sources have changed.
LEMMA RatesSaved ==
    ASSUME RatesInv, NEW t \in Tokens, NEW f \in Frames, NEW active \in SUBSET Sources,
           RatesFit(f, active, othersOf(t)),
           balances' = [balances EXCEPT ![t] = f.balance], totalBalance' = f.total, sourceBalances' = f.sources,
           ActiveOf(t)' = active,
           \A u \in Tokens \ {t} : ActiveOf(u)' = ActiveOf(u),
           \A u \in Tokens \ {t} : \A s \in ActiveOf(u) : f.sources[s].rate = sourceBalances[s].rate,
           \A s \in Sources : f.sources[s].rate > 0 => isRegistered(s)' /\ s \in ActiveOf(sourceToken[s])'
    PROVE  RatesAddUp' /\ TotalRateOK'
<1> DEFINE P == RateOfToken
           Q == [u \in Tokens |-> balances'[u].rateValue]
           R == [s \in Sources |-> sourceBalances'[s].rate]
<1>1. Clock /\ balances \in [Tokens -> AssetRecords] /\ IsFiniteSet(Tokens) /\ IsFiniteSet(Sources)
  BY FundTyping, FundAssumption
<1>2. \A u \in Tokens : P[u] \in Nat /\ P[u] = balances[u].rateValue
  BY <1>1 DEF RateOfToken, AssetRecords
<1>3. balances'[t] = f.balance /\ \A u \in Tokens \ {t} : balances'[u] = balances[u]
  BY <1>1
<1>4. Q[t] = f.balance.rateValue /\ Q[t] \in Int /\ \A u \in Tokens \ {t} : Q[u] = P[u]
  BY <1>2, <1>3 DEF Frames, AssetRecords
<1>5. R = RatesIn(f)
  BY DEF RatesIn
<1>6. f.balance.rateValue = SumFunctionOnSet(R, active) /\ f.total.rate = f.balance.rateValue + othersOf(t)
      /\ f.total.rate = SumFunctionOnSet(R, Sources)
  BY <1>5 DEF RatesFit
<1>7. SumFunctionOnSet(P, Tokens) = totalBalance.rate
  BY DEF RatesInv, RatesAddUp, SumFunction, RateOfToken
<1>8. SumFunctionOnSet(Q, Tokens) = f.total.rate
  <2>1. Summable(P, Tokens) /\ Q[t] \in Int /\ ChangedAt(P, Q, Tokens, t)
    BY <1>1, <1>2, <1>4 DEF Summable, ChangedAt
  <2> HIDE DEF P, Q
  <2>2. SumFunctionOnSet(Q, Tokens) = SumFunctionOnSet(P, Tokens) - P[t] + Q[t]
    BY ONLY Zenon, t \in Tokens, <2>1, SumChange
  <2>3. totalBalance.rate = P[t] + othersOf(t) /\ othersOf(t) \in Nat /\ P[t] \in Nat
    BY <1>2, OthersType
  <2> QED
    BY <1>4, <1>6, <1>7, <2>2, <2>3
<1>9. (totalBalance.rate = SumFunction(RateOfToken))'
  <2>1. RateOfToken' = Q
    BY DEF RateOfToken
  <2>2. DOMAIN Q = Tokens
    OBVIOUS
  <2> HIDE DEF Q
  <2> QED
    BY <1>8, <2>1, <2>2 DEF SumFunction
<1>10. RateOfSource' = R
  BY DEF RateOfSource
<1> HIDE DEF R
<1>11. ASSUME NEW u \in Tokens
       PROVE  balances'[u].rateValue = SumFunctionOnSet(R, ActiveOf(u)')
  <2>1. CASE u = t
    BY <1>3, <1>6, <2>1
  <2>2. CASE u # t
    <3> DEFINE A == ActiveOf(u)
    <3>1. A' = A /\ A \in SUBSET Sources
      BY <2>2, FundTyping
    <3>2. Summable(RateOfSource, A) /\ \A s \in A : RateOfSource[s] = R[s]
      <4>1. \A s \in Sources : RateOfSource[s] \in Nat /\ RateOfSource[s] = sourceBalances[s].rate
        <5> TAKE s \in Sources
        <5>1. sourceBalances[s].rate \in Rates \union {0}
          BY FundTyping
        <5> QED
          BY <5>1, RatesAreNatural DEF RateOfSource
      <4>2. \A s \in A : f.sources[s].rate = sourceBalances[s].rate
        BY <2>2
      <4>3. \A s \in Sources : R[s] = f.sources[s].rate
        BY DEF R
      <4>4. IsFiniteSet(A)
        BY <1>1, <3>1, FS_Subset
      <4> HIDE DEF A
      <4> QED
        BY <3>1, <4>1, <4>2, <4>3, <4>4 DEF Summable
    <3>3. SumFunctionOnSet(RateOfSource, A) = SumFunctionOnSet(R, A)
      <4> HIDE DEF A
      <4> QED
        BY <3>2, SumSame
    <3>4. balances[u].rateValue = SumFunctionOnSet(RateOfSource, A)
      BY DEF RatesInv, RatesAddUp
    <3> QED
      BY <1>3, <2>2, <3>1, <3>3, <3>4
  <2> QED
    BY <2>1, <2>2
<1>12. (\A u \in Tokens : balances[u].rateValue = SumFunctionOnSet(RateOfSource, ActiveOf(u)))'
  BY <1>10, <1>11
<1>13. (\A s \in Sources : sourceBalances[s].rate > 0 => isRegistered(s) /\ s \in ActiveOf(sourceToken[s]))'
  OBVIOUS
<1>14. TotalRateOK'
  BY <1>6, <1>10 DEF TotalRateOK
<1> QED
  BY <1>9, <1>12, <1>13, <1>14 DEF RatesAddUp

\* The records that a frame has are of the right type when it is saved.
LEMMA StorageSaved ==
    ASSUME RatesInv, now' = now, NEW t \in Tokens, NEW f \in Frames, Sound(f),
           balances' = [balances EXCEPT ![t] = f.balance], totalBalance' = f.total, sourceBalances' = f.sources,
           held' = [held EXCEPT ![t] = f.held]
    PROVE  /\ held' \in [AllTokens -> Nat]
           /\ sourceBalances' \in [Sources -> [lastPremium : Nat, rate : Rates \union {0}, updatedAt : 0..now']]
           /\ totalBalance' \in [accum : Nat, rate : Nat, updatedAt : 0..now']
           /\ balances' \in [Tokens -> [accumAmount : Nat, rateValue : Nat, applyFrom : 0..now']]
<1>1. held' \in [AllTokens -> Nat]
  <2>1. f.held \in Nat /\ held \in [AllTokens -> Nat]
    BY FundTyping DEF Frames
  <2> QED
    BY <2>1
<1>2. sourceBalances' \in [Sources -> [lastPremium : Nat, rate : Rates \union {0}, updatedAt : 0..now']]
  <2>1. f.sources \in [Sources -> SourceRecords]
    BY DEF Frames
  <2>2. ASSUME NEW s \in Sources
        PROVE  f.sources[s] \in [lastPremium : Nat, rate : Rates \union {0}, updatedAt : 0..now]
    <3>1. f.sources[s] \in SourceRecords /\ f.sources[s].lastPremium >= 0
      BY <2>1 DEF Sound
    <3> DEFINE Rs == Rates \union {0}
    <3>2. f.sources[s] \in [lastPremium : Int, rate : Rs, updatedAt : 0..now]
      BY <3>1 DEF SourceRecords
    <3> HIDE DEF Rs
    <3>3. f.sources[s] \in [lastPremium : Nat, rate : Rs, updatedAt : 0..now]
      BY <3>1, <3>2
    <3> QED
      BY <3>3 DEF Rs
  <2> QED
    BY <2>1, <2>2
<1>3. totalBalance' \in [accum : Nat, rate : Nat, updatedAt : 0..now']
  <2>1. f.total \in [accum : Int, rate : Nat, updatedAt : 0..now] /\ f.total.accum >= 0
    BY DEF Frames, TotalRecords, Sound
  <2> QED
    BY <2>1
<1>4. balances' \in [Tokens -> [accumAmount : Nat, rateValue : Nat, applyFrom : 0..now']]
  <2>1. balances \in [Tokens -> AssetRecords] /\ f.balance \in AssetRecords
    BY FundTyping DEF Frames
  <2>2. balances' \in [Tokens -> AssetRecords]
    BY <2>1
  <2> QED
    BY <2>2 DEF AssetRecords
<1> QED
  BY <1>1, <1>2, <1>3, <1>4

\* Tokens stay received when the fund gets at least what the balance does.
LEMMA TokensSaved ==
    ASSUME RatesInv, TokensReceived, NEW t \in Tokens, NEW f \in Frames,
           takenFees' = takenFees, held' = [held EXCEPT ![t] = f.held],
           \A u \in Tokens \ {t} : balances'[u].accumAmount = balances[u].accumAmount,
           balances'[t].accumAmount \in Nat,
           f.held - balances'[t].accumAmount >= held[t] - balances[t].accumAmount
    PROVE  TokensReceived'
<1> SUFFICES ASSUME NEW u \in Tokens PROVE held'[u] + takenFees'[u] >= balances'[u].accumAmount
  BY DEF TokensReceived
<1>1. u \in AllTokens /\ t \in AllTokens
  BY DEF AllTokens
<1>2. held[u] \in Nat /\ held[t] \in Nat /\ takenFees[u] \in Nat /\ held \in [AllTokens -> Nat] /\ f.held \in Nat
      /\ balances[u].accumAmount \in Nat /\ balances[t].accumAmount \in Nat
  BY <1>1, FundTyping DEF AssetRecords, Frames
<1>3. held[u] + takenFees[u] >= balances[u].accumAmount
  BY DEF TokensReceived
<1>4. CASE u = t
  <2>1. held'[t] = f.held
    BY <1>1, <1>2
  <2> QED
    BY <1>2, <1>3, <1>4, <2>1
<1>5. CASE u # t
  <2>1. held'[u] = held[u]
    BY <1>1, <1>2, <1>5
  <2> QED
    BY <1>3, <1>5, <2>1
<1> QED
  BY <1>4, <1>5

\* The tokens and the supply are covered before a frame is made, and when it is saved.
LEMMA CoveredBefore ==
    ASSUME RatesInv, Covered, NEW t \in Tokens, NEW f \in Frames,
           f.balance = balances[t], f.sources = sourceBalances, f.total = sync(totalBalance)
    PROVE  Surplus(f) >= SumFunctionOnSet(AmountOfToken, Tokens \ {t})
<1> DEFINE rest == SumFunctionOnSet(AmountOfToken, Tokens \ {t})
           dues == SumFunctionOnSet(SupplyOfSource, Sources)
<1>1. IsFiniteSet(Tokens) /\ \A u \in Tokens : AmountOfToken[u] \in Nat /\ AmountOfToken[u] = balances[u].accumAmount
  BY FundTyping, FundAssumption DEF AmountOfToken, AssetRecords
<1>2. Summable(AmountOfToken, Tokens) /\ Summable(AmountOfToken, Tokens \ {t})
  <2>1. IsFiniteSet(Tokens \ {t})
    BY <1>1, FS_Subset
  <2> QED
    BY <1>1, <2>1 DEF Summable
<1>3. SumFunctionOnSet(AmountOfToken, Tokens) = AmountOfToken[t] + rest /\ rest \in Int
  BY <1>2, SumRemove, SumInt
<1>4. DuesIn(f) = SupplyOfSource
  BY DEF DuesIn, DueIn, SupplyOfSource, Supply, expectedSupply
<1>5. dues \in Int
  <2>1. Clock
    BY FundTyping
  <2>2. Summable(DuesIn(f), Sources)
    BY <2>1, FrameSums
  <2> QED
    BY <1>4, <2>2, SumInt
<1>6. f.total.accum \in Int
  BY DEF Frames, TotalRecords
<1>7. f.total.accum >= AmountOfToken[t] + rest + dues
  BY <1>3 DEF Covered
<1>8. Surplus(f) = f.total.accum - AmountOfToken[t] - dues
  BY <1>1, <1>4 DEF Surplus
<1>9. AmountOfToken[t] \in Int
  BY <1>1
<1> HIDE DEF rest, dues
<1>10. Surplus(f) >= rest
  BY <1>3, <1>5, <1>6, <1>7, <1>8, <1>9
<1> QED
  BY <1>10 DEF rest

\* The total covers what is stored when the frame has the surplus for the other assets.
LEMMA CoveredSaved ==
    ASSUME RatesInv, now' = now, NEW t \in Tokens, NEW f \in Frames,
           Surplus(f) >= SumFunctionOnSet(AmountOfToken, Tokens \ {t}),
           sourceBalances' = f.sources, balances'[t].accumAmount \in Nat,
           balances'[t].accumAmount <= f.balance.accumAmount,
           \A u \in Tokens \ {t} : balances'[u].accumAmount = balances[u].accumAmount,
           sync(totalBalance)'.accum \in Int, sync(totalBalance)'.accum >= f.total.accum
    PROVE  Covered'
<1> DEFINE P == AmountOfToken
           Q == [u \in Tokens |-> balances'[u].accumAmount]
           dues == SumFunctionOnSet(DuesIn(f), Sources)
<1>1. IsFiniteSet(Tokens) /\ \A u \in Tokens : P[u] \in Nat /\ P[u] = balances[u].accumAmount
  BY FundTyping, FundAssumption DEF AmountOfToken, AssetRecords
<1>2. Q[t] = balances'[t].accumAmount /\ \A u \in Tokens \ {t} : Q[u] = P[u]
  BY <1>1
<1>3. AmountOfToken' = Q
  BY DEF AmountOfToken
<1>4. SupplyOfSource' = DuesIn(f)
  BY DEF DuesIn, DueIn, SupplyOfSource, Supply, expectedSupply
<1> HIDE DEF P, Q
<1>5. Summable(P, Tokens \ {t}) /\ Summable(Q, Tokens)
  <2>1. IsFiniteSet(Tokens \ {t})
    BY <1>1, FS_Subset
  <2> QED
    BY <1>1, <1>2, <2>1 DEF Summable
<1>6. SumFunctionOnSet(Q, Tokens) = Q[t] + SumFunctionOnSet(Q, Tokens \ {t})
  BY <1>5, SumRemove
<1>7. SumFunctionOnSet(P, Tokens \ {t}) = SumFunctionOnSet(Q, Tokens \ {t})
  <2>1. \A u \in Tokens \ {t} : P[u] = Q[u]
    BY <1>2
  <2> QED
    BY ONLY <1>5, <2>1, SumSame
<1>8. dues \in Int /\ SumFunctionOnSet(P, Tokens \ {t}) \in Int
  <2>1. Clock
    BY FundTyping
  <2>2. Summable(DuesIn(f), Sources)
    BY <2>1, FrameSums
  <2> QED
    BY <1>5, <2>2, SumInt
<1>9. f.total.accum \in Int /\ f.balance.accumAmount \in Int
  BY DEF Frames, TotalRecords, AssetRecords
<1> DEFINE rest == SumFunctionOnSet(P, Tokens \ {t})
           amount == balances'[t].accumAmount
           synced == sync(totalBalance)'.accum
<1>10. f.total.accum - f.balance.accumAmount - dues >= rest
  BY DEF Surplus, P
<1>11. SumFunctionOnSet(Q, Tokens) = amount + rest
  BY <1>2, <1>6, <1>7
<1>12. synced \in Int /\ synced >= f.total.accum /\ amount \in Nat /\ amount <= f.balance.accumAmount /\ rest \in Int
  BY <1>8
<1> HIDE DEF dues, rest, amount, synced
<1>13. synced >= amount + rest + dues
  BY <1>8, <1>9, <1>10, <1>12
<1>14. synced >= SumFunctionOnSet(Q, Tokens) + dues
  BY <1>11, <1>13
<1> QED
  BY <1>3, <1>4, <1>14 DEF Covered, synced, dues

-----------------------------------------------------------------------------
(* Lists of sources.                                                       *)

\* A list without repetition is no longer than there are sources.
LEMMA LengthBound ==
    ASSUME NEW list \in Seq(Sources), Once(list)
    PROVE  Len(list) \in Nat /\ Len(list) <= Cardinality(Sources) /\ Cardinality(Sources) \in Nat
<1>1. Len(list) \in Nat /\ DOMAIN list = 1..Len(list) /\ IsFiniteSet(Sources)
  BY FundAssumption
<1>2. list \in [1..Len(list) -> Sources]
  BY <1>1
<1>3. IsInjective(list)
  BY <1>1 DEF Once, IsInjective
<1>4. Cardinality(1..Len(list)) = Len(list)
  BY <1>1, FS_Interval
<1>5. list \in Injection(1..Len(list), Sources)
  BY <1>2, <1>3 DEF Injection
<1> QED
  BY <1>1, <1>4, <1>5, FS_Injection, FS_CardinalityType

\* EnumerableSet.add.
LEMMA AddSource ==
    ASSUME NEW list \in Seq(Sources), Once(list), NEW s \in Sources, NEW more, more = addSource(list, s)
    PROVE  more \in Seq(Sources) /\ Once(more) /\ Elements(more) = Elements(list) \union {s}
<1>1. CASE Contains(list, s)
  <2>1. more = list
    BY <1>1 DEF addSource
  <2>2. s \in Elements(list)
    BY <1>1 DEF Contains, Elements
  <2> QED
    BY <2>1, <2>2
<1>2. CASE ~Contains(list, s)
  <2>1. more = Append(list, s)
    BY <1>2 DEF addSource
  <2>2. s \notin Elements(list)
    BY <1>2 DEF Contains, Elements
  <2>3. more \in Seq(Sources) /\ Len(more) = Len(list) + 1 /\ Len(list) \in Nat
        /\ DOMAIN more = 1..(Len(list) + 1) /\ DOMAIN list = 1..Len(list)
        /\ more[Len(list) + 1] = s /\ \A k \in 1..Len(list) : more[k] = list[k]
    BY <2>1
  <2>4. Once(more)
    <3> SUFFICES ASSUME NEW i \in 1..(Len(list) + 1), NEW j \in 1..(Len(list) + 1), more[i] = more[j]
                 PROVE  i = j
      BY <2>3 DEF Once
    <3>1. CASE i \in 1..Len(list) /\ j \in 1..Len(list)
      BY <2>3, <3>1 DEF Once
    <3>2. CASE i \in 1..Len(list) /\ j = Len(list) + 1
      BY <2>2, <2>3, <3>2 DEF Elements
    <3>3. CASE i = Len(list) + 1 /\ j \in 1..Len(list)
      BY <2>2, <2>3, <3>3 DEF Elements
    <3>4. CASE i = Len(list) + 1 /\ j = Len(list) + 1
      BY <3>4
    <3> QED
      BY <2>3, <3>1, <3>2, <3>3, <3>4
  <2>5. Elements(more) = Elements(list) \union {s}
    <3>1. ASSUME NEW x \in Elements(more) PROVE x \in Elements(list) \union {s}
      BY <2>3 DEF Elements
    <3>2. ASSUME NEW x \in Elements(list) PROVE x \in Elements(more)
      BY <2>3 DEF Elements
    <3>3. s \in Elements(more)
      BY <2>3 DEF Elements
    <3> QED
      BY <3>1, <3>2, <3>3
  <2> QED
    BY <2>3, <2>4, <2>5
<1> QED
  BY <1>1, <1>2

\* EnumerableSet.remove.
LEMMA RemoveSource ==
    ASSUME NEW list \in Seq(Sources), Once(list), NEW s \in Sources, NEW fewer, fewer = removeSource(list, s)
    PROVE  fewer \in Seq(Sources) /\ Once(fewer) /\ Elements(fewer) = Elements(list) \ {s}
<1> DEFINE n == Len(list)
<1>1. n \in Nat /\ DOMAIN list = 1..n /\ list \in [1..n -> Sources]
  OBVIOUS
<1>2. CASE ~Contains(list, s)
  <2>1. fewer = list
    BY <1>2 DEF removeSource
  <2>2. s \notin Elements(list)
    BY <1>2 DEF Contains, Elements
  <2> QED
    BY <2>1, <2>2
<1>3. CASE Contains(list, s)
  <2>1. PICK p \in 1..n : list[p] = s
    BY <1>3 DEF Contains
  <2> DEFINE moved == [k \in DOMAIN list |-> IF list[k] = s THEN Last(list) ELSE list[k]]
  <2>2. fewer = SubSeq(moved, 1, Len(moved) - 1)
    BY <1>3 DEF removeSource, Front
  <2>3. moved \in [1..n -> Sources] /\ Len(moved) = n
    <3>1. n >= 1 /\ list[n] \in Sources
      BY <1>1, <2>1
    <3> QED
      BY <1>1, <3>1 DEF Last
  <2>4. \A k \in 1..n : moved[k] = IF k = p THEN list[n] ELSE list[k]
    BY <1>1, <2>1 DEF Last, Once
  <2> HIDE DEF moved
  <2>5. fewer \in Seq(Sources) /\ Len(fewer) = n - 1 /\ DOMAIN fewer = 1..(n - 1)
        /\ \A k \in 1..(n - 1) : fewer[k] = IF k = p THEN list[n] ELSE list[k]
    <3>1. moved \in Seq(Sources) /\ n - 1 \in Nat
      BY <1>1, <2>1, <2>3
    <3>2. fewer \in Seq(Sources) /\ Len(fewer) = n - 1 /\ DOMAIN fewer = 1..(n - 1)
          /\ \A k \in 1..(n - 1) : fewer[k] = moved[k]
      BY <2>2, <2>3, <3>1
    <3> QED
      BY <1>1, <2>4, <3>2
  <2>6. Once(fewer)
    BY <1>1, <2>1, <2>5 DEF Once
  <2>7. ASSUME NEW x \in Elements(fewer) PROVE x \in Elements(list) \ {s}
    BY <1>1, <2>1, <2>5 DEF Elements, Once
  <2>8. ASSUME NEW x \in Elements(list) \ {s} PROVE x \in Elements(fewer)
    <3>1. PICK k \in 1..n : x = list[k]
      BY <1>1, <2>8 DEF Elements
    <3>2. CASE k = n
      <4>1. p \in 1..(n - 1) /\ fewer[p] = x
        BY <1>1, <2>1, <2>5, <2>8, <3>1, <3>2
      <4> QED
        BY <2>5, <4>1 DEF Elements
    <3>3. CASE k # n
      <4>1. k \in 1..(n - 1) /\ fewer[k] = x
        BY <1>1, <2>1, <2>5, <2>8, <3>1, <3>3
      <4> QED
        BY <2>5, <4>1 DEF Elements
    <3> QED
      BY <3>2, <3>3
  <2> QED
    BY <2>5, <2>6, <2>7, <2>8
<1> QED
  BY <1>2, <1>3

-----------------------------------------------------------------------------
(* What the actuary reports.                                               *)

\* What is allocated to a source grows by its rate, and by late premium.
LEMMA AllocatedType ==
    ASSUME RatesInv, NEW s \in Sources, NEW late \in Nat
    PROVE  /\ allocatedTotal(s, late) \in Nat /\ allocatedTotal(s, 0) \in Nat
           /\ allocatedTotal(s, late) = allocatedTotal(s, 0) + late
           /\ allocatedTotal(s, 0) = allocated[s].accum + allocated[s].rate * (now - allocated[s].updatedAt)
<1>1. allocated[s] \in [accum : Nat, rate : Nat, updatedAt : 0..now] /\ now \in Nat
  BY FundTyping DEF RatesInv, AllocatedOK
<1>2. now - allocated[s].updatedAt \in Nat /\ allocated[s].rate \in Nat /\ allocated[s].accum \in Nat
  BY <1>1
<1> DEFINE growth == allocated[s].rate * (now - allocated[s].updatedAt)
<1>3. growth \in Nat
  BY <1>2
<1>4. sync(allocated[s]).accum = allocated[s].accum + growth
  BY <1>1 DEF sync
<1> HIDE DEF growth
<1>5. allocatedTotal(s, late) = allocated[s].accum + growth + late /\ allocatedTotal(s, 0) = allocated[s].accum + growth
  BY <1>2, <1>3, <1>4 DEF allocatedTotal
<1> QED
  BY <1>2, <1>3, <1>5 DEF growth

\* What a report of the actuary leads to: total is all premium that is allocated to s.
Reported(f, s, t, total, newRate) ==
    /\ t \in Tokens /\ f.token = t /\ f \in Frames /\ Sound(f)
    /\ RatesFit(f, ActiveOf(t) \union {s}, othersOf(t))
    /\ \A r \in Sources \ {s} : f.sources[r] = sourceBalances[r]
    /\ f.sources[s].rate \in {0, newRate} /\ f.sources[s].updatedAt = now
    /\ f.sources[s].lastPremium <= total
    /\ f.held - f.balance.accumAmount = held[t] - balances[t].accumAmount
    /\ f.total.updatedAt = now
    /\ AtPar => PricedAtPar(f) /\ Surplus(f) >= SumFunctionOnSet(AmountOfToken, Tokens \ {t})

\* The frame that a report leads to.
LEMMA ReportEffect ==
    ASSUME FundInv, NEW s \in Sources, isRegistered(s), NEW late \in LatePremium, NEW newRate \in Rates \union {0},
           NEW pay \in Pays, sourceBalances[s].lastPremium <= allocatedTotal(s, late),
           NEW f, f = allocationUpdated(frame(sourceToken[s], sync(totalBalance)), s,
                                        allocatedTotal(s, late) - sourceBalances[s].lastPremium, newRate, pay),
           ~f.reverted
    PROVE  Reported(f, s, sourceToken[s], allocatedTotal(s, late), newRate)
<1> DEFINE t == sourceToken[s]
           e == frame(t, sync(totalBalance))
           increment == allocatedTotal(s, late) - sourceBalances[s].lastPremium
<1>1. RatesInv /\ Clock /\ now \in Nat
  BY FundTyping DEF FundInv
<1>2. t \in Tokens
  BY <1>1, FundTyping DEF isRegistered
<1>3. sync(totalBalance) \in [accum : Nat, rate : Nat, updatedAt : 0..now]
      /\ sync(totalBalance).rate = totalBalance.rate /\ sync(totalBalance).updatedAt = now
  BY <1>1, SyncedTotal
<1> HIDE DEF t
<1>4. /\ e \in Frames /\ Sound(e) /\ ~e.reverted /\ e.token = t /\ e.balance = balances[t]
      /\ e.total = sync(totalBalance) /\ e.sources = sourceBalances /\ e.price = configs[t].price
      /\ e.held = held[t] /\ ActiveOf(t) \in SUBSET Sources /\ othersOf(t) \in Nat
      /\ RatesFit(e, ActiveOf(t), othersOf(t))
  BY <1>1, <1>2, <1>3, FrameStart
<1>5. f = allocationUpdated(e, s, increment, newRate, pay)
  BY DEF t
<1> HIDE DEF e
<1>6. late \in Nat /\ allocatedTotal(s, late) \in Nat /\ allocatedTotal(s, 0) <= allocatedTotal(s, late)
      /\ allocatedTotal(s, 0) \in Nat
  <2>1. late \in Nat
    BY FundAssumption
  <2> QED
    BY <1>1, <2>1, AllocatedType
<1>7. sourceBalances[s].lastPremium \in Nat /\ increment \in Nat
  <2>1. sourceBalances[s].lastPremium \in Nat
    BY <1>1, FundTyping
  <2> QED
    BY <1>6, <2>1
<1>8. s \notin ActiveOf(t) => e.sources[s].rate = 0
  <2>1. sourceBalances[s].rate \in Nat
    <3>1. sourceBalances[s].rate \in Rates \union {0}
      BY <1>1, FundTyping
    <3> QED
      BY <3>1, RatesAreNatural
  <2>2. sourceBalances[s].rate > 0 => s \in ActiveOf(t)
    BY <1>1 DEF RatesInv, RatesAddUp, t
  <2> QED
    BY <1>4, <2>1, <2>2
<1>9. e.sources[s].rate <= e.balance.rateValue /\ e.sources[s].rate <= e.total.rate
  BY <1>1, <1>4, <1>8, RateIncluded
<1>10. /\ Updated(e, f, s, increment, newRate)
       /\ pay.price = WAD => f.value = f.amount
       /\ pay.price = WAD /\ PricedAtPar(e) => PricedAtPar(f)
  <2> HIDE DEF increment
  <2> QED
    BY <1>1, <1>4, <1>5, <1>7, <1>9, UpdateType
<1>11. /\ f \in Frames /\ f.token = t
       /\ \A r \in Sources \ {s} : f.sources[r] = e.sources[r]
       /\ f.sources[s].rate \in {0, newRate} /\ f.sources[s].updatedAt = now
       /\ f.sources[s].lastPremium <= e.sources[s].lastPremium + most(increment, DueIn(e, s))
       /\ f.held = e.held + f.amount
       /\ f.balance.accumAmount = e.balance.accumAmount + f.amount
       /\ f.balance.rateValue = e.balance.rateValue - e.sources[s].rate + f.sources[s].rate
       /\ f.total.rate = e.total.rate - e.sources[s].rate + f.sources[s].rate
       /\ f.total.updatedAt = e.total.updatedAt
       /\ f.total.accum = e.total.accum - DueIn(e, s) + f.value
       /\ f.sources[s].lastPremium >= e.sources[s].lastPremium
       /\ e.total.accum >= 0 => f.total.accum >= 0
       /\ e.price >= 0 => f.price >= 0
  BY <1>4, <1>10 DEF Updated
<1>12. Sound(f)
  <2>1. e.sources[s].lastPremium >= 0 /\ e.sources[s].lastPremium \in Int /\ f.sources[s].lastPremium \in Int
    BY <1>4, <1>11 DEF Sound, Frames, SourceRecords
  <2> QED
    BY <1>4, <1>11, <2>1 DEF Sound
<1>13. RatesFit(f, ActiveOf(t) \union {s}, othersOf(t))
  BY <1>1, <1>4, <1>8, <1>11, UpdateKeepsRates
<1>14. f.sources[s].lastPremium <= allocatedTotal(s, late)
  <2>1. DueIn(e, s) = Supply(s) /\ DueIn(e, s) \in Nat
    BY <1>1, <1>4, DueType DEF Supply
  <2>2. sourceBalances[s].lastPremium + Supply(s) <= allocatedTotal(s, 0)
    BY DEF FundInv, ChargesOK, ChargeOK
  <2>3. most(increment, DueIn(e, s)) = increment
    <3>1. DueIn(e, s) <= increment
      BY <1>6, <1>7, <2>1, <2>2
    <3> HIDE DEF increment
    <3> QED
      BY <1>7, <2>1, <3>1 DEF most
  <2>4. sourceBalances[s].lastPremium + increment = allocatedTotal(s, late)
    BY <1>6, <1>7
  <2> QED
    BY <1>4, <1>11, <2>3, <2>4
<1>15. f.held - f.balance.accumAmount = held[t] - balances[t].accumAmount
  <2>1. e.held \in Int /\ e.balance.accumAmount \in Int /\ f.amount \in Int
    BY <1>4, <1>11 DEF Frames, AssetRecords
  <2> QED
    BY <1>4, <1>11, <2>1
<1>16. ASSUME AtPar
       PROVE  PricedAtPar(f) /\ Surplus(f) >= SumFunctionOnSet(AmountOfToken, Tokens \ {t})
  <2>1. pay.price = WAD
    BY <1>16 DEF AtPar, Pays
  <2>2. PricedAtPar(e)
    BY <1>2, <1>4, <1>16 DEF FundInv, HeldAtPar, PricedAtPar
  <2>3. Surplus(f) = Surplus(e)
    BY <1>1, <1>4, <1>10, <1>11, <2>1, SurplusIsKept
  <2>4. Surplus(e) >= SumFunctionOnSet(AmountOfToken, Tokens \ {t})
    BY <1>1, <1>2, <1>4, <1>16, CoveredBefore DEF FundInv
  <2> QED
    BY <1>10, <2>1, <2>2, <2>3, <2>4
<1> QED
  BY <1>2, <1>3, <1>4, <1>11, <1>12, <1>13, <1>14, <1>15, <1>16 DEF t, Reported

\* A source whose records stay is charged what it was.
LEMMA ChargeKept ==
    ASSUME now' = now, NEW s \in Sources, ChargeOK(s), sourceBalances'[s] = sourceBalances[s],
           allocated'[s] = allocated[s], sourceToken'[s] = sourceToken[s],
           s \in formerSources => s \in formerSources'
    PROVE  ChargeOK(s)'
<1>1. Supply(s)' = Supply(s)
  BY DEF Supply, expectedSupply
<1>2. allocatedTotal(s, 0)' = allocatedTotal(s, 0)
  BY DEF allocatedTotal, sync
<1>3. isRegistered(s)' = isRegistered(s)
  BY DEF isRegistered
<1> QED
  BY <1>1, <1>2, <1>3 DEF ChargeOK

\* A frame is saved, of which the sources in active are those of its asset now.
SavesRates(f, t, active) ==
    /\ f \in Frames /\ f.token = t /\ RatesFit(f, active, othersOf(t))
    /\ ActiveOf(t)' = active /\ \A u \in Tokens \ {t} : ActiveOf(u)' = ActiveOf(u)
    /\ \A u \in Tokens \ {t} : \A s \in ActiveOf(u) : f.sources[s].rate = sourceBalances[s].rate
    /\ \A s \in Sources : f.sources[s].rate > 0 => isRegistered(s)' /\ s \in ActiveOf(sourceToken[s])'

\* A frame is stored: types, rates and tokens.
LEMMA FrameSaved ==
    ASSUME RatesInv, TokensReceived, now' = now, takenFees' = takenFees, NEW t \in Tokens, NEW f, Sound(f),
           saveFrame(f), NEW active \in SUBSET Sources, SavesRates(f, t, active),
           f.held - f.balance.accumAmount >= held[t] - balances[t].accumAmount
    PROVE  /\ RatesAddUp' /\ TotalRateOK' /\ TokensReceived'
           /\ held' \in [AllTokens -> Nat]
           /\ sourceBalances' \in [Sources -> [lastPremium : Nat, rate : Rates \union {0}, updatedAt : 0..now']]
           /\ totalBalance' \in [accum : Nat, rate : Nat, updatedAt : 0..now']
           /\ balances' \in [Tokens -> [accumAmount : Nat, rateValue : Nat, applyFrom : 0..now']]
<1>1. /\ f \in Frames /\ f.token = t /\ RatesFit(f, active, othersOf(t))
      /\ ActiveOf(t)' = active /\ \A u \in Tokens \ {t} : ActiveOf(u)' = ActiveOf(u)
      /\ \A u \in Tokens \ {t} : \A s \in ActiveOf(u) : f.sources[s].rate = sourceBalances[s].rate
      /\ \A s \in Sources : f.sources[s].rate > 0 => isRegistered(s)' /\ s \in ActiveOf(sourceToken[s])'
  BY DEF SavesRates
<1>2. /\ balances' = [balances EXCEPT ![t] = f.balance] /\ totalBalance' = f.total
      /\ sourceBalances' = f.sources /\ held' = [held EXCEPT ![t] = f.held]
  BY <1>1 DEF saveFrame
<1>3. RatesAddUp' /\ TotalRateOK'
  BY <1>1, <1>2, RatesSaved
<1>4. /\ held' \in [AllTokens -> Nat]
      /\ sourceBalances' \in [Sources -> [lastPremium : Nat, rate : Rates \union {0}, updatedAt : 0..now']]
      /\ totalBalance' \in [accum : Nat, rate : Nat, updatedAt : 0..now']
      /\ balances' \in [Tokens -> [accumAmount : Nat, rateValue : Nat, applyFrom : 0..now']]
  BY <1>1, <1>2, StorageSaved
<1>5. balances'[t] = f.balance /\ f.balance.accumAmount \in Nat
      /\ \A u \in Tokens \ {t} : balances'[u].accumAmount = balances[u].accumAmount
  BY <1>1, <1>2, FundTyping DEF Frames, AssetRecords
<1>6. TokensReceived'
  BY <1>1, <1>2, <1>5, TokensSaved
<1> QED
  BY <1>3, <1>4, <1>6

\* The same at par; f has the total when it is synced.
LEMMA FrameSavedAtPar ==
    ASSUME RatesInv, HeldAtPar, now' = now, NEW t \in Tokens, NEW f \in Frames,
           Surplus(f) >= SumFunctionOnSet(AmountOfToken, Tokens \ {t}), PricedAtPar(f),
           sourceBalances' = f.sources, balances' = [balances EXCEPT ![t] = f.balance], configs'[t].price = f.price,
           \A u \in Tokens \ {t} : configs'[u].price = configs[u].price,
           sync(totalBalance)'.accum \in Int, sync(totalBalance)'.accum >= f.total.accum
    PROVE  HeldAtPar' /\ Covered'
<1>1. balances'[t] = f.balance /\ f.balance.accumAmount \in Nat
      /\ \A u \in Tokens \ {t} : balances'[u].accumAmount = balances[u].accumAmount
  BY FundTyping DEF Frames, AssetRecords
<1>2. balances'[t].accumAmount \in Nat /\ balances'[t].accumAmount <= f.balance.accumAmount
  BY <1>1
<1>3. Covered'
  BY <1>1, <1>2, CoveredSaved
<1>4. HeldAtPar'
  BY <1>1 DEF HeldAtPar, PricedAtPar
<1> QED
  BY <1>3, <1>4

\* Bringing a total up to date does not lower it.
LEMMA SyncedAfter ==
    ASSUME Clock, now' = now, totalBalance' \in [accum : Nat, rate : Nat, updatedAt : 0..now']
    PROVE  sync(totalBalance)'.accum \in Int /\ sync(totalBalance)'.accum >= totalBalance'.accum
<1>1. now \in Nat /\ totalBalance'.accum \in Nat /\ totalBalance'.rate \in Nat /\ totalBalance'.updatedAt \in 0..now
  BY DEF Clock
<1>2. now - totalBalance'.updatedAt \in Nat
  BY <1>1
<1> DEFINE growth == totalBalance'.rate * (now - totalBalance'.updatedAt)
<1>3. growth \in Nat
  BY <1>1, <1>2
<1>4. sync(totalBalance)' = [totalBalance' EXCEPT !.accum = @ + growth, !.updatedAt = now]
  BY DEF sync
<1> HIDE DEF growth
<1>5. sync(totalBalance)'.accum = totalBalance'.accum + growth
  BY <1>4
<1> QED
  BY <1>1, <1>3, <1>5

\* premiumAllocationUpdated keeps the invariant.
LEMMA UpdateAllocationStep ==
    ASSUME FundInv, NEW s \in Sources, NEW late \in LatePremium, NEW rate \in Rates, NEW pay \in Pays,
           UpdateAllocation(s, late, rate, pay)
    PROVE  FundInv'
<1>1. /\ isRegistered(s) /\ sourceBalances[s].lastPremium <= allocatedTotal(s, late)
      /\ activeSources' = [activeSources EXCEPT ![sourceToken[s]] = addSource(@, s)]
      /\ allocated' = [allocated EXCEPT ![s] = [accum |-> allocatedTotal(s, late), rate |-> rate, updatedAt |-> now]]
      /\ UNCHANGED <<state, suspended, knownTokens, tokenActuaries, sourceToken, formerSources, feeVars, nextReplenish,
                     now>>
  BY DEF UpdateAllocation
<1>2. PICK f : /\ f = allocationUpdated(frame(sourceToken[s], sync(totalBalance)), s,
                                        allocatedTotal(s, late) - sourceBalances[s].lastPremium, rate, pay)
               /\ saveFrame(f)
               /\ configs' = [configs EXCEPT ![sourceToken[s]].price = f.price]
  BY DEF UpdateAllocation
<1>3. RatesInv /\ Clock /\ now \in Nat /\ rate \in Nat /\ late \in Nat
  BY FundTyping, FundAssumption DEF FundInv
<1>4. ~f.reverted /\ sourceBalances' = f.sources /\ totalBalance' = f.total
      /\ balances' = [balances EXCEPT ![f.token] = f.balance]
  BY <1>2 DEF saveFrame
<1>5. Reported(f, s, sourceToken[s], allocatedTotal(s, late), rate)
  <2>1. rate \in Rates \union {0}
    OBVIOUS
  <2> QED
    BY <1>1, <1>2, <1>4, <2>1, ReportEffect
<1>6. PICK t \in Tokens : t = sourceToken[s]
  BY <1>5 DEF Reported
<1>7. PICK active : active = ActiveOf(t) \union {s}
  OBVIOUS
<1>8. /\ f.token = t /\ f \in Frames /\ Sound(f)
      /\ RatesFit(f, active, othersOf(t))
      /\ \A r \in Sources \ {s} : f.sources[r] = sourceBalances[r]
      /\ f.sources[s].rate \in {0, rate} /\ f.sources[s].updatedAt = now
      /\ f.sources[s].lastPremium <= allocatedTotal(s, late)
      /\ f.held - f.balance.accumAmount = held[t] - balances[t].accumAmount
      /\ f.total.updatedAt = now
      /\ AtPar => /\ PricedAtPar(f)
                  /\ Surplus(f) >= SumFunctionOnSet(AmountOfToken, Tokens \ {t})
  BY <1>5, <1>6, <1>7 DEF Reported
<1>9. /\ \A u \in Tokens : activeSources[u] \in Seq(Sources) /\ ActiveOf(u) \in SUBSET Sources /\ Once(activeSources[u])
      /\ \A u \in Tokens : \A r \in ActiveOf(u) : sourceToken[r] = u
  BY <1>3, FundTyping DEF RatesInv, ActiveOK
<1>10. /\ activeSources'[t] = addSource(activeSources[t], s) /\ \A u \in Tokens \ {t} : activeSources'[u] = activeSources[u]
      /\ activeSources'[t] \in Seq(Sources) /\ Once(activeSources'[t]) /\ Elements(activeSources'[t]) = active
  <2>1. activeSources'[t] = addSource(activeSources[t], s) /\ \A u \in Tokens \ {t} : activeSources'[u] = activeSources[u]
    BY <1>1, <1>3, <1>6 DEF RatesInv, FundTypeOK
  <2>2. activeSources'[t] \in Seq(Sources) /\ Once(activeSources'[t])
        /\ Elements(activeSources'[t]) = Elements(activeSources[t]) \union {s}
    BY <1>8, <1>9, <2>1, AddSource
  <2>3. Elements(activeSources[t]) = ActiveOf(t)
    BY DEF Elements, ActiveOf
  <2> QED
    BY <1>7, <2>1, <2>2, <2>3
<1>11. ActiveOf(t)' = active /\ \A u \in Tokens \ {t} : ActiveOf(u)' = ActiveOf(u)
  <2>1. ActiveOf(t)' = Elements(activeSources'[t])
    BY DEF ActiveOf, Elements
  <2>2. \A u \in Tokens \ {t} : ActiveOf(u)' = ActiveOf(u)
    BY <1>10 DEF ActiveOf
  <2> QED
    BY <1>10, <2>1, <2>2
<1>12. ActiveOK'
  <2>1. ASSUME NEW u \in Tokens
        PROVE  Once(activeSources'[u]) /\ \A r \in ActiveOf(u)' : sourceToken'[r] = u
    <3>1. CASE u = t
      <4>1. ActiveOf(u)' = active
        BY <1>11, <3>1 DEF ActiveOf
      <4> QED
        BY <1>1, <1>6, <1>7, <1>9, <1>10, <3>1, <4>1
    <3>2. CASE u # t
      BY <1>1, <1>9, <1>10, <1>11, <3>2
    <3> QED
      BY <3>1, <3>2
  <2>2. (\A u \in Tokens : Once(activeSources[u]))' /\ (\A u \in Tokens : \A r \in ActiveOf(u) : sourceToken[r] = u)'
    BY <2>1 DEF Once
  <2> QED
    BY <2>2 DEF ActiveOK
<1>13. active \in SUBSET Sources
  BY <1>9, <1>7
<1>14. SavesRates(f, t, active)
  <2>1. ASSUME NEW r \in Sources, f.sources[r].rate > 0
        PROVE  isRegistered(r)' /\ r \in ActiveOf(sourceToken[r])'
    <3>1. CASE r = s
      <4>1. sourceToken'[s] = t
        BY <1>1, <1>6
      <4>2. ActiveOf(sourceToken[s])' = ActiveOf(t)'
        BY <4>1 DEF ActiveOf
      <4>3. isRegistered(s)'
        BY <1>1 DEF isRegistered
      <4> QED
        BY <1>7, <1>11, <3>1, <4>2, <4>3
    <3>2. CASE r # s
      <4>1. isRegistered(r) /\ r \in ActiveOf(sourceToken[r])
        BY <1>3, <1>8, <2>1, <3>2 DEF RatesInv, RatesAddUp
      <4>2. sourceToken[r] \in Tokens /\ sourceToken'[r] = sourceToken[r]
        BY <1>1, <1>3, <4>1, FundTyping DEF isRegistered
      <4>3. r \in ActiveOf(sourceToken[r])'
        <5>1. r \in ActiveOf(sourceToken[r]) /\ (sourceToken[r] = t => r \in active)
          BY <1>7, <4>1
        <5>2. PICK u \in Tokens : u = sourceToken[r]
          BY <4>2
        <5>3. r \in ActiveOf(u)'
          BY <1>11, <5>1, <5>2
        <5>4. ActiveOf(sourceToken[r])' = ActiveOf(u)'
          BY <4>2, <5>2 DEF ActiveOf
        <5> QED
          BY <5>3, <5>4
      <4> QED
        BY <1>1, <4>1, <4>3 DEF isRegistered
    <3> QED
      BY <3>1, <3>2
  <2>2. \A u \in Tokens \ {t} : \A r \in ActiveOf(u) : f.sources[r].rate = sourceBalances[r].rate
    BY <1>8, <1>9, <1>6
  <2> QED
    BY <1>8, <1>11, <2>1, <2>2 DEF SavesRates
<1>15. /\ RatesAddUp' /\ TotalRateOK' /\ TokensReceived'
       /\ held' \in [AllTokens -> Nat]
       /\ sourceBalances' \in [Sources -> [lastPremium : Nat, rate : Rates \union {0}, updatedAt : 0..now']]
       /\ totalBalance' \in [accum : Nat, rate : Nat, updatedAt : 0..now']
       /\ balances' \in [Tokens -> [accumAmount : Nat, rateValue : Nat, applyFrom : 0..now']]
  <2>1. f.held - f.balance.accumAmount >= held[t] - balances[t].accumAmount
    <3>1. f.held \in Int /\ f.balance.accumAmount \in Int
      BY <1>8 DEF Frames, AssetRecords
    <3> QED
      BY <1>8, <3>1
  <2>2. TokensReceived /\ now' = now /\ takenFees' = takenFees
    BY <1>1 DEF FundInv, feeVars
  <2> QED
    BY <1>2, <1>3, <1>8, <1>13, <1>14, <2>1, <2>2, FrameSaved
<1>16. /\ configs' \in [AllTokens -> [price : Nat, suspended : BOOLEAN, finished : BOOLEAN, auto : BOOLEAN]]
       /\ configs'[t].price = f.price /\ \A u \in Tokens \ {t} : configs'[u].price = configs[u].price
  <2>1. f.price \in Nat /\ t \in AllTokens /\ Tokens \subseteq AllTokens
    BY <1>8 DEF Sound, Frames, AllTokens
  <2>2. configs \in [AllTokens -> [price : Nat, suspended : BOOLEAN, finished : BOOLEAN, auto : BOOLEAN]]
    BY <1>3, FundTyping
  <2> QED
    BY <1>2, <1>6, <2>1, <2>2
<1>17. FundTypeOK'
  <2>1. \A u \in Tokens : activeSources'[u] \in Seq(Sources)
    BY <1>9, <1>10
  <2> QED
    BY <1>1, <1>3, <1>15, <1>16, <2>1 DEF RatesInv, FundTypeOK, feeVars
<1>18. allocatedTotal(s, late) \in Nat
  BY <1>3, AllocatedType
<1>19. AllocatedOK'
  <2>1. now \in 0..now
    BY <1>3
  <2> QED
    BY <1>1, <1>3, <1>18, <2>1 DEF RatesInv, AllocatedOK
<1>20. ChargesOK'
  <2> SUFFICES ASSUME NEW r \in Sources PROVE ChargeOK(r)'
    BY DEF ChargesOK
  <2>1. CASE r # s
    BY <1>1, <1>4, <1>8, <2>1, ChargeKept DEF FundInv, ChargesOK, RatesInv, AllocatedOK
  <2>2. CASE r = s
    <3>1. allocated'[s] = [accum |-> allocatedTotal(s, late), rate |-> rate, updatedAt |-> now]
      BY <1>1, <1>3 DEF RatesInv, AllocatedOK
    <3>2. allocatedTotal(s, 0)' = allocatedTotal(s, late)
      BY <1>1, <1>3, <1>18, <3>1 DEF allocatedTotal, sync
    <3>3. f.sources[s].rate \in Nat /\ f.sources[s].rate <= rate
      BY <1>3, <1>8
    <3>4. Supply(s)' = 0
      BY <1>1, <1>3, <1>4, <1>8, <3>3 DEF Supply, expectedSupply
    <3>5. f.sources[s].lastPremium \in Int
      BY <1>8 DEF Frames, SourceRecords
    <3>6. isRegistered(s)'
      BY <1>1 DEF isRegistered
    <3> QED
      BY <1>4, <1>8, <2>2, <3>1, <3>2, <3>3, <3>4, <3>5, <3>6 DEF ChargeOK
  <2> QED
    BY <2>1, <2>2
<1>21. ASSUME AtPar PROVE HeldAtPar' /\ Covered'
  <2>1. f.total.accum \in Int /\ sync(totalBalance)'.accum \in Int /\ sync(totalBalance)'.accum >= f.total.accum
    BY <1>1, <1>3, <1>4, <1>15, SyncedAfter
  <2>2. HeldAtPar
    BY <1>21 DEF FundInv
  <2> QED
    BY <1>1, <1>3, <1>4, <1>8, <1>16, <1>21, <2>1, <2>2, FrameSavedAtPar
<1> QED
  BY <1>12, <1>15, <1>17, <1>19, <1>20, <1>21 DEF FundInv, RatesInv, AtPar

-----------------------------------------------------------------------------
(* Sources that leave.                                                     *)

\* The rate of a source that is removed was zero, so nothing changes in the sums.
LEMMA RateDropped ==
    ASSUME Clock, NEW f \in Frames, NEW active \in SUBSET Sources, NEW others \in Nat, RatesFit(f, active, others),
           NEW s \in Sources, f.sources[s].rate = 0, NEW g \in Frames, g.sources[s].rate = 0,
           \A r \in Sources \ {s} : g.sources[r] = f.sources[r],
           g.balance.rateValue = f.balance.rateValue, g.total.rate = f.total.rate
    PROVE  RatesFit(g, active \ {s}, others)
<1> DEFINE R == RatesIn(f)
           Q == RatesIn(g)
<1>1. /\ \A r \in Sources : R[r] \in Nat /\ Q[r] \in Nat /\ R[r] = f.sources[r].rate /\ Q[r] = g.sources[r].rate
      /\ Summable(R, Sources) /\ Summable(R, active) /\ Summable(R, active \ {s})
  <2>1. active \ {s} \in SUBSET Sources
    OBVIOUS
  <2> QED
    BY <2>1, FrameSums
<1>2. \A r \in Sources : R[r] = Q[r]
  BY <1>1
<1>3. R[s] = 0
  BY <1>1
<1>4. f.balance.rateValue = SumFunctionOnSet(R, active) /\ f.total.rate = SumFunctionOnSet(R, Sources)
      /\ f.total.rate = f.balance.rateValue + others
  BY DEF RatesFit
<1> HIDE DEF R, Q
<1>5. SumFunctionOnSet(R, active) = SumFunctionOnSet(R, active \ {s})
  <2>1. CASE s \in active
    <3>1. SumFunctionOnSet(R, active) = R[s] + SumFunctionOnSet(R, active \ {s})
      BY <1>1, <2>1, SumRemove
    <3>2. SumFunctionOnSet(R, active \ {s}) \in Int
      BY <1>1, SumInt
    <3> QED
      BY <1>3, <3>1, <3>2
  <2>2. CASE s \notin active
    <3>1. active \ {s} = active
      BY <2>2
    <3> QED
      BY <3>1
  <2> QED
    BY <2>1, <2>2
<1>6. SumFunctionOnSet(R, Sources) = SumFunctionOnSet(Q, Sources)
  BY <1>1, <1>2, SumSame
<1>7. SumFunctionOnSet(R, active \ {s}) = SumFunctionOnSet(Q, active \ {s})
  <2> DEFINE A == active \ {s}
  <2>1. Summable(R, A) /\ \A r \in A : R[r] = Q[r]
    BY <1>1, <1>2
  <2> HIDE DEF A
  <2>2. SumFunctionOnSet(R, A) = SumFunctionOnSet(Q, A)
    BY <2>1, SumSame
  <2> QED
    BY <2>2 DEF A
<1> QED
  BY <1>4, <1>5, <1>6, <1>7 DEF RatesFit, Q

\* Nothing is due from a source that is removed.
LEMMA SurplusGrows ==
    ASSUME Clock, NEW f \in Frames, NEW s \in Sources, NEW g \in Frames,
           \A r \in Sources \ {s} : g.sources[r] = f.sources[r], DueIn(g, s) = 0,
           g.balance.accumAmount = f.balance.accumAmount, g.total.accum = f.total.accum
    PROVE  Surplus(g) >= Surplus(f)
<1> DEFINE dues == SumFunctionOnSet(DuesIn(f), Sources)
<1>1. SumFunctionOnSet(DuesIn(g), Sources) = dues - DueIn(f, s)
  BY DuesAreTaken
<1>2. dues \in Int /\ DueIn(f, s) \in Nat
  BY FrameSums, SumInt, DueType
<1>3. f.total.accum \in Int /\ f.balance.accumAmount \in Int
  BY DEF Frames, TotalRecords, AssetRecords
<1> HIDE DEF dues
<1>4. f.total.accum - f.balance.accumAmount - (dues - DueIn(f, s)) >= f.total.accum - f.balance.accumAmount - dues
  BY <1>2, <1>3
<1> QED
  BY <1>1, <1>4 DEF Surplus, dues

erased(f, s) == [f EXCEPT !.sources[s] = NoSourceBalance]

\* The records of a source may be erased when its rate has been taken off.
LEMMA SourceErased ==
    ASSUME Clock, NEW f \in Frames, Sound(f), NEW s \in Sources,
           NEW g, g = erased(f, s)
    PROVE  /\ g \in Frames /\ Sound(g) /\ SamePlace(f, g) /\ g.held = f.held /\ g.reverted = f.reverted
           /\ \A r \in Sources \ {s} : g.sources[r] = f.sources[r]
           /\ g.sources[s].rate = 0 /\ DueIn(g, s) = 0
<1>1. PICK zero \in Nat : zero = 0
  OBVIOUS
<1> DEFINE Rs == Rates \union {0}
           record == [lastPremium |-> zero, rate |-> zero, updatedAt |-> zero]
<1>2. zero \in Rs /\ zero \in 0..now /\ NoSourceBalance = record
  BY <1>1 DEF Clock, NoSourceBalance
<1>3. record \in SourceRecords
  <2> HIDE DEF Rs
  <2>1. record \in [lastPremium : Int, rate : Rs, updatedAt : 0..now]
    BY <1>2
  <2> QED
    BY <2>1 DEF SourceRecords, Rs
<1>4. record.rate = zero /\ record.lastPremium = zero /\ record.updatedAt = zero
  OBVIOUS
<1> HIDE DEF record
<1>5. f.sources \in [Sources -> SourceRecords]
  BY DEF Frames
<1>6. g = [f EXCEPT !.sources = [f.sources EXCEPT ![s] = record]]
  BY <1>2 DEF Frames, erased
<1>7. [f.sources EXCEPT ![s] = record] \in [Sources -> SourceRecords]
  BY <1>3, <1>5
<1>8. g \in Frames /\ SamePlace(f, g) /\ g.held = f.held /\ g.reverted = f.reverted
      /\ g.sources = [f.sources EXCEPT ![s] = record]
  BY <1>6, <1>7 DEF Frames, SamePlace
<1>9. g.sources[s] = record /\ \A r \in Sources \ {s} : g.sources[r] = f.sources[r]
  BY <1>5, <1>8
<1>10. g.sources[s].rate = 0 /\ g.sources[s].lastPremium = 0 /\ g.sources[s].updatedAt = 0
  BY <1>1, <1>4, <1>9
<1>11. DueIn(g, s) = 0
  BY <1>10 DEF DueIn, Clock
<1>12. Sound(g)
  BY <1>8, <1>9, <1>10 DEF Sound, SamePlace
<1> QED
  BY <1>8, <1>9, <1>10, <1>11, <1>12

\* A source leaves the list of its token, and no other.
LEMMA SourceRemoved ==
    ASSUME FundInv, NEW s \in Sources, NEW t \in Tokens, t = sourceToken[s], withoutSource(s),
           now' = now, takenFees' = takenFees, NEW g \in Frames, saveFrame(g), Sound(g), g.token = t,
           RatesFit(g, ActiveOf(t) \ {s}, othersOf(t)), g.sources[s].rate = 0,
           \A r \in Sources \ {s} : g.sources[r] = sourceBalances[r],
           g.held - g.balance.accumAmount >= held[t] - balances[t].accumAmount
    PROVE  /\ RatesAddUp' /\ TotalRateOK' /\ TokensReceived' /\ ActiveOK' /\ AllocatedOK' /\ ChargesOK'
           /\ held' \in [AllTokens -> Nat]
           /\ sourceToken' \in [Sources -> Tokens \union {NoToken}]
           /\ activeSources' \in [Tokens -> Seq(Sources)]
           /\ sourceBalances' \in [Sources -> [lastPremium : Nat, rate : Rates \union {0}, updatedAt : 0..now']]
           /\ totalBalance' \in [accum : Nat, rate : Nat, updatedAt : 0..now']
           /\ balances' \in [Tokens -> [accumAmount : Nat, rateValue : Nat, applyFrom : 0..now']]
<1>1. RatesInv /\ Clock /\ now \in Nat /\ NoToken \notin Tokens
  BY FundTyping, FundAssumption DEF FundInv
<1>2. /\ sourceToken' = [sourceToken EXCEPT ![s] = NoToken]
      /\ activeSources' = [activeSources EXCEPT ![t] = removeSource(@, s)]
      /\ formerSources' = formerSources \union {s}
      /\ allocated' = [allocated EXCEPT ![s] = NoSupply]
  BY DEF withoutSource
<1>3. PICK active : active = ActiveOf(t) \ {s}
  OBVIOUS
<1>4. /\ activeSources \in [Tokens -> Seq(Sources)] /\ sourceToken \in [Sources -> Tokens \union {NoToken}]
      /\ \A u \in Tokens : ActiveOf(u) \in SUBSET Sources /\ Once(activeSources[u])
      /\ \A u \in Tokens : \A r \in ActiveOf(u) : sourceToken[r] = u
  BY <1>1, FundTyping DEF RatesInv, ActiveOK, FundTypeOK
<1>5. /\ activeSources'[t] = removeSource(activeSources[t], s)
      /\ \A u \in Tokens \ {t} : activeSources'[u] = activeSources[u]
      /\ activeSources'[t] \in Seq(Sources) /\ Once(activeSources'[t]) /\ Elements(activeSources'[t]) = active
  <2>1. activeSources'[t] = removeSource(activeSources[t], s) /\ \A u \in Tokens \ {t} : activeSources'[u] = activeSources[u]
    BY <1>2, <1>4
  <2>2. activeSources'[t] \in Seq(Sources) /\ Once(activeSources'[t])
        /\ Elements(activeSources'[t]) = Elements(activeSources[t]) \ {s}
    BY <1>4, <2>1, RemoveSource
  <2>3. Elements(activeSources[t]) = ActiveOf(t)
    BY DEF Elements, ActiveOf
  <2> QED
    BY <1>3, <2>1, <2>2, <2>3
<1>6. ActiveOf(t)' = active /\ \A u \in Tokens \ {t} : ActiveOf(u)' = ActiveOf(u)
  <2>1. ActiveOf(t)' = Elements(activeSources'[t])
    BY DEF ActiveOf, Elements
  <2>2. \A u \in Tokens \ {t} : ActiveOf(u)' = ActiveOf(u)
    BY <1>5 DEF ActiveOf
  <2> QED
    BY <1>5, <2>1, <2>2
<1>7. \A r \in Sources \ {s} : sourceToken'[r] = sourceToken[r]
  BY <1>2, <1>4
<1>8. ActiveOK'
  <2>1. ASSUME NEW u \in Tokens
        PROVE  Once(activeSources'[u]) /\ \A r \in ActiveOf(u)' : sourceToken'[r] = u
    <3>1. CASE u = t
      <4>1. ActiveOf(u)' = active
        BY <1>6, <3>1 DEF ActiveOf
      <4> QED
        BY <1>3, <1>4, <1>5, <1>7, <3>1, <4>1
    <3>2. CASE u # t
      <4>1. s \notin ActiveOf(u)
        BY <1>4, <3>2
      <4> QED
        BY <1>4, <1>5, <1>6, <1>7, <3>2, <4>1
    <3> QED
      BY <3>1, <3>2
  <2>2. (\A u \in Tokens : Once(activeSources[u]))' /\ (\A u \in Tokens : \A r \in ActiveOf(u) : sourceToken[r] = u)'
    BY <2>1 DEF Once
  <2> QED
    BY <2>2 DEF ActiveOK
<1>9. SavesRates(g, t, active)
  <2>1. ASSUME NEW r \in Sources, g.sources[r].rate > 0
        PROVE  isRegistered(r)' /\ r \in ActiveOf(sourceToken[r])'
    <3>1. r # s
      BY <2>1
    <3>2. isRegistered(r) /\ r \in ActiveOf(sourceToken[r])
      BY <1>1, <2>1, <3>1 DEF RatesInv, RatesAddUp
    <3>3. PICK u \in Tokens : u = sourceToken[r]
      BY <1>4, <3>2 DEF isRegistered
    <3>4. r \in ActiveOf(u)'
      BY <1>3, <1>6, <3>1, <3>2, <3>3
    <3>5. ActiveOf(sourceToken[r])' = ActiveOf(u)'
      BY <1>7, <3>1, <3>3 DEF ActiveOf
    <3> QED
      BY <1>7, <3>1, <3>2, <3>4, <3>5 DEF isRegistered
  <2>2. \A u \in Tokens \ {t} : \A r \in ActiveOf(u) : g.sources[r].rate = sourceBalances[r].rate
    BY <1>4
  <2> QED
    BY <1>3, <1>6, <2>1, <2>2 DEF SavesRates
<1>10. /\ RatesAddUp' /\ TotalRateOK' /\ TokensReceived'
       /\ held' \in [AllTokens -> Nat]
       /\ sourceBalances' \in [Sources -> [lastPremium : Nat, rate : Rates \union {0}, updatedAt : 0..now']]
       /\ totalBalance' \in [accum : Nat, rate : Nat, updatedAt : 0..now']
       /\ balances' \in [Tokens -> [accumAmount : Nat, rateValue : Nat, applyFrom : 0..now']]
  <2>1. active \in SUBSET Sources /\ TokensReceived
    BY <1>3, <1>4 DEF FundInv
  <2> QED
    BY <1>1, <1>9, <2>1, FrameSaved
<1>11. sourceToken' \in [Sources -> Tokens \union {NoToken}] /\ activeSources' \in [Tokens -> Seq(Sources)]
  BY <1>2, <1>4, <1>5
<1>12. NoSupply \in [accum : Nat, rate : Nat, updatedAt : 0..now]
  <2>1. 0 \in 0..now
    BY <1>1
  <2> QED
    BY <2>1 DEF NoSupply
<1>13. AllocatedOK'
  BY <1>1, <1>2, <1>12 DEF RatesInv, AllocatedOK
<1>14. ChargesOK'
  <2> SUFFICES ASSUME NEW r \in Sources PROVE ChargeOK(r)'
    BY DEF ChargesOK
  <2>1. CASE r # s
    <3>1. sourceBalances'[r] = sourceBalances[r]
      BY <2>1 DEF saveFrame
    <3>2. allocated'[r] = allocated[r]
      BY <1>1, <1>2, <2>1 DEF RatesInv, AllocatedOK
    <3>3. ChargeOK(r)
      BY DEF FundInv, ChargesOK
    <3> QED
      BY <1>2, <1>7, <2>1, <3>1, <3>2, <3>3, ChargeKept
  <2>2. CASE r = s
    <3>1. ~isRegistered(s)' /\ s \in formerSources'
      BY <1>2, <1>4 DEF isRegistered
    <3> QED
      BY <2>2, <3>1 DEF ChargeOK
  <2> QED
    BY <2>1, <2>2
<1> QED
  BY <1>8, <1>10, <1>11, <1>13, <1>14

\* The amounts of the other assets have a sum.
LEMMA RestType ==
    ASSUME RatesInv, NEW t \in Tokens
    PROVE  SumFunctionOnSet(AmountOfToken, Tokens \ {t}) \in Int
<1>1. IsFiniteSet(Tokens \ {t})
  BY FundAssumption, FS_Subset
<1>2. \A u \in Tokens : AmountOfToken[u] \in Nat
  BY FundTyping DEF AmountOfToken, AssetRecords
<1> QED
  BY <1>1, <1>2, SumInt DEF Summable

\* premiumAllocationFinished keeps the invariant.
LEMMA FinishAllocationStep ==
    ASSUME FundInv, NEW s \in Sources, NEW late \in LatePremium, NEW pay \in Pays, FinishAllocation(s, late, pay)
    PROVE  FundInv'
<1>1. /\ isRegistered(s) /\ sourceBalances[s].lastPremium <= allocatedTotal(s, late)
      /\ withoutSource(s)
      /\ UNCHANGED <<state, suspended, knownTokens, tokenActuaries, feeVars, nextReplenish, now>>
  BY DEF FinishAllocation
<1>2. PICK f : /\ f = allocationUpdated(frame(sourceToken[s], sync(totalBalance)), s,
                                        allocatedTotal(s, late) - sourceBalances[s].lastPremium, 0, pay)
               /\ saveFrame(IF Contains(activeSources[sourceToken[s]], s)
                            THEN [f EXCEPT !.sources[s] = NoSourceBalance] ELSE f)
               /\ configs' = [configs EXCEPT ![sourceToken[s]].price = f.price,
                                             ![sourceToken[s]].finished = @ \/ isLastActive(s, sourceToken[s])]
  BY DEF FinishAllocation
<1>3. RatesInv /\ Clock /\ now \in Nat /\ late \in Nat
  BY FundTyping, FundAssumption DEF FundInv
<1>4. PICK g : g = IF Contains(activeSources[sourceToken[s]], s) THEN [f EXCEPT !.sources[s] = NoSourceBalance] ELSE f
  OBVIOUS
<1>5. saveFrame(g) /\ ~f.reverted
  <2>1. saveFrame(g)
    BY <1>2, <1>4
  <2>2. g.reverted = f.reverted
    BY <1>4
  <2> QED
    BY <2>1, <2>2 DEF saveFrame
<1>6. PICK none \in Rates \union {0} : none = 0
  OBVIOUS
<1>7. Reported(f, s, sourceToken[s], allocatedTotal(s, late), none)
  BY <1>1, <1>2, <1>5, <1>6, ReportEffect
<1>8. PICK t \in Tokens : t = sourceToken[s]
  BY <1>7 DEF Reported
<1>9. /\ f.token = t /\ f \in Frames /\ Sound(f)
      /\ RatesFit(f, ActiveOf(t) \union {s}, othersOf(t))
      /\ \A r \in Sources \ {s} : f.sources[r] = sourceBalances[r]
      /\ f.sources[s].rate = 0 /\ f.sources[s].updatedAt = now
      /\ f.held - f.balance.accumAmount = held[t] - balances[t].accumAmount
      /\ f.total.updatedAt = now
      /\ AtPar => PricedAtPar(f) /\ Surplus(f) >= SumFunctionOnSet(AmountOfToken, Tokens \ {t})
  BY <1>6, <1>7, <1>8 DEF Reported
<1>10. /\ g \in Frames /\ Sound(g) /\ SamePlace(f, g) /\ g.held = f.held
       /\ \A r \in Sources \ {s} : g.sources[r] = f.sources[r]
       /\ g.sources[s].rate = 0 /\ DueIn(g, s) = 0
  <2>1. CASE Contains(activeSources[t], s)
    <3>1. g = erased(f, s)
      BY <1>4, <1>8, <2>1 DEF erased
    <3>2. Clock /\ f \in Frames /\ Sound(f)
      BY <1>3, <1>9
    <3> QED
      BY <3>1, <3>2, SourceErased
  <2>2. CASE ~Contains(activeSources[t], s)
    <3>1. g = f
      BY <1>4, <1>8, <2>2
    <3>2. DueIn(f, s) = 0
      BY <1>3, <1>9 DEF DueIn
    <3> QED
      BY <1>9, <3>1, <3>2 DEF SamePlace
  <2> QED
    BY <2>1, <2>2
<1>11. g.token = t /\ g.balance = f.balance /\ g.total = f.total /\ g.price = f.price
  BY <1>9, <1>10 DEF SamePlace
<1>12. ActiveOf(t) \in SUBSET Sources /\ othersOf(t) \in Nat
  BY <1>3, FundTyping, OthersType
<1>13. RatesFit(g, ActiveOf(t) \ {s}, othersOf(t))
  <2>1. PICK active \in SUBSET Sources : active = ActiveOf(t) \union {s}
    BY <1>12
  <2>2. RatesFit(g, active \ {s}, othersOf(t))
    BY <1>3, <1>9, <1>10, <1>11, <1>12, <2>1, RateDropped
  <2>3. active \ {s} = ActiveOf(t) \ {s}
    BY <2>1
  <2> QED
    BY <2>2, <2>3
<1>14. \A r \in Sources \ {s} : g.sources[r] = sourceBalances[r]
  BY <1>9, <1>10
<1>15. g.held - g.balance.accumAmount >= held[t] - balances[t].accumAmount
  <2>1. f.held \in Int /\ f.balance.accumAmount \in Int
    BY <1>9 DEF Frames, AssetRecords
  <2> QED
    BY <1>9, <1>10, <1>11, <2>1
<1>16. /\ RatesAddUp' /\ TotalRateOK' /\ TokensReceived' /\ ActiveOK' /\ AllocatedOK' /\ ChargesOK'
       /\ held' \in [AllTokens -> Nat]
       /\ sourceToken' \in [Sources -> Tokens \union {NoToken}]
       /\ activeSources' \in [Tokens -> Seq(Sources)]
       /\ sourceBalances' \in [Sources -> [lastPremium : Nat, rate : Rates \union {0}, updatedAt : 0..now']]
       /\ totalBalance' \in [accum : Nat, rate : Nat, updatedAt : 0..now']
       /\ balances' \in [Tokens -> [accumAmount : Nat, rateValue : Nat, applyFrom : 0..now']]
  <2>1. now' = now /\ takenFees' = takenFees
    BY <1>1 DEF feeVars
  <2> QED
    BY <1>1, <1>5, <1>8, <1>10, <1>11, <1>13, <1>14, <1>15, <2>1, SourceRemoved
<1>17. /\ configs' \in [AllTokens -> [price : Nat, suspended : BOOLEAN, finished : BOOLEAN, auto : BOOLEAN]]
       /\ configs'[t].price = f.price /\ \A u \in Tokens \ {t} : configs'[u].price = configs[u].price
  <2>1. f.price \in Nat /\ t \in AllTokens /\ Tokens \subseteq AllTokens
    BY <1>9 DEF Sound, Frames, AllTokens
  <2>2. configs \in [AllTokens -> [price : Nat, suspended : BOOLEAN, finished : BOOLEAN, auto : BOOLEAN]]
    BY <1>3, FundTyping
  <2>3. PICK finished \in BOOLEAN : finished = (configs[t].finished \/ isLastActive(s, t))
    OBVIOUS
  <2>4. configs' = [configs EXCEPT ![t] = [configs[t] EXCEPT !.price = f.price, !.finished = finished]]
    BY <1>2, <1>8, <2>1, <2>2, <2>3
  <2> QED
    BY <2>1, <2>2, <2>4
<1>18. FundTypeOK'
  BY <1>1, <1>3, <1>16, <1>17 DEF RatesInv, FundTypeOK, feeVars
<1>19. ASSUME AtPar PROVE HeldAtPar' /\ Covered'
  <2>1. sourceBalances' = g.sources /\ totalBalance' = g.total /\ balances' = [balances EXCEPT ![t] = g.balance]
    BY <1>5, <1>11 DEF saveFrame
  <2>2. sync(totalBalance)'.accum \in Int /\ sync(totalBalance)'.accum >= g.total.accum
    BY <1>1, <1>3, <1>16, <2>1, SyncedAfter
  <2>3. HeldAtPar /\ PricedAtPar(g)
    BY <1>9, <1>11, <1>19 DEF FundInv, PricedAtPar
  <2>4. Surplus(g) >= SumFunctionOnSet(AmountOfToken, Tokens \ {t})
    <3>1. Surplus(g) >= Surplus(f)
      BY <1>3, <1>9, <1>10, <1>11, SurplusGrows
    <3>2. Surplus(f) \in Int /\ Surplus(g) \in Int
      BY <1>3, <1>9, <1>10, SurplusType
    <3>3. SumFunctionOnSet(AmountOfToken, Tokens \ {t}) \in Int
      BY <1>3, RestType
    <3> QED
      BY <1>9, <1>19, <3>1, <3>2, <3>3
  <2> QED
    BY <1>1, <1>3, <1>10, <1>11, <1>17, <2>1, <2>2, <2>3, <2>4, FrameSavedAtPar
<1> QED
  BY <1>16, <1>18, <1>19 DEF FundInv, RatesInv, AtPar

\* decRate.
LEMMA DecRateType ==
    ASSUME RatesInv, NEW t \in Tokens, NEW e \in Frames, e.total = totalBalance, e.balance = balances[t], Sound(e),
           NEW rate \in Nat, rate <= e.balance.rateValue, rate <= e.total.rate, NEW f, f = decRate(e, rate)
    PROVE  /\ f \in Frames /\ Sound(f) /\ f.token = e.token /\ f.sources = e.sources /\ f.price = e.price
           /\ f.held = e.held /\ f.reverted = e.reverted
           /\ f.balance.accumAmount = e.balance.accumAmount
           /\ f.balance.rateValue = e.balance.rateValue - rate /\ f.total.rate = e.total.rate - rate
           /\ f.total = totalBalance \/ f.total.accum = sync(totalBalance).accum
<1>1. Clock /\ now \in Nat /\ e.balance \in AssetRecords /\ e.total \in TotalRecords
  BY FundTyping DEF Frames
<1>2. e.balance.rateValue \in Nat /\ e.total.rate \in Nat /\ e.balance.applyFrom \in 0..now
  BY <1>1 DEF AssetRecords, TotalRecords
<1>3. CASE rate = 0
  <2>1. f = e
    BY <1>3 DEF decRate
  <2> QED
    BY <1>2, <1>3, <2>1
<1>4. CASE rate # 0
  <2> DEFINE left == e.balance.rateValue - rate
             from == rateAppliesFrom(e.balance.rateValue, left, e.balance.applyFrom)
             rest == totalBalance.rate - rate
             total == sync(totalBalance)
  <2>1. left \in Nat /\ rest \in Nat
    BY <1>2
  <2>2. from \in 0..now
    <3> HIDE DEF left
    <3> QED
      BY <1>1, <1>2, <2>1, RateAppliesFromType
  <2>3. total \in [accum : Nat, rate : Nat, updatedAt : 0..now] /\ total.rate = totalBalance.rate
    BY SyncedTotal
  <2>4. f = [e EXCEPT !.total = [sync(e.total) EXCEPT !.rate = @ - rate], !.balance.rateValue = left,
                      !.balance.applyFrom = from]
    BY <1>4 DEF decRate, Frames
  <2> HIDE DEF left, from
  <2>5. /\ f.balance = [e.balance EXCEPT !.rateValue = left, !.applyFrom = from]
        /\ f.token = e.token /\ f.next = e.next /\ f.price = e.price /\ f.held = e.held
        /\ f.amount = e.amount /\ f.value = e.value /\ f.reverted = e.reverted /\ f.sources = e.sources
    BY <2>4 DEF Frames
  <2>6. f.total = [total EXCEPT !.rate = rest]
    <3>1. f.total = [sync(e.total) EXCEPT !.rate = @ - rate]
      BY <2>4 DEF Frames
    <3>2. total.rate - rate = rest
      BY <2>3
    <3>3. sync(e.total) = total
      OBVIOUS
    <3> HIDE DEF total, rest
    <3> QED
      BY <3>1, <3>2, <3>3
  <2> HIDE DEF total, rest
  <2>7. f.balance \in AssetRecords /\ f.balance.accumAmount = e.balance.accumAmount /\ f.balance.rateValue = left
    BY <1>1, <2>1, <2>2, <2>5 DEF AssetRecords
  <2>8. f.total \in TotalRecords /\ f.total.accum = total.accum /\ f.total.rate = rest /\ f.total.accum >= 0
    BY <2>1, <2>3, <2>6 DEF TotalRecords
  <2>9. f = [e EXCEPT !.balance = f.balance, !.total = f.total]
    BY <2>4 DEF Frames
  <2>10. f \in Frames
    BY <2>7, <2>8, <2>9 DEF Frames
  <2>11. Sound(f)
    BY <2>5, <2>8 DEF Sound
  <2> QED
    BY <2>5, <2>7, <2>8, <2>10, <2>11 DEF left, rest, total
<1> QED
  BY <1>3, <1>4

\* registerPremiumSource(source, false) keeps the invariant.
LEMMA UnregisterSourceStep ==
    ASSUME FundInv, NEW s \in Sources, UnregisterSource(s)
    PROVE  FundInv'
<1>1. /\ isRegistered(s) /\ withoutSource(s)
      /\ UNCHANGED <<state, suspended, knownTokens, feeVars, nextReplenish, now>>
      /\ configs' = [configs EXCEPT ![sourceToken[s]].finished = @ \/ isLastActive(s, sourceToken[s])]
      /\ tokenActuaries' \subseteq tokenActuaries
  BY DEF UnregisterSource
<1>2. PICK f : /\ f = decRate(frame(sourceToken[s], totalBalance), sourceBalances[s].rate)
               /\ saveFrame(IF Contains(activeSources[sourceToken[s]], s)
                            THEN [f EXCEPT !.sources[s] = NoSourceBalance] ELSE f)
  BY DEF UnregisterSource
<1>3. RatesInv /\ Clock /\ now \in Nat
  BY FundTyping DEF FundInv
<1>4. PICK t \in Tokens : t = sourceToken[s]
  BY <1>1, <1>3, FundTyping DEF isRegistered
<1>5. PICK e : e = frame(t, totalBalance)
  OBVIOUS
<1>6. PICK g : g = IF Contains(activeSources[t], s) THEN erased(f, s) ELSE f
  OBVIOUS
<1>7. /\ e \in Frames /\ Sound(e) /\ ~e.reverted /\ e.token = t /\ e.balance = balances[t]
      /\ e.total = totalBalance /\ e.sources = sourceBalances /\ e.price = configs[t].price
      /\ e.held = held[t] /\ ActiveOf(t) \in SUBSET Sources /\ othersOf(t) \in Nat
      /\ RatesFit(e, ActiveOf(t), othersOf(t))
  <2>1. totalBalance \in [accum : Nat, rate : Nat, updatedAt : 0..now]
    BY <1>3, FundTyping
  <2> QED
    BY <1>3, <1>5, <2>1, FrameStart
<1>8. sourceBalances[s].rate \in Nat /\ (s \notin ActiveOf(t) => sourceBalances[s].rate = 0)
  <2>1. sourceBalances[s].rate \in Nat
    <3>1. sourceBalances[s].rate \in Rates \union {0}
      BY <1>3, FundTyping
    <3> QED
      BY <3>1, RatesAreNatural
  <2>2. sourceBalances[s].rate > 0 => s \in ActiveOf(t)
    BY <1>3, <1>4 DEF RatesInv, RatesAddUp
  <2> QED
    BY <2>1, <2>2
<1>9. PICK rate \in Nat : rate = sourceBalances[s].rate
  BY <1>8
<1>10. rate <= e.balance.rateValue /\ rate <= e.total.rate
  BY <1>3, <1>7, <1>8, <1>9, RateIncluded
<1>11. /\ f \in Frames /\ Sound(f) /\ f.token = t /\ f.sources = sourceBalances /\ f.price = configs[t].price
       /\ f.held = held[t] /\ ~f.reverted
       /\ f.balance.accumAmount = balances[t].accumAmount
       /\ f.balance.rateValue = e.balance.rateValue - rate /\ f.total.rate = e.total.rate - rate
       /\ f.total = totalBalance \/ f.total.accum = sync(totalBalance).accum
  <2>1. f = decRate(e, rate)
    BY <1>2, <1>4, <1>5, <1>9
  <2>2. /\ f \in Frames /\ Sound(f) /\ f.token = e.token /\ f.sources = e.sources /\ f.price = e.price
        /\ f.held = e.held /\ f.reverted = e.reverted
        /\ f.balance.accumAmount = e.balance.accumAmount
        /\ f.balance.rateValue = e.balance.rateValue - rate /\ f.total.rate = e.total.rate - rate
        /\ f.total = totalBalance \/ f.total.accum = sync(totalBalance).accum
    BY <1>3, <1>7, <1>10, <2>1, DecRateType
  <2> QED
    BY <1>7, <2>2
<1>12. /\ g \in Frames /\ Sound(g) /\ SamePlace(f, g) /\ g.held = f.held
       /\ \A r \in Sources \ {s} : g.sources[r] = f.sources[r]
       /\ g.sources[s].rate = 0 /\ DueIn(g, s) = 0
  <2>1. CASE Contains(activeSources[t], s)
    BY <1>3, <1>6, <1>11, <2>1, SourceErased
  <2>2. CASE ~Contains(activeSources[t], s)
    <3>1. g = f /\ s \notin ActiveOf(t)
      BY <1>6, <2>2 DEF Contains, ActiveOf
    <3>2. g.sources[s].rate = 0
      BY <1>8, <1>11, <3>1
    <3>3. f.sources[s].updatedAt \in 0..now
      BY <1>11 DEF Frames, SourceRecords
    <3>4. DueIn(g, s) = 0
      BY <1>3, <3>1, <3>2, <3>3 DEF DueIn
    <3> QED
      BY <1>11, <3>1, <3>2, <3>4 DEF SamePlace
  <2> QED
    BY <2>1, <2>2
<1>13. g.token = t /\ g.balance = f.balance /\ g.total = f.total /\ g.price = f.price
  BY <1>11, <1>12 DEF SamePlace
<1>14. \A r \in Sources \ {s} : g.sources[r] = sourceBalances[r]
  BY <1>11, <1>12
<1>15. RatesFit(g, ActiveOf(t) \ {s}, othersOf(t))
  <2>1. PICK active \in SUBSET Sources : active = ActiveOf(t)
    BY <1>7
  <2>2. g.balance.rateValue = e.balance.rateValue - e.sources[s].rate + g.sources[s].rate
        /\ g.total.rate = e.total.rate - e.sources[s].rate + g.sources[s].rate
    <3>1. e.balance.rateValue \in Int /\ e.total.rate \in Int
      BY <1>7 DEF Frames, AssetRecords, TotalRecords
    <3> QED
      BY <1>7, <1>9, <1>11, <1>12, <1>13, <3>1
  <2>3. RatesFit(g, active \union {s}, othersOf(t))
    BY <1>3, <1>7, <1>8, <1>12, <1>14, <2>1, <2>2, UpdateKeepsRates
  <2>4. PICK more \in SUBSET Sources : more = active \union {s}
    OBVIOUS
  <2>5. RatesFit(g, more \ {s}, othersOf(t))
    BY <1>3, <1>7, <1>12, <2>3, <2>4, RateDropped
  <2>6. more \ {s} = ActiveOf(t) \ {s}
    BY <2>1, <2>4
  <2> QED
    BY <2>5, <2>6
<1>16. saveFrame(g)
  BY <1>2, <1>4, <1>6 DEF erased
<1>17. /\ RatesAddUp' /\ TotalRateOK' /\ TokensReceived' /\ ActiveOK' /\ AllocatedOK' /\ ChargesOK'
       /\ held' \in [AllTokens -> Nat]
       /\ sourceToken' \in [Sources -> Tokens \union {NoToken}]
       /\ activeSources' \in [Tokens -> Seq(Sources)]
       /\ sourceBalances' \in [Sources -> [lastPremium : Nat, rate : Rates \union {0}, updatedAt : 0..now']]
       /\ totalBalance' \in [accum : Nat, rate : Nat, updatedAt : 0..now']
       /\ balances' \in [Tokens -> [accumAmount : Nat, rateValue : Nat, applyFrom : 0..now']]
  <2>1. now' = now /\ takenFees' = takenFees
    BY <1>1 DEF feeVars
  <2>2. g.held - g.balance.accumAmount >= held[t] - balances[t].accumAmount
    <3>1. f.held \in Int /\ f.balance.accumAmount \in Int
      BY <1>11 DEF Frames, AssetRecords
    <3> QED
      BY <1>11, <1>12, <1>13, <3>1
  <2> QED
    BY <1>1, <1>4, <1>12, <1>13, <1>14, <1>15, <1>16, <2>1, <2>2, SourceRemoved
<1>18. /\ configs' \in [AllTokens -> [price : Nat, suspended : BOOLEAN, finished : BOOLEAN, auto : BOOLEAN]]
       /\ configs'[t].price = configs[t].price /\ \A u \in Tokens \ {t} : configs'[u].price = configs[u].price
  <2>1. t \in AllTokens /\ Tokens \subseteq AllTokens
    BY DEF AllTokens
  <2>2. configs \in [AllTokens -> [price : Nat, suspended : BOOLEAN, finished : BOOLEAN, auto : BOOLEAN]]
    BY <1>3, FundTyping
  <2>3. PICK finished \in BOOLEAN : finished = (configs[t].finished \/ isLastActive(s, t))
    OBVIOUS
  <2>4. configs' = [configs EXCEPT ![t] = [configs[t] EXCEPT !.finished = finished]]
    BY <1>1, <1>4, <2>1, <2>2, <2>3
  <2> QED
    BY <2>1, <2>2, <2>4
<1>19. FundTypeOK'
  <2>1. FundTypeOK
    BY <1>3 DEF RatesInv
  <2>2. tokenActuaries' \subseteq knownTokens' /\ suspended' \subseteq knownTokens' /\ knownTokens' \subseteq AllTokens
        /\ state' = state /\ now' = now /\ nextReplenish' = nextReplenish
        /\ collectedFees' = collectedFees /\ takenFees' = takenFees
    BY <1>1, <2>1 DEF FundTypeOK, feeVars
  <2>3. now' \in GENESIS..LAST_TIME /\ state' \in {"Unknown", "Inactive", "Active", "Paused"}
        /\ nextReplenish' \in [Tokens -> 0..Cardinality(Sources)]
        /\ collectedFees' \in [AllTokens -> Nat] /\ takenFees' \in [AllTokens -> Nat]
    BY <2>1, <2>2 DEF FundTypeOK
  <2> QED
    BY <1>17, <1>18, <2>2, <2>3 DEF FundTypeOK
<1>20. ASSUME AtPar PROVE HeldAtPar' /\ Covered'
  <2>1. sourceBalances' = g.sources /\ totalBalance' = g.total /\ balances' = [balances EXCEPT ![t] = g.balance]
    BY <1>13, <1>16 DEF saveFrame
  <2>2. PICK total : total = sync(totalBalance)
    OBVIOUS
  <2>3. total \in [accum : Nat, rate : Nat, updatedAt : 0..now] /\ total.rate = totalBalance.rate
    BY <1>3, <2>2, SyncedTotal
  <2>4. PICK d : d = frame(t, total)
    OBVIOUS
  <2>5. /\ d \in Frames /\ d.token = t /\ d.balance = balances[t] /\ d.total = total
        /\ d.sources = sourceBalances /\ d.price = configs[t].price
    BY <1>3, <2>3, <2>4, FrameStart
  <2>6. PICK h : h = [g EXCEPT !.total = total]
    OBVIOUS
  <2>7. h \in Frames /\ h.sources = g.sources /\ h.balance = g.balance /\ h.total = total /\ h.price = g.price
    <3>1. total \in TotalRecords
      BY <2>3 DEF TotalRecords
    <3> QED
      BY <1>12, <2>6, <3>1 DEF Frames
  <2>8. Surplus(d) >= SumFunctionOnSet(AmountOfToken, Tokens \ {t})
    BY <1>3, <1>20, <2>2, <2>5, CoveredBefore DEF FundInv
  <2>9. Surplus(h) >= Surplus(d)
    <3>1. h.balance.accumAmount = d.balance.accumAmount
      BY <1>11, <1>13, <2>5, <2>7
    <3>2. DueIn(h, s) = 0
      BY <1>12, <2>7 DEF DueIn
    <3> QED
      BY <1>3, <1>14, <2>5, <2>7, <3>1, <3>2, SurplusGrows
  <2>10. Surplus(h) >= SumFunctionOnSet(AmountOfToken, Tokens \ {t})
    <3>1. Surplus(h) \in Int /\ Surplus(d) \in Int /\ SumFunctionOnSet(AmountOfToken, Tokens \ {t}) \in Int
      BY <1>3, <2>5, <2>7, SurplusType, RestType
    <3> QED
      BY <2>8, <2>9, <3>1
  <2>11. sync(totalBalance)'.accum \in Int /\ sync(totalBalance)'.accum >= h.total.accum
    <3>1. sync(totalBalance)'.accum \in Int /\ sync(totalBalance)'.accum >= totalBalance'.accum
      BY <1>1, <1>3, <1>17, SyncedAfter
    <3>2. CASE f.total = totalBalance
      <4>1. totalBalance' = totalBalance
        BY <1>13, <2>1, <3>2
      <4>2. sync(totalBalance)' = total
        BY <1>1, <2>2, <4>1 DEF sync
      <4> QED
        BY <2>3, <2>7, <4>2
    <3>3. CASE f.total.accum = sync(totalBalance).accum
      BY <1>13, <2>1, <2>2, <2>7, <3>1, <3>3
    <3> QED
      BY <1>11, <3>2, <3>3
  <2>12. HeldAtPar /\ PricedAtPar(h) /\ h.price = configs[t].price
    <3>1. HeldAtPar /\ h.price = configs[t].price
      BY <1>11, <1>13, <1>20, <2>7 DEF FundInv
    <3> QED
      BY <1>11, <1>13, <2>7, <3>1 DEF HeldAtPar, PricedAtPar
  <2> QED
    BY <1>1, <1>3, <1>18, <2>1, <2>7, <2>10, <2>11, <2>12, FrameSavedAtPar
<1> QED
  BY <1>17, <1>19, <1>20 DEF FundInv, RatesInv, AtPar

-----------------------------------------------------------------------------
(* Calls of users.                                                         *)

\* What sources have been charged or owe does not grow.
LEMMA ChargesFall ==
    ASSUME RatesInv, ChargesOK, now' = now, NEW f \in Frames, sourceBalances' = f.sources, allocated' = allocated,
           sourceToken' = sourceToken, formerSources' = formerSources, NEW t \in Tokens,
           \A r \in Sources \ ActiveOf(t) : f.sources[r] = sourceBalances[r],
           \A r \in Sources : /\ f.sources[r].rate \in {0, sourceBalances[r].rate}
                              /\ Charge(f, r) <= sourceBalances[r].lastPremium + Supply(r)
    PROVE  ChargesOK'
<1> SUFFICES ASSUME NEW r \in Sources PROVE ChargeOK(r)'
  BY DEF ChargesOK
<1>1. CASE r \in Sources \ ActiveOf(t)
  BY <1>1, ChargeKept DEF ChargesOK
<1>2. CASE r \in ActiveOf(t)
  <2>1. isRegistered(r) /\ isRegistered(r)'
    <3>1. sourceToken[r] = t /\ t # NoToken
      BY <1>2, FundAssumption DEF RatesInv, ActiveOK
    <3> QED
      BY <3>1 DEF isRegistered
  <2>2. sourceBalances[r].rate <= allocated[r].rate /\ sourceBalances[r].lastPremium + Supply(r) <= allocatedTotal(r, 0)
    BY <2>1 DEF ChargesOK, ChargeOK
  <2>3. Clock /\ sourceBalances[r].rate \in Nat /\ allocated[r].rate \in Nat /\ allocatedTotal(r, 0) \in Nat
        /\ sourceBalances[r].lastPremium \in Nat
    <3>1. sourceBalances[r].rate \in Rates \union {0} /\ sourceBalances[r].lastPremium \in Nat /\ Clock
      BY FundTyping
    <3>2. allocatedTotal(r, 0) \in Nat
      <4>1. PICK zero \in Nat : zero = 0
        OBVIOUS
      <4> QED
        BY <4>1, AllocatedType
    <3> QED
      BY <3>1, <3>2, RatesAreNatural DEF RatesInv, AllocatedOK
  <2>4. PICK e : e = frame(t, sync(totalBalance))
    OBVIOUS
  <2>5. e \in Frames /\ e.sources = sourceBalances
    <3>1. sync(totalBalance) \in [accum : Nat, rate : Nat, updatedAt : 0..now]
          /\ sync(totalBalance).rate = totalBalance.rate
      BY SyncedTotal
    <3> QED
      BY <2>4, <3>1, FrameStart
  <2>6. Supply(r) \in Nat
    BY <2>3, <2>5, DueType DEF Supply
  <2>7. Supply(r)' = DueIn(f, r) /\ DueIn(f, r) \in Nat
    BY <2>3, DueType DEF Supply, expectedSupply
  <2>8. f.sources[r].rate <= allocated[r].rate
    BY <2>2, <2>3
  <2>9. f.sources[r].lastPremium + DueIn(f, r) <= allocatedTotal(r, 0)
    <3>1. f.sources[r].lastPremium \in Int
      BY DEF Frames, SourceRecords
    <3>2. f.sources[r].lastPremium + DueIn(f, r) <= sourceBalances[r].lastPremium + Supply(r)
      BY DEF Charge
    <3> QED
      BY <2>2, <2>3, <2>6, <2>7, <3>1, <3>2
  <2>10. allocatedTotal(r, 0)' = allocatedTotal(r, 0)
    BY DEF allocatedTotal, sync
  <2> QED
    BY <2>1, <2>7, <2>8, <2>9, <2>10 DEF ChargeOK
<1> QED
  BY <1>1, <1>2

\* Pulls leave the sources of other assets alone.
LEMMA RatesStay ==
    ASSUME RatesInv, sourceToken' = sourceToken, activeSources' = activeSources, NEW t \in Tokens,
           NEW f \in Frames, f.token = t, NEW active, active = ActiveOf(t), RatesFit(f, active, othersOf(t)),
           \A r \in Sources \ active : f.sources[r] = sourceBalances[r],
           \A r \in Sources : f.sources[r].rate \in {0, sourceBalances[r].rate}
    PROVE  SavesRates(f, t, active)
<1>1. \A u \in Tokens : ActiveOf(u)' = ActiveOf(u) /\ ActiveOf(u) \in SUBSET Sources
  BY FundTyping DEF ActiveOf
<1>2. \A u \in Tokens \ {t} : \A r \in ActiveOf(u) : r \notin active
  BY DEF RatesInv, ActiveOK
<1>3. ASSUME NEW r \in Sources, f.sources[r].rate > 0
      PROVE  isRegistered(r)' /\ r \in ActiveOf(sourceToken[r])'
  <2>1. sourceBalances[r].rate > 0
    BY <1>3
  <2>2. isRegistered(r) /\ r \in ActiveOf(sourceToken[r])
    BY <2>1 DEF RatesInv, RatesAddUp
  <2> QED
    BY <2>2 DEF isRegistered, ActiveOf
<1> QED
  BY <1>1, <1>2, <1>3 DEF SavesRates

\* The sources that syncAsset pulls are active ones.
LEMMA SourcesFromType ==
    ASSUME NEW active \in Seq(Sources), active # <<>>, NEW first \in Nat, NEW limit \in Nat
    PROVE  /\ sourcesFrom(active, first, limit) \in Seq(Elements(active))
           /\ (first + least(limit, Len(active))) % Len(active) \in 0..Len(active)
<1> DEFINE n == Len(active)
           m == least(limit, n)
<1>1. n \in Nat \ {0} /\ DOMAIN active = 1..n
  OBVIOUS
<1>2. m \in Nat
  BY <1>1 DEF least
<1>3. ASSUME NEW k \in 1..m PROVE active[((first + k - 1) % n) + 1] \in Elements(active)
  <2>1. first + k - 1 \in Nat
    BY <1>2
  <2>2. (first + k - 1) % n \in 0..(n - 1)
    BY <1>1, <2>1
  <2>3. ((first + k - 1) % n) + 1 \in DOMAIN active
    BY <1>1, <2>2
  <2> QED
    BY <2>3 DEF Elements
<1>4. sourcesFrom(active, first, limit) = [k \in 1..m |-> active[((first + k - 1) % n) + 1]]
  BY DEF sourcesFrom
<1>5. (first + m) % n \in 0..n
  BY <1>1, <1>2
<1> HIDE DEF m, n
<1>6. sourcesFrom(active, first, limit) \in [1..m -> Elements(active)]
  BY <1>3, <1>4
<1>7. sourcesFrom(active, first, limit) \in Seq(Elements(active))
  BY <1>2, <1>6
<1> QED
  BY <1>5, <1>7 DEF m, n

\* syncAsset keeps the invariant.
LEMMA SyncAssetStep ==
    ASSUME FundInv, NEW t \in Tokens, NEW limit \in 1..Cardinality(Sources), NEW price \in Prices,
           NEW payments \in [Sources -> Payments], SyncAsset(t, limit, price, payments)
    PROVE  FundInv'
<1>1. PICK first : first = firstIndex(nextReplenish[t], Len(activeSources[t]))
  OBVIOUS
<1>2. PICK list : list = sourcesFrom(activeSources[t], first, limit)
  OBVIOUS
<1>3. PICK e : e = frame(t, sync(totalBalance))
  OBVIOUS
<1>4. PICK f : f = syncAll(e, list, price, payments)
  OBVIOUS
<1>5. /\ activeSources[t] # <<>> /\ saveFrame(f) /\ configs' = [configs EXCEPT ![t].price = f.price]
      /\ nextReplenish' = [nextReplenish EXCEPT
                             ![t] = (first + least(limit, Len(activeSources[t]))) % Len(activeSources[t])]
      /\ UNCHANGED <<memberVars, feeVars, now, allocated>>
  BY <1>1, <1>2, <1>3, <1>4 DEF SyncAsset, syncAll
<1>6. RatesInv /\ Clock /\ now \in Nat /\ limit \in Nat /\ Cardinality(Sources) \in Nat
  <2>1. Cardinality(Sources) \in Nat
    BY FundAssumption, FS_CardinalityType
  <2> QED
    BY <2>1, FundTyping DEF FundInv
<1>7. activeSources \in [Tokens -> Seq(Sources)] /\ ActiveOf(t) \in SUBSET Sources /\ Once(activeSources[t])
      /\ nextReplenish \in [Tokens -> 0..Cardinality(Sources)]
  BY <1>6, FundTyping DEF RatesInv, FundTypeOK, ActiveOK
<1>8. PICK active \in SUBSET Sources : active = ActiveOf(t)
  BY <1>7
<1>9. first \in Nat
  <2>1. nextReplenish[t] \in Nat
    BY <1>6, <1>7
  <2> QED
    BY <1>1, <2>1 DEF firstIndex
<1>10. list \in Seq(active) /\ nextReplenish'[t] \in 0..Len(activeSources[t])
  <2>1. PICK sources \in Seq(Sources) : sources = activeSources[t]
    BY <1>7
  <2>2. list \in Seq(Elements(sources)) /\ (first + least(limit, Len(sources))) % Len(sources) \in 0..Len(sources)
    <3>1. sources # <<>>
      BY <1>5, <2>1
    <3>2. list = sourcesFrom(sources, first, limit)
      BY <1>2, <2>1
    <3> QED
      BY <1>6, <1>9, <3>1, <3>2, SourcesFromType
  <2>3. Elements(sources) = active
    BY <1>8, <2>1 DEF Elements, ActiveOf
  <2>4. nextReplenish'[t] = (first + least(limit, Len(sources))) % Len(sources)
    BY <1>5, <1>7, <2>1
  <2> QED
    BY <2>1, <2>2, <2>3, <2>4
<1>11. nextReplenish' \in [Tokens -> 0..Cardinality(Sources)]
  <2>1. Len(activeSources[t]) \in Nat /\ Len(activeSources[t]) <= Cardinality(Sources)
    BY <1>7, LengthBound
  <2>2. nextReplenish'[t] \in 0..Cardinality(Sources)
    BY <1>6, <1>10, <2>1
  <2>3. \A u \in Tokens \ {t} : nextReplenish'[u] = nextReplenish[u]
    BY <1>5, <1>7
  <2>4. nextReplenish' = [u \in Tokens |-> nextReplenish'[u]]
    BY <1>5, <1>7
  <2> QED
    BY <1>7, <2>2, <2>3, <2>4
<1>12. /\ e \in Frames /\ Sound(e) /\ e.token = t /\ e.balance = balances[t]
       /\ e.total = sync(totalBalance) /\ e.sources = sourceBalances /\ e.price = configs[t].price
       /\ e.held = held[t] /\ othersOf(t) \in Nat /\ RatesFit(e, active, othersOf(t))
  <2>1. sync(totalBalance) \in [accum : Nat, rate : Nat, updatedAt : 0..now]
        /\ sync(totalBalance).rate = totalBalance.rate
    BY <1>6, SyncedTotal
  <2> QED
    BY <1>3, <1>6, <1>8, <2>1, FrameStart
<1>13. Continues(e, e, active, othersOf(t))
  <2>1. \A r \in Sources : Charge(e, r) \in Int
    <3> TAKE r \in Sources
    <3>1. e.sources[r].lastPremium \in Int /\ DueIn(e, r) \in Nat
      BY <1>6, <1>12, DueType DEF Frames, SourceRecords
    <3> QED
      BY <3>1 DEF Charge
  <2> QED
    BY <1>12, <2>1 DEF Continues
<1>14. Continues(e, f, active, othersOf(t))
  BY <1>4, <1>6, <1>10, <1>12, <1>13, SyncAllContinues
<1>15. ~f.reverted
  BY <1>5 DEF saveFrame
<1>16. /\ f \in Frames /\ f.token = t /\ Sound(f) /\ RatesFit(f, active, othersOf(t))
       /\ \A r \in Sources \ active : f.sources[r] = sourceBalances[r]
       /\ \A r \in Sources : f.sources[r].rate \in {0, sourceBalances[r].rate} /\ Charge(f, r) <= Charge(e, r)
       /\ f.held - f.balance.accumAmount = e.held - e.balance.accumAmount
       /\ AtPar /\ PricedAtPar(e) => PricedAtPar(f) /\ Surplus(f) = Surplus(e)
  BY <1>12, <1>14, <1>15 DEF Continues
<1>17. sourceBalances' = f.sources /\ totalBalance' = f.total /\ balances' = [balances EXCEPT ![t] = f.balance]
  BY <1>5, <1>16 DEF saveFrame
<1>18. /\ RatesAddUp' /\ TotalRateOK' /\ TokensReceived'
       /\ held' \in [AllTokens -> Nat]
       /\ sourceBalances' \in [Sources -> [lastPremium : Nat, rate : Rates \union {0}, updatedAt : 0..now']]
       /\ totalBalance' \in [accum : Nat, rate : Nat, updatedAt : 0..now']
       /\ balances' \in [Tokens -> [accumAmount : Nat, rateValue : Nat, applyFrom : 0..now']]
  <2>1. sourceToken' = sourceToken /\ activeSources' = activeSources /\ now' = now /\ takenFees' = takenFees
        /\ TokensReceived
    BY <1>5 DEF memberVars, feeVars, FundInv
  <2>2. SavesRates(f, t, active)
    BY <1>6, <1>8, <1>16, <2>1, RatesStay
  <2>3. f.held - f.balance.accumAmount >= held[t] - balances[t].accumAmount
    <3>1. e.held \in Int /\ e.balance.accumAmount \in Int
      BY <1>12 DEF Frames, AssetRecords
    <3> QED
      BY <1>12, <1>16, <3>1
  <2> QED
    BY <1>5, <1>6, <1>16, <2>1, <2>2, <2>3, FrameSaved
<1>19. /\ configs' \in [AllTokens -> [price : Nat, suspended : BOOLEAN, finished : BOOLEAN, auto : BOOLEAN]]
       /\ configs'[t].price = f.price /\ \A u \in Tokens \ {t} : configs'[u].price = configs[u].price
  <2>1. f.price \in Nat /\ t \in AllTokens /\ Tokens \subseteq AllTokens
    BY <1>16 DEF Sound, Frames, AllTokens
  <2>2. configs \in [AllTokens -> [price : Nat, suspended : BOOLEAN, finished : BOOLEAN, auto : BOOLEAN]]
    BY <1>6, FundTyping
  <2> QED
    BY <1>5, <2>1, <2>2
<1>20. FundTypeOK'
  <2>1. /\ state' = state /\ suspended' = suspended /\ knownTokens' = knownTokens /\ tokenActuaries' = tokenActuaries
        /\ sourceToken' = sourceToken /\ activeSources' = activeSources /\ now' = now
        /\ collectedFees' = collectedFees /\ takenFees' = takenFees
    BY <1>5 DEF memberVars, feeVars
  <2> QED
    BY <1>6, <1>11, <1>18, <1>19, <2>1 DEF RatesInv, FundTypeOK
<1>21. AllocatedOK' /\ ActiveOK'
  BY <1>5, <1>6 DEF RatesInv, AllocatedOK, ActiveOK, ActiveOf, memberVars
<1>22. ChargesOK'
  <2>1. sourceToken' = sourceToken /\ formerSources' = formerSources /\ now' = now /\ allocated' = allocated
    BY <1>5 DEF memberVars
  <2>2. \A r \in Sources : Charge(e, r) = sourceBalances[r].lastPremium + Supply(r)
    BY <1>6, <1>12, DueType DEF Charge, Supply
  <2> QED
    BY <1>6, <1>8, <1>16, <1>17, <2>1, <2>2, ChargesFall DEF FundInv
<1>23. ASSUME AtPar PROVE HeldAtPar' /\ Covered'
  <2>1. now' = now /\ sync(totalBalance)'.accum \in Int /\ sync(totalBalance)'.accum >= f.total.accum
    BY <1>5, <1>6, <1>17, <1>18, SyncedAfter
  <2>2. HeldAtPar /\ PricedAtPar(e)
    BY <1>12, <1>23 DEF FundInv, HeldAtPar, PricedAtPar
  <2>3. Surplus(e) >= SumFunctionOnSet(AmountOfToken, Tokens \ {t})
    BY <1>6, <1>12, <1>23, CoveredBefore DEF FundInv
  <2> QED
    BY <1>6, <1>16, <1>17, <1>19, <1>23, <2>1, <2>2, <2>3, FrameSavedAtPar
<1> QED
  BY <1>18, <1>20, <1>21, <1>22, <1>23 DEF FundInv, RatesInv, AtPar

\* A frame e of a swap leads to f: the source that is pulled is in active, which has n elements.
Restocked(e, f, active, n) ==
    /\ f \in Frames /\ Sound(f) /\ f.token = e.token /\ (f.next = e.next \/ f.next \in 0..n)
    /\ f.total.rate = e.total.rate /\ f.balance.rateValue = e.balance.rateValue
    /\ \A r \in Sources \ active : f.sources[r] = e.sources[r]
    /\ \A r \in Sources : f.sources[r].rate = e.sources[r].rate /\ Charge(f, r) <= Charge(e, r)
    /\ f.held - f.balance.accumAmount = e.held - e.balance.accumAmount
    /\ SumFunctionOnSet(DuesIn(f), Sources) <= SumFunctionOnSet(DuesIn(e), Sources)
    /\ AtPar /\ PricedAtPar(e) => PricedAtPar(f) /\ Surplus(f) = Surplus(e)

\* A swap need not replenish.
LEMMA NotRestocked ==
    ASSUME Clock, NEW e \in Frames, Sound(e), NEW active \in SUBSET Sources, NEW n
    PROVE  Restocked(e, e, active, n)
<1>1. \A r \in Sources : Charge(e, r) \in Int
  <2> TAKE r \in Sources
  <2>1. e.sources[r].lastPremium \in Int /\ DueIn(e, r) \in Nat
    BY DueType DEF Frames, SourceRecords
  <2> QED
    BY <2>1 DEF Charge
<1>2. SumFunctionOnSet(DuesIn(e), Sources) \in Int
  BY FrameSums, SumInt
<1> QED
  BY <1>1, <1>2 DEF Restocked

pulled(e, next, s, pay) == replenish([e EXCEPT !.next = next], s, 0, pay)

\* The pull of a swap.
LEMMA PullRestocks ==
    ASSUME Clock, NEW e \in Frames, Sound(e), NEW active \in SUBSET Sources, NEW s \in active, NEW pay \in Pays,
           NEW n \in Nat, NEW next \in 0..n, NEW p, p = pulled(e, next, s, pay), ~p.reverted
    PROVE  Restocked(e, p, active, n) /\ e.balance.accumAmount <= p.balance.accumAmount
<1>1. PICK d : d = [e EXCEPT !.next = next]
  OBVIOUS
<1>2. PICK zero \in Nat : zero = 0
  OBVIOUS
<1>3. d \in Frames /\ d.next = next /\ d.token = e.token /\ d.balance = e.balance /\ d.total = e.total
      /\ d.sources = e.sources /\ d.held = e.held /\ d.price = e.price /\ d.reverted = e.reverted
  BY <1>1 DEF Frames
<1>4. p = replenish(d, s, zero, pay)
  BY <1>1, <1>2 DEF pulled
<1>5. /\ Pulled(d, p, s, zero)
      /\ pay.price = WAD => p.value = p.amount
      /\ pay.price = WAD /\ PricedAtPar(d) => PricedAtPar(p)
  BY <1>3, <1>4, ReplenishType
<1>6. \A r \in Sources : DueIn(d, r) = DueIn(e, r)
  BY <1>3 DEF DueIn
<1>7. /\ p \in Frames /\ p.token = d.token /\ p.next = d.next
      /\ \A r \in Sources \ {s} : p.sources[r] = d.sources[r]
      /\ p.sources[s].rate = d.sources[s].rate /\ p.sources[s].updatedAt = now
      /\ p.sources[s].lastPremium <= d.sources[s].lastPremium + most(zero, DueIn(d, s))
      /\ p.held = d.held + p.amount
      /\ p.balance.accumAmount = d.balance.accumAmount + p.amount
      /\ p.balance.rateValue = d.balance.rateValue
      /\ p.total.rate = d.total.rate
      /\ p.total.accum = d.total.accum - DueIn(d, s) + p.value
      /\ p.sources[s].lastPremium >= d.sources[s].lastPremium
      /\ d.total.accum >= 0 => p.total.accum >= 0
      /\ d.price >= 0 => p.price >= 0
  BY <1>5 DEF Pulled
<1>8. DueIn(e, s) \in Nat /\ DueIn(p, s) = 0
  BY <1>7, DueType
<1>9. /\ e.sources[s].lastPremium \in Int /\ p.sources[s].lastPremium \in Int
      /\ e.held \in Int /\ e.balance.accumAmount \in Int /\ p.amount \in Nat
  BY <1>7 DEF Frames, SourceRecords, AssetRecords
<1>10. Sound(p)
  <2>1. e.sources[s].lastPremium >= 0
    BY DEF Sound
  <2>2. p.sources[s].lastPremium >= 0
    BY <1>3, <1>7, <1>9, <2>1
  <2> QED
    BY <1>3, <1>7, <2>2 DEF Sound
<1>11. ASSUME NEW r \in Sources
       PROVE  p.sources[r].rate = e.sources[r].rate /\ Charge(p, r) <= Charge(e, r)
  <2>1. CASE r # s
    <3>1. p.sources[r] = e.sources[r]
      BY <1>3, <1>7, <2>1
    <3>2. Charge(e, r) \in Int
      <4>1. e.sources[r].lastPremium \in Int /\ DueIn(e, r) \in Nat
        BY DueType DEF Frames, SourceRecords
      <4> QED
        BY <4>1 DEF Charge
    <3>3. Charge(p, r) = Charge(e, r)
      BY <3>1 DEF Charge, DueIn
    <3> QED
      BY <3>1, <3>2, <3>3
  <2>2. CASE r = s
    <3>1. most(zero, DueIn(e, s)) = DueIn(e, s)
      BY <1>2, <1>8 DEF most
    <3>2. p.sources[s].lastPremium <= e.sources[s].lastPremium + DueIn(e, s)
      BY <1>3, <1>6, <1>7, <3>1
    <3>3. Charge(p, s) = p.sources[s].lastPremium + 0 /\ Charge(e, s) = e.sources[s].lastPremium + DueIn(e, s)
      BY <1>8 DEF Charge
    <3> QED
      BY <1>3, <1>7, <1>8, <1>9, <2>2, <3>2, <3>3
  <2> QED
    BY <2>1, <2>2
<1>12. p.held - p.balance.accumAmount = e.held - e.balance.accumAmount
       /\ e.balance.accumAmount <= p.balance.accumAmount
  BY <1>3, <1>7, <1>9
<1>13. SumFunctionOnSet(DuesIn(p), Sources) <= SumFunctionOnSet(DuesIn(e), Sources)
  <2>1. \A r \in Sources \ {s} : p.sources[r] = e.sources[r]
    BY <1>3, <1>7
  <2>2. SumFunctionOnSet(DuesIn(p), Sources) = SumFunctionOnSet(DuesIn(e), Sources) - DueIn(e, s)
    BY <1>7, <1>8, <2>1, DuesAreTaken
  <2>3. SumFunctionOnSet(DuesIn(e), Sources) \in Int
    BY FrameSums, SumInt
  <2> QED
    BY <1>8, <2>2, <2>3
<1>14. ASSUME AtPar, PricedAtPar(e) PROVE PricedAtPar(p) /\ Surplus(p) = Surplus(e)
  <2>1. pay.price = WAD
    BY <1>14 DEF AtPar, Pays
  <2>2. PricedAtPar(d)
    BY <1>3, <1>14 DEF PricedAtPar
  <2>3. p.value = p.amount /\ PricedAtPar(p)
    BY <1>5, <2>1, <2>2
  <2>4. Surplus(p) = Surplus(e)
    <3>1. p.balance.accumAmount = e.balance.accumAmount + p.amount
          /\ p.total.accum = e.total.accum - DueIn(e, s) + p.amount
          /\ \A r \in Sources \ {s} : p.sources[r] = e.sources[r]
      BY <1>3, <1>6, <1>7, <2>3
    <3> QED
      BY <1>7, <3>1, SurplusIsKept
  <2> QED
    BY <2>3, <2>4
<1>15. \A r \in Sources \ active : p.sources[r] = e.sources[r]
  BY <1>3, <1>7
<1> QED
  BY <1>3, <1>7, <1>10, <1>11, <1>12, <1>13, <1>14, <1>15 DEF Restocked

\* The pull of a swap results in a frame, if it fails or not.
LEMMA PulledType ==
    ASSUME Clock, NEW e \in Frames, NEW s \in Sources, NEW pay \in Pays, NEW next \in Nat, NEW p, p = pulled(e, next, s, pay)
    PROVE  p \in Frames
<1>1. PICK d : d = [e EXCEPT !.next = next]
  OBVIOUS
<1>2. PICK zero \in Nat : zero = 0
  OBVIOUS
<1>3. d \in Frames
  BY <1>1 DEF Frames
<1>4. p = replenish(d, s, zero, pay)
  BY <1>1, <1>2 DEF pulled
<1>5. Pulled(d, p, s, zero)
  BY <1>3, <1>4, ReplenishType
<1> QED
  BY <1>5 DEF Pulled

\* No amount has no value, at any price.
LEMMA NothingIsNoValue == ASSUME NEW price \in Int PROVE wadMul(0, price) = 0
<1>1. WAD \in Nat \ {0}
  BY FundAssumption
<1>2. WAD \div 2 \in Nat /\ WAD \div 2 < WAD
  BY <1>1
<1>3. 0 * price + WAD \div 2 = WAD \div 2
  BY <1>2
<1>4. (WAD \div 2) \div WAD = 0
  <2>1. PICK half \in Nat : half = WAD \div 2
    BY <1>2
  <2>2. 0 * WAD <= half /\ half < 0 * WAD + WAD
    BY <1>1, <1>2, <2>1
  <2>3. half \div WAD = 0
    BY <1>1, <2>2, DivUnique
  <2> QED
    BY <2>1, <2>3
<1> QED
  BY <1>3, <1>4 DEF wadMul

\* What is given out is taken from the balance, the total and the tokens.
LEMMA GiveOutKeeps ==
    ASSUME Clock, NEW e \in Frames, NEW p, NEW active, NEW n, Restocked(e, p, active, n), NEW amount \in Nat,
           amount <= p.balance.accumAmount, NEW f, f = giveOut(p, amount), ~f.reverted
    PROVE  /\ Restocked(e, f, active, n) /\ f.amount = amount
           /\ f.balance.accumAmount = p.balance.accumAmount - amount
           /\ amount = 0 => f.total.accum = p.total.accum
<1> DEFINE value == wadMul(amount, p.price)
<1>1. /\ p \in Frames /\ Sound(p) /\ p.token = e.token /\ (p.next = e.next \/ p.next \in 0..n)
      /\ p.total.rate = e.total.rate /\ p.balance.rateValue = e.balance.rateValue
      /\ \A r \in Sources \ active : p.sources[r] = e.sources[r]
      /\ \A r \in Sources : p.sources[r].rate = e.sources[r].rate /\ Charge(p, r) <= Charge(e, r)
      /\ p.held - p.balance.accumAmount = e.held - e.balance.accumAmount
      /\ SumFunctionOnSet(DuesIn(p), Sources) <= SumFunctionOnSet(DuesIn(e), Sources)
      /\ AtPar /\ PricedAtPar(e) => PricedAtPar(p) /\ Surplus(p) = Surplus(e)
  BY DEF Restocked
<1>2. /\ p.balance \in AssetRecords /\ p.total \in TotalRecords /\ p.price \in Int /\ p.held \in Nat
      /\ p.price >= 0 /\ p.total.accum >= 0
  BY <1>1 DEF Frames, Sound
<1>3. p.balance.accumAmount \in Nat /\ p.total.accum \in Int
  BY <1>2 DEF AssetRecords, TotalRecords
<1>4. value \in Nat
  BY <1>2, WadMulType
<1>5. amount = 0 => value = 0
  BY <1>2, NothingIsNoValue
<1>6. PricedAtPar(p) /\ AtPar => value = amount
  <2> SUFFICES ASSUME PricedAtPar(p) PROVE value = amount
    OBVIOUS
  <2>1. CASE amount = 0
    BY <1>5, <2>1
  <2>2. CASE amount # 0
    <3>1. p.price = WAD
      BY <1>3, <2>2 DEF PricedAtPar
    <3> QED
      BY <3>1, ParMul
  <2> QED
    BY <2>1, <2>2
<1>7. f = [p EXCEPT !.balance.accumAmount = @ - amount, !.total.accum = @ - value, !.held = @ - amount,
                    !.amount = amount, !.reverted = @ \/ p.total.accum < value \/ p.held < amount]
  BY DEF giveOut
<1> HIDE DEF value
<1>8. /\ f.balance = [p.balance EXCEPT !.accumAmount = @ - amount]
      /\ f.total = [p.total EXCEPT !.accum = @ - value]
      /\ f.held = p.held - amount /\ f.amount = amount
      /\ f.token = p.token /\ f.next = p.next /\ f.price = p.price
      /\ f.value = p.value /\ f.expected = p.expected /\ f.sources = p.sources
  BY <1>1, <1>7 DEF Frames
<1>9. ~(p.total.accum < value) /\ ~(p.held < amount) /\ f.reverted \in BOOLEAN
  <2>1. f.reverted = (p.reverted \/ p.total.accum < value \/ p.held < amount)
    BY <1>1, <1>7 DEF Frames
  <2> QED
    BY <2>1
<1>10. f.balance \in AssetRecords /\ f.balance.accumAmount = p.balance.accumAmount - amount
       /\ f.balance.rateValue = p.balance.rateValue
  <2>1. p.balance.accumAmount - amount \in Nat
    BY <1>3
  <2> QED
    BY <1>2, <1>8, <2>1 DEF AssetRecords
<1>11. f.total \in TotalRecords /\ f.total.accum = p.total.accum - value /\ f.total.rate = p.total.rate
  <2>1. p.total.accum - value \in Int
    BY <1>3, <1>4
  <2> QED
    BY <1>2, <1>8, <2>1 DEF TotalRecords
<1>12. f.total.accum >= 0 /\ f.held \in Nat
  BY <1>2, <1>3, <1>4, <1>8, <1>9, <1>11
<1>13. f = [p EXCEPT !.balance = f.balance, !.total = f.total, !.held = f.held, !.amount = f.amount,
                     !.reverted = f.reverted]
  BY <1>1, <1>7, <1>8 DEF Frames
<1>14. f \in Frames
  BY <1>1, <1>8, <1>9, <1>10, <1>11, <1>12, <1>13 DEF Frames
<1>15. Sound(f)
  BY <1>1, <1>8, <1>12 DEF Sound
<1>16. f.held - f.balance.accumAmount = e.held - e.balance.accumAmount
  BY <1>1, <1>2, <1>3, <1>8, <1>10
<1>17. DuesIn(f) = DuesIn(p) /\ \A r \in Sources : Charge(f, r) = Charge(p, r)
  BY <1>8 DEF DuesIn, DueIn, Charge
<1>18. ASSUME AtPar, PricedAtPar(e) PROVE PricedAtPar(f) /\ Surplus(f) = Surplus(e)
  <2>1. PricedAtPar(p) /\ Surplus(p) = Surplus(e) /\ value = amount
    BY <1>1, <1>6, <1>18
  <2>2. PricedAtPar(f)
    BY <1>3, <1>8, <1>10, <2>1 DEF PricedAtPar
  <2>3. SumFunctionOnSet(DuesIn(p), Sources) \in Int
    BY <1>1, FrameSums, SumInt
  <2>4. Surplus(f) = Surplus(p)
    <3> DEFINE dues == SumFunctionOnSet(DuesIn(p), Sources)
    <3>1. dues \in Int
      BY <2>3
    <3> HIDE DEF dues
    <3>2. f.total.accum - f.balance.accumAmount - dues = p.total.accum - p.balance.accumAmount - dues
      BY <1>3, <1>10, <1>11, <2>1, <3>1
    <3> QED
      BY <1>17, <3>2 DEF Surplus, dues
  <2> QED
    BY <2>1, <2>2, <2>4
<1>19. Restocked(e, f, active, n)
  BY <1>1, <1>8, <1>10, <1>11, <1>14, <1>15, <1>16, <1>17, <1>18 DEF Restocked
<1>20. amount = 0 => f.total.accum = p.total.accum
  BY <1>3, <1>5, <1>11
<1> QED
  BY <1>8, <1>10, <1>19, <1>20

\* A swap on a frame of its asset.
LEMMA SwapEffect ==
    ASSUME FundInv, NEW i \in Instructions, NEW e \in Frames, Sound(e), e.token = i.token,
           NEW f, f = swapped(autoReplenish(e, i), i), ~f.reverted
    PROVE  /\ Restocked(e, f, ActiveOf(i.token), Len(activeSources[i.token])) /\ f.amount \in Nat
           /\ f.amount = 0 => e.balance.accumAmount <= f.balance.accumAmount
           /\ f.amount = 0 /\ ~needsReplenish(e, i) => f.total.accum = e.total.accum
<1>1. RatesInv /\ Clock
  BY FundTyping DEF FundInv
<1>2. i.token \in Tokens /\ i.pay \in Pays /\ i.amount \in Nat
  BY FundAssumption DEF Instructions
<1>3. PICK active \in SUBSET Sources : active = ActiveOf(i.token)
  BY <1>1, <1>2, FundTyping
<1>4. PICK n \in Nat : n = Len(activeSources[i.token])
  BY <1>1, <1>2, FundTyping
<1>5. PICK p : p = autoReplenish(e, i)
  OBVIOUS
<1>6. f = giveOut(p, least(i.amount, p.balance.accumAmount))
  BY <1>5 DEF swapped
<1>7. p \in Frames => ~p.reverted
  BY <1>6 DEF giveOut, Frames
<1>8. e.balance.accumAmount \in Nat /\ e.total.accum \in Int
  BY DEF Frames, AssetRecords, TotalRecords
<1>9. /\ Restocked(e, p, active, n) /\ e.balance.accumAmount <= p.balance.accumAmount
      /\ ~needsReplenish(e, i) => p.total.accum = e.total.accum
  <2>1. CASE ~needsReplenish(e, i)
    <3>1. p = e
      BY <1>5, <2>1 DEF autoReplenish
    <3> QED
      BY <1>1, <1>8, <3>1, NotRestocked
  <2>2. CASE needsReplenish(e, i) /\ activeSources[i.token] = <<>>
    <3>1. p = [e EXCEPT !.reverted = TRUE]
      BY <1>5, <2>2 DEF autoReplenish
    <3>2. p \in Frames /\ p.reverted
      <4>1. PICK yes \in BOOLEAN : yes = TRUE
        OBVIOUS
      <4>2. p = [e EXCEPT !.reverted = yes]
        BY <3>1, <4>1
      <4>3. p \in Frames /\ p.reverted = yes
        BY <4>2 DEF Frames
      <4> QED
        BY <4>1, <4>3
    <3> QED
      BY <1>7, <3>2
  <2>3. CASE needsReplenish(e, i) /\ activeSources[i.token] # <<>>
    <3>1. PICK list \in Seq(Sources) : list = activeSources[i.token]
      BY <1>1, <1>2, FundTyping
    <3>2. n # 0 /\ DOMAIN list = 1..n
      BY <1>4, <2>3, <3>1
    <3>3. PICK first : first = firstIndex(e.next, n)
      OBVIOUS
    <3>4. first \in 0..(n - 1)
      <4>1. e.next \in Nat
        BY DEF Frames
      <4> QED
        BY <3>2, <3>3, <4>1 DEF firstIndex
    <3>5. p = pulled(e, first + 1, list[first + 1], i.pay)
      BY <1>4, <1>5, <2>3, <3>1, <3>3 DEF autoReplenish, pullNext, pulled
    <3>6. first + 1 \in 0..n /\ list[first + 1] \in active
      <4>1. first + 1 \in 1..n
        BY <3>2, <3>4
      <4> QED
        BY <1>3, <3>1, <3>2, <4>1 DEF ActiveOf
    <3>7. PICK next \in 0..n : next = first + 1
      BY <3>6
    <3>8. PICK s \in active : s = list[first + 1]
      BY <3>6
    <3>9. p = pulled(e, next, s, i.pay)
      BY <3>5, <3>7, <3>8
    <3>10. p \in Frames
      BY <1>1, <1>2, <3>9, PulledType
    <3>11. Restocked(e, p, active, n) /\ e.balance.accumAmount <= p.balance.accumAmount
      BY <1>1, <1>2, <1>7, <3>9, <3>10, PullRestocks
    <3> QED
      BY <2>3, <3>11
  <2> QED
    BY <2>1, <2>2, <2>3
<1>10. p.balance.accumAmount \in Nat
  BY <1>9 DEF Restocked, Frames, AssetRecords
<1>11. PICK amount \in Nat : amount = least(i.amount, p.balance.accumAmount)
  BY <1>2, <1>10 DEF least
<1>12. amount <= p.balance.accumAmount
  BY <1>2, <1>10, <1>11 DEF least
<1>13. /\ Restocked(e, f, active, n) /\ f.amount = amount
       /\ f.balance.accumAmount = p.balance.accumAmount - amount
       /\ amount = 0 => f.total.accum = p.total.accum
  BY <1>1, <1>6, <1>9, <1>11, <1>12, GiveOutKeeps
<1>14. f.amount = 0 => e.balance.accumAmount <= f.balance.accumAmount
  BY <1>8, <1>9, <1>10, <1>13
<1> QED
  BY <1>3, <1>4, <1>9, <1>13, <1>14

\* Rates that stay go on adding up.
LEMMA RatesUnchanged ==
    ASSUME RatesInv, activeSources' = activeSources, sourceToken' = sourceToken,
           \A u \in Tokens : balances'[u].rateValue = balances[u].rateValue,
           \A s \in Sources : sourceBalances'[s].rate = sourceBalances[s].rate, totalBalance'.rate = totalBalance.rate
    PROVE  RatesAddUp' /\ TotalRateOK'
<1>1. RateOfToken' = RateOfToken /\ RateOfSource' = RateOfSource
  BY DEF RateOfToken, RateOfSource
<1>2. totalBalance.rate = SumFunction(RateOfToken) /\ totalBalance.rate = SumFunctionOnSet(RateOfSource, Sources)
  BY DEF RatesInv, RatesAddUp, TotalRateOK
<1>3. (totalBalance.rate = SumFunction(RateOfToken))' /\ TotalRateOK'
  BY <1>1, <1>2 DEF TotalRateOK
<1>4. ASSUME NEW u \in Tokens PROVE (balances[u].rateValue = SumFunctionOnSet(RateOfSource, ActiveOf(u)))'
  <2>1. balances[u].rateValue = SumFunctionOnSet(RateOfSource, ActiveOf(u))
    BY DEF RatesInv, RatesAddUp
  <2>2. ActiveOf(u)' = ActiveOf(u)
    BY DEF ActiveOf
  <2>3. balances'[u].rateValue = SumFunctionOnSet(RateOfSource', ActiveOf(u)')
    BY <1>1, <2>1, <2>2
  <2> QED
    BY <2>3
<1>5. ASSUME NEW s \in Sources
      PROVE  (sourceBalances[s].rate > 0 => isRegistered(s) /\ s \in ActiveOf(sourceToken[s]))'
  <2>1. sourceBalances[s].rate > 0 => isRegistered(s) /\ s \in ActiveOf(sourceToken[s])
    BY DEF RatesInv, RatesAddUp
  <2> QED
    BY <2>1 DEF isRegistered, ActiveOf
<1> QED
  BY <1>3, <1>4, <1>5 DEF RatesAddUp

-----------------------------------------------------------------------------
(* Swaps, whose results are added up in the record of a batch.             *)

Configs == [price : Nat, suspended : BOOLEAN, finished : BOOLEAN, auto : BOOLEAN]
AmountsIn(b) == [u \in Tokens |-> b.balances[u].accumAmount]

BatchTypeOK(b) ==
    /\ b.balances \in [Tokens -> AssetRecords]
    /\ b.sources \in [Sources -> SourceRecords] /\ \A r \in Sources : b.sources[r].lastPremium >= 0
    /\ b.next \in [Tokens -> 0..Cardinality(Sources)]
    /\ b.configs \in [AllTokens -> Configs]
    /\ b.held \in [AllTokens -> Nat] /\ b.fees \in [AllTokens -> Nat] /\ b.sum \in TotalRecords

BatchOK(b) ==
    /\ BatchTypeOK(b)
    /\ b.sum.rate = totalBalance.rate
    /\ \A u \in Tokens : /\ b.balances[u].rateValue = balances[u].rateValue
                         /\ b.held[u] - b.balances[u].accumAmount >= held[u] - balances[u].accumAmount
    /\ \A r \in Sources : /\ b.sources[r].rate = sourceBalances[r].rate
                          /\ ~isRegistered(r) => b.sources[r] = sourceBalances[r]
                          /\ Charge(b, r) <= sourceBalances[r].lastPremium + Supply(r)
    /\ AtPar => /\ \A u \in Tokens : b.balances[u].accumAmount > 0 => b.configs[u].price = WAD
                /\ sync(b.sum).accum >= SumFunctionOnSet(AmountsIn(b), Tokens) + SumFunctionOnSet(DuesIn(b), Sources)

\* A total is brought up to date.
LEMMA SyncedSum ==
    ASSUME Clock, NEW sum \in TotalRecords
    PROVE  /\ sync(sum) \in TotalRecords /\ sync(sum).rate = sum.rate /\ sync(sum).updatedAt = now
           /\ sync(sum).accum >= sum.accum /\ (sum.updatedAt = now => sync(sum).accum = sum.accum)
<1>1. now \in Nat /\ sum.accum \in Int /\ sum.rate \in Nat /\ sum.updatedAt \in 0..now
  BY DEF Clock, TotalRecords
<1> DEFINE growth == sum.rate * (now - sum.updatedAt)
<1>2. growth \in Nat /\ (sum.updatedAt = now => growth = 0)
  <2>1. now - sum.updatedAt \in Nat /\ (sum.updatedAt = now => now - sum.updatedAt = 0)
    BY <1>1
  <2> QED
    BY <1>1, <2>1
<1>3. sync(sum) = [sum EXCEPT !.accum = @ + growth, !.updatedAt = now]
  BY DEF sync
<1> HIDE DEF growth
<1>4. sync(sum).accum = sum.accum + growth /\ sync(sum).rate = sum.rate /\ sync(sum).updatedAt = now
  BY <1>3 DEF TotalRecords
<1>5. sync(sum) \in TotalRecords
  <2>1. sum.accum + growth \in Int /\ now \in 0..now
    BY <1>1, <1>2
  <2> QED
    BY <1>3, <2>1 DEF TotalRecords
<1>6. sum.accum + growth >= sum.accum /\ (sum.updatedAt = now => sum.accum + growth = sum.accum)
  BY <1>1, <1>2
<1> QED
  BY <1>4, <1>5, <1>6

\* Sources of a record other than a frame.
LEMMA BatchSums ==
    ASSUME Clock, NEW b, BatchTypeOK(b)
    PROVE  /\ Summable(AmountsIn(b), Tokens) /\ \A u \in Tokens : AmountsIn(b)[u] = b.balances[u].accumAmount
           /\ \A u \in Tokens : AmountsIn(b)[u] \in Nat
           /\ Summable(DuesIn(b), Sources)
           /\ \A r \in Sources : Charge(b, r) \in Int
<1>1. IsFiniteSet(Tokens) /\ IsFiniteSet(Sources)
  BY FundAssumption
<1>2. \A u \in Tokens : AmountsIn(b)[u] = b.balances[u].accumAmount /\ AmountsIn(b)[u] \in Nat
  BY DEF BatchTypeOK, AmountsIn, AssetRecords
<1>3. ASSUME NEW r \in Sources PROVE DueIn(b, r) \in Nat /\ Charge(b, r) \in Int
  <2>1. b.sources[r] \in SourceRecords
    BY DEF BatchTypeOK
  <2>2. b.sources[r].rate \in Rates \union {0} /\ b.sources[r].updatedAt \in 0..now /\ b.sources[r].lastPremium \in Int
    BY <2>1 DEF SourceRecords
  <2>3. b.sources[r].rate \in Nat /\ now - b.sources[r].updatedAt \in Nat
    BY <2>2, RatesAreNatural DEF Clock
  <2> QED
    BY <2>2, <2>3 DEF DueIn, Charge
<1> QED
  BY <1>1, <1>2, <1>3 DEF Summable, DuesIn


\* The frame of a swap in a batch: what the batch has for the token, and the total before it.
FrameOf(b, e, t) ==
    /\ e \in Frames /\ Sound(e) /\ e.token = t /\ e.balance = b.balances[t] /\ e.total = sync(totalBalance)
    /\ e.sources = b.sources /\ e.next = b.next[t] /\ e.price = b.configs[t].price /\ e.held = b.held[t]

\* The result f of a swap is put into the batch b, which gives c.
AddsUp(b, f, t, c) ==
    /\ c.balances = IF f.amount > 0 THEN [b.balances EXCEPT ![t] = f.balance] ELSE b.balances
    /\ c.sources = f.sources
    /\ c.next = [b.next EXCEPT ![t] = f.next]
    /\ c.configs = [b.configs EXCEPT ![t].price = f.price]
    /\ c.held = [b.held EXCEPT ![t] = f.held]
    /\ \E fee \in Nat : c.fees = [b.fees EXCEPT ![t] = @ + fee]
    /\ c.sum \in TotalRecords /\ c.sum.rate = b.sum.rate

\* The total of a batch changes as that of the frame does, unless nothing is given out.
TotalAddsUp(b, e, f, c) ==
    \/ sync(c.sum).accum >= sync(b.sum).accum + f.total.accum - e.total.accum
    \/ f.amount = 0 /\ sync(c.sum).accum >= sync(b.sum).accum

\* The types of a batch.
LEMMA BatchStepType ==
    ASSUME RatesInv, Clock, NEW t \in Tokens, NEW b, BatchTypeOK(b), NEW e, FrameOf(b, e, t), NEW f,
           Restocked(e, f, ActiveOf(t), Len(activeSources[t])), NEW c, AddsUp(b, f, t, c)
    PROVE  BatchTypeOK(c)
<1>1. f \in Frames /\ Sound(f) /\ (f.next = e.next \/ f.next \in 0..Len(activeSources[t]))
  BY DEF Restocked
<1>2. t \in AllTokens
  BY DEF AllTokens
<1>3. c.balances \in [Tokens -> AssetRecords]
  <2>1. f.balance \in AssetRecords
    BY <1>1 DEF Frames
  <2> QED
    BY <2>1 DEF AddsUp, BatchTypeOK
<1>4. c.sources \in [Sources -> SourceRecords] /\ \A r \in Sources : c.sources[r].lastPremium >= 0
  BY <1>1 DEF AddsUp, Frames, Sound
<1>5. c.next \in [Tokens -> 0..Cardinality(Sources)]
  <2>1. activeSources[t] \in Seq(Sources) /\ Once(activeSources[t])
    BY FundTyping DEF RatesInv, ActiveOK
  <2>2. Len(activeSources[t]) \in Nat /\ Len(activeSources[t]) <= Cardinality(Sources) /\ Cardinality(Sources) \in Nat
    BY <2>1, LengthBound
  <2>3. 0..Len(activeSources[t]) \subseteq 0..Cardinality(Sources)
    BY <2>2
  <2>4. b.next \in [Tokens -> 0..Cardinality(Sources)] /\ e.next = b.next[t] /\ c.next = [b.next EXCEPT ![t] = f.next]
    BY DEF BatchTypeOK, FrameOf, AddsUp
  <2>5. f.next \in 0..Cardinality(Sources)
    BY <1>1, <2>3, <2>4
  <2> QED
    BY <2>4, <2>5
<1>6. c.configs \in [AllTokens -> Configs]
  <2>1. f.price \in Nat
    BY <1>1 DEF Frames, Sound
  <2>2. b.configs \in [AllTokens -> Configs] /\ c.configs = [b.configs EXCEPT ![t].price = f.price]
    BY DEF BatchTypeOK, AddsUp
  <2> QED
    BY <1>2, <2>1, <2>2 DEF Configs
<1>7. c.held \in [AllTokens -> Nat]
  BY <1>1, <1>2 DEF Frames, BatchTypeOK, AddsUp
<1>8. c.fees \in [AllTokens -> Nat]
  <2>1. PICK fee \in Nat : c.fees = [b.fees EXCEPT ![t] = @ + fee]
    BY DEF AddsUp
  <2>2. b.fees \in [AllTokens -> Nat]
    BY DEF BatchTypeOK
  <2> QED
    BY <1>2, <2>1, <2>2
<1> QED
  BY <1>3, <1>4, <1>5, <1>6, <1>7, <1>8 DEF BatchTypeOK, AddsUp

\* The total of a batch goes on covering the tokens and the supply.
LEMMA BatchStepCovers ==
    ASSUME RatesInv, Clock, AtPar, NEW t \in Tokens, NEW b, BatchTypeOK(b), NEW e, FrameOf(b, e, t), NEW f,
           Restocked(e, f, ActiveOf(t), Len(activeSources[t])), f.amount \in Nat, PricedAtPar(e),
           f.amount = 0 => e.balance.accumAmount <= f.balance.accumAmount,
           NEW c, AddsUp(b, f, t, c), TotalAddsUp(b, e, f, c),
           sync(b.sum).accum >= SumFunctionOnSet(AmountsIn(b), Tokens) + SumFunctionOnSet(DuesIn(b), Sources)
    PROVE  sync(c.sum).accum >= SumFunctionOnSet(AmountsIn(c), Tokens) + SumFunctionOnSet(DuesIn(c), Sources)
<1>1. BatchTypeOK(c)
  BY BatchStepType
<1>2. /\ f \in Frames /\ e \in Frames /\ Surplus(f) = Surplus(e)
      /\ SumFunctionOnSet(DuesIn(f), Sources) <= SumFunctionOnSet(DuesIn(e), Sources)
  BY DEF Restocked, FrameOf
<1>3. PICK P : P = AmountsIn(b)
  OBVIOUS
<1>4. PICK Q : Q = AmountsIn(c)
  OBVIOUS
<1>5. Summable(P, Tokens) /\ Summable(Q, Tokens)
      /\ \A u \in Tokens : P[u] = b.balances[u].accumAmount /\ Q[u] = c.balances[u].accumAmount
  BY <1>1, <1>3, <1>4, BatchSums
<1>6. P[t] = e.balance.accumAmount /\ P[t] \in Nat /\ Q[t] \in Nat /\ f.balance.accumAmount \in Nat
      /\ f.total.accum \in Int /\ e.total.accum \in Int
  <2>1. P[t] \in Nat /\ Q[t] \in Nat
    BY <1>1, <1>3, <1>4, BatchSums
  <2> QED
    BY <1>2, <1>5, <2>1 DEF FrameOf, Frames, AssetRecords, TotalRecords
<1>7. ChangedAt(P, Q, Tokens, t) /\ (f.amount > 0 => Q[t] = f.balance.accumAmount) /\ (~(f.amount > 0) => Q[t] = P[t])
  <2>1. CASE f.amount > 0
    <3>1. c.balances = [b.balances EXCEPT ![t] = f.balance] /\ b.balances \in [Tokens -> AssetRecords]
      BY <2>1 DEF AddsUp, BatchTypeOK
    <3>2. c.balances[t] = f.balance /\ \A u \in Tokens \ {t} : c.balances[u] = b.balances[u]
      BY <3>1
    <3> QED
      BY <1>5, <2>1, <3>2 DEF ChangedAt
  <2>2. CASE ~(f.amount > 0)
    <3>1. c.balances = b.balances
      BY <2>2 DEF AddsUp
    <3> QED
      BY <1>5, <2>2, <3>1 DEF ChangedAt
  <2> QED
    BY <2>1, <2>2
<1>8. SumFunctionOnSet(Q, Tokens) = SumFunctionOnSet(P, Tokens) - P[t] + Q[t]
  <2>1. Summable(P, Tokens) /\ Q[t] \in Int /\ ChangedAt(P, Q, Tokens, t)
    BY <1>5, <1>6, <1>7
  <2> QED
    BY ONLY Zenon, t \in Tokens, <2>1, SumChange
<1>9. DuesIn(b) = DuesIn(e) /\ DuesIn(c) = DuesIn(f)
  BY DEF DuesIn, DueIn, FrameOf, AddsUp
<1>10. PICK before : before = SumFunctionOnSet(DuesIn(e), Sources)
  OBVIOUS
<1>11. PICK after : after = SumFunctionOnSet(DuesIn(f), Sources)
  OBVIOUS
<1>12. PICK amounts : amounts = SumFunctionOnSet(P, Tokens)
  OBVIOUS
<1>13. before \in Int /\ after \in Int /\ after <= before /\ amounts \in Int
  <2>1. Summable(DuesIn(e), Sources) /\ Summable(DuesIn(f), Sources)
    BY <1>2, FrameSums
  <2> QED
    BY <1>2, <1>5, <1>10, <1>11, <1>12, <2>1, SumInt
<1>14. f.total.accum - f.balance.accumAmount - after = e.total.accum - P[t] - before
  BY <1>2, <1>6, <1>10, <1>11 DEF Surplus
<1>15. PICK x : x = sync(b.sum).accum
  OBVIOUS
<1>16. PICK y : y = sync(c.sum).accum
  OBVIOUS
<1>17. x \in Int /\ y \in Int
  <2>1. sync(b.sum) \in TotalRecords /\ sync(c.sum) \in TotalRecords
    BY <1>1, SyncedSum DEF BatchTypeOK
  <2> QED
    BY <1>15, <1>16, <2>1 DEF TotalRecords
<1>18. x >= amounts + before
  BY <1>3, <1>9, <1>10, <1>12, <1>15
<1>19. y >= x + f.total.accum - e.total.accum \/ (f.amount = 0 /\ y >= x)
  BY <1>15, <1>16 DEF TotalAddsUp
<1>20. f.amount = 0 => Q[t] = P[t] /\ P[t] <= f.balance.accumAmount
  BY <1>6, <1>7
<1>21. f.amount # 0 => Q[t] = f.balance.accumAmount
  BY <1>7
<1>22. PICK p \in Nat : p = P[t]
  BY <1>6
<1>23. PICK q \in Nat : q = Q[t]
  BY <1>6
<1>24. PICK moved \in Int : moved = f.total.accum - e.total.accum
  BY <1>6
<1>25. PICK amount \in Nat : amount = f.balance.accumAmount
  BY <1>6
<1>26. moved = amount + after - p - before
  <2>1. PICK here \in Int : here = f.total.accum
    BY <1>6
  <2>2. PICK there \in Int : there = e.total.accum
    BY <1>6
  <2>3. here - amount - after = there - p - before /\ moved = here - there
    BY <1>14, <1>22, <1>24, <1>25, <2>1, <2>2
  <2> QED
    BY ONLY <1>13, <2>3, here \in Int, there \in Int, p \in Nat, amount \in Nat, moved \in Int
<1>27. y >= x + moved \/ (f.amount = 0 /\ y >= x)
  BY <1>6, <1>17, <1>19, <1>24
<1>28. (f.amount = 0 => q = p /\ p <= amount) /\ (f.amount # 0 => q = amount)
  BY <1>20, <1>21, <1>22, <1>23, <1>25
<1>29. PICK none \in BOOLEAN : none = (f.amount = 0)
  OBVIOUS
<1>30. y >= amounts - p + q + after
  <2>1. y >= x + moved \/ (none /\ y >= x)
    BY <1>27, <1>29
  <2>2. (none => q = p /\ p <= amount) /\ (~none => q = amount)
    BY <1>28, <1>29
  <2> QED
    BY ONLY <1>13, <1>17, <1>18, <1>26, <2>1, <2>2, p \in Nat, q \in Nat, moved \in Int, amount \in Nat,
            none \in BOOLEAN
<1>31. y >= amounts - P[t] + Q[t] + after
  BY <1>22, <1>23, <1>30
<1> QED
  BY <1>4, <1>8, <1>9, <1>11, <1>12, <1>16, <1>31

\* A batch starts with what is stored.
LEMMA BatchStart ==
    ASSUME FundInv
    PROVE  BatchOK(batch)
<1>1. RatesInv /\ Clock
  BY FundTyping DEF FundInv
<1>2. PICK b : b = batch
  OBVIOUS
<1>3. b.balances = balances /\ b.sources = sourceBalances /\ b.next = nextReplenish /\ b.configs = configs
      /\ b.held = held /\ b.fees = collectedFees /\ b.sum = totalBalance
  BY <1>2 DEF batch
<1>4. BatchTypeOK(b)
  <2>1. totalBalance \in TotalRecords
    BY <1>1, FundTyping DEF TotalRecords
  <2>2. configs \in [AllTokens -> Configs]
    BY <1>1, FundTyping DEF Configs
  <2>3. sourceBalances \in [Sources -> SourceRecords] /\ \A r \in Sources : sourceBalances[r].lastPremium >= 0
    BY <1>1, FundTyping DEF SourceRecords
  <2> QED
    BY <1>1, <1>3, <2>1, <2>2, <2>3, FundTyping DEF BatchTypeOK
<1>5. DuesIn(b) = SupplyOfSource /\ AmountsIn(b) = AmountOfToken
      /\ \A r \in Sources : Charge(b, r) = sourceBalances[r].lastPremium + Supply(r)
  BY <1>3 DEF DuesIn, DueIn, SupplyOfSource, Supply, expectedSupply, AmountsIn, AmountOfToken, Charge
<1>6. \A u \in Tokens : b.held[u] - b.balances[u].accumAmount >= held[u] - balances[u].accumAmount
  <2> TAKE u \in Tokens
  <2>1. held[u] \in Nat /\ balances[u].accumAmount \in Nat
    BY <1>1, FundTyping DEF AllTokens, AssetRecords
  <2> QED
    BY <1>3, <2>1
<1>7. \A r \in Sources : Charge(b, r) <= sourceBalances[r].lastPremium + Supply(r)
  <2> TAKE r \in Sources
  <2>1. Charge(b, r) \in Int
    BY <1>1, <1>4, BatchSums
  <2> QED
    BY <1>5, <2>1
<1>8. AtPar => /\ \A u \in Tokens : b.balances[u].accumAmount > 0 => b.configs[u].price = WAD
               /\ sync(b.sum).accum >= SumFunctionOnSet(AmountsIn(b), Tokens) + SumFunctionOnSet(DuesIn(b), Sources)
  BY <1>3, <1>5 DEF FundInv, HeldAtPar, Covered
<1> QED
  BY <1>2, <1>3, <1>4, <1>6, <1>7, <1>8 DEF BatchOK

\* One swap of a batch.
LEMMA BatchStep ==
    ASSUME RatesInv, NEW t \in Tokens, NEW b, BatchOK(b), NEW e, FrameOf(b, e, t), NEW f,
           Restocked(e, f, ActiveOf(t), Len(activeSources[t])), f.amount \in Nat,
           f.amount = 0 => e.balance.accumAmount <= f.balance.accumAmount,
           NEW c, AddsUp(b, f, t, c), TotalAddsUp(b, e, f, c)
    PROVE  BatchOK(c)
<1>1. Clock /\ BatchTypeOK(b)
  BY FundTyping DEF BatchOK
<1>2. BatchTypeOK(c)
  BY <1>1, BatchStepType
<1>3. PICK active \in SUBSET Sources : active = ActiveOf(t)
  BY FundTyping
<1>4. /\ f \in Frames /\ f.balance.rateValue = e.balance.rateValue
      /\ \A r \in Sources \ active : f.sources[r] = e.sources[r]
      /\ \A r \in Sources : f.sources[r].rate = e.sources[r].rate /\ Charge(f, r) <= Charge(e, r)
      /\ f.held - f.balance.accumAmount = e.held - e.balance.accumAmount
      /\ AtPar /\ PricedAtPar(e) => PricedAtPar(f)
  BY <1>3 DEF Restocked
<1>5. e \in Frames /\ e.balance = b.balances[t] /\ e.sources = b.sources /\ e.price = b.configs[t].price /\ e.held = b.held[t]
  BY DEF FrameOf
<1>6. /\ c.balances = IF f.amount > 0 THEN [b.balances EXCEPT ![t] = f.balance] ELSE b.balances
      /\ c.sources = f.sources /\ c.configs = [b.configs EXCEPT ![t].price = f.price]
      /\ c.held = [b.held EXCEPT ![t] = f.held] /\ c.sum.rate = b.sum.rate
  BY DEF AddsUp
<1>7. /\ b.balances \in [Tokens -> AssetRecords] /\ b.held \in [AllTokens -> Nat] /\ b.configs \in [AllTokens -> Configs]
      /\ t \in AllTokens
  BY <1>1 DEF BatchTypeOK, AllTokens
<1>8. c.sum.rate = totalBalance.rate
  BY <1>6 DEF BatchOK
<1>9. ASSUME NEW u \in Tokens
      PROVE  /\ c.balances[u].rateValue = balances[u].rateValue
             /\ c.held[u] - c.balances[u].accumAmount >= held[u] - balances[u].accumAmount
  <2>1. b.balances[u].rateValue = balances[u].rateValue
        /\ b.held[u] - b.balances[u].accumAmount >= held[u] - balances[u].accumAmount
    BY DEF BatchOK
  <2>2. CASE u # t
    <3>1. c.balances[u] = b.balances[u] /\ c.held[u] = b.held[u]
      BY <1>6, <1>7, <2>2
    <3> QED
      BY <2>1, <3>1
  <2>3. CASE u = t
    <3>1. c.held[t] = f.held
      BY <1>6, <1>7
    <3>2. c.balances[t] = IF f.amount > 0 THEN f.balance ELSE e.balance
      BY <1>5, <1>6, <1>7
    <3>3. f.held \in Nat /\ e.held \in Nat /\ f.balance.accumAmount \in Nat /\ e.balance.accumAmount \in Nat
          /\ held[t] \in Nat /\ balances[t].accumAmount \in Nat
      BY <1>4, <1>5, <1>7, FundTyping DEF Frames, AssetRecords
    <3>4. c.balances[t].rateValue = e.balance.rateValue
      BY <1>4, <3>2
    <3>5. c.balances[t].accumAmount = IF f.amount > 0 THEN f.balance.accumAmount ELSE e.balance.accumAmount
      BY <3>2
    <3>6. e.held - e.balance.accumAmount >= held[t] - balances[t].accumAmount
      BY <1>5, <2>1, <2>3
    <3>7. c.balances[t].accumAmount \in Nat /\ c.balances[t].accumAmount <= f.balance.accumAmount
      BY <3>3, <3>5
    <3>8. c.held[t] - c.balances[t].accumAmount >= held[t] - balances[t].accumAmount
      <4>1. PICK mine \in Int : mine = c.balances[t].accumAmount
        BY <3>7
      <4>2. PICK its \in Int : its = f.balance.accumAmount
        BY <3>3
      <4>3. PICK has \in Int : has = f.held
        BY <3>3
      <4>4. PICK before \in Int : before = e.held - e.balance.accumAmount
        BY <3>3
      <4>5. PICK first \in Int : first = held[t] - balances[t].accumAmount
        BY <3>3
      <4>6. has - its = before /\ before >= first /\ mine <= its
        BY <1>4, <3>6, <3>7, <4>1, <4>2, <4>3, <4>4, <4>5
      <4>7. has - mine >= first
        BY ONLY <4>6, mine \in Int, its \in Int, has \in Int, before \in Int, first \in Int
      <4> QED
        BY <3>1, <4>1, <4>3, <4>5, <4>7
    <3> QED
      BY <1>5, <2>1, <2>3, <3>4, <3>8
  <2> QED
    BY <2>2, <2>3
<1>10. ASSUME NEW r \in Sources
       PROVE  /\ c.sources[r].rate = sourceBalances[r].rate
              /\ ~isRegistered(r) => c.sources[r] = sourceBalances[r]
              /\ Charge(c, r) <= sourceBalances[r].lastPremium + Supply(r)
  <2>1. /\ b.sources[r].rate = sourceBalances[r].rate
        /\ ~isRegistered(r) => b.sources[r] = sourceBalances[r]
        /\ Charge(b, r) <= sourceBalances[r].lastPremium + Supply(r)
    BY DEF BatchOK
  <2>2. ~isRegistered(r) => r \notin active
    BY <1>3, FundAssumption DEF RatesInv, ActiveOK, isRegistered
  <2>3. ~isRegistered(r) => c.sources[r] = sourceBalances[r]
    BY <1>4, <1>5, <1>6, <2>1, <2>2
  <2>4. Charge(c, r) = Charge(f, r) /\ Charge(e, r) = Charge(b, r)
    BY <1>5, <1>6 DEF Charge, DueIn
  <2>5. Charge(f, r) <= Charge(b, r) /\ Charge(c, r) \in Int /\ Charge(b, r) \in Int
    BY <1>1, <1>2, <1>4, <2>4, BatchSums
  <2>6. sourceBalances[r].lastPremium + Supply(r) \in Int
    <3>1. BatchTypeOK(c) /\ sourceBalances[r] \in [lastPremium : Nat, rate : Rates \union {0}, updatedAt : 0..now]
      BY <1>2, FundTyping
    <3>2. sourceBalances[r].lastPremium \in Nat /\ sourceBalances[r].rate \in Nat /\ now - sourceBalances[r].updatedAt \in Nat
      BY <1>1, <3>1, RatesAreNatural DEF Clock
    <3> QED
      BY <3>2 DEF Supply, expectedSupply
  <2> QED
    BY <1>4, <1>5, <1>6, <2>1, <2>3, <2>4, <2>5, <2>6
<1>11. ASSUME AtPar
       PROVE  /\ \A u \in Tokens : c.balances[u].accumAmount > 0 => c.configs[u].price = WAD
              /\ sync(c.sum).accum >= SumFunctionOnSet(AmountsIn(c), Tokens) + SumFunctionOnSet(DuesIn(c), Sources)
  <2>1. /\ \A u \in Tokens : b.balances[u].accumAmount > 0 => b.configs[u].price = WAD
        /\ sync(b.sum).accum >= SumFunctionOnSet(AmountsIn(b), Tokens) + SumFunctionOnSet(DuesIn(b), Sources)
    BY <1>11 DEF BatchOK
  <2>2. PricedAtPar(e)
    BY <1>5, <2>1 DEF PricedAtPar
  <2>3. sync(c.sum).accum >= SumFunctionOnSet(AmountsIn(c), Tokens) + SumFunctionOnSet(DuesIn(c), Sources)
    BY <1>1, <1>11, <2>1, <2>2, BatchStepCovers
  <2>4. ASSUME NEW u \in Tokens, c.balances[u].accumAmount > 0 PROVE c.configs[u].price = WAD
    <3>1. CASE u # t
      <4>1. c.balances[u] = b.balances[u] /\ c.configs[u] = b.configs[u]
        BY <1>6, <1>7, <3>1 DEF AllTokens
      <4> QED
        BY <2>1, <2>4, <4>1
    <3>2. CASE u = t
      <4>1. c.configs[t].price = f.price
        BY <1>6, <1>7 DEF Configs
      <4>2. f.balance.accumAmount > 0
        <5>1. f.balance.accumAmount \in Nat /\ e.balance.accumAmount \in Nat
          BY <1>4, <1>5 DEF Frames, AssetRecords
        <5>2. c.balances[t] = IF f.amount > 0 THEN f.balance ELSE e.balance
          BY <1>5, <1>6, <1>7
        <5> QED
          BY <2>4, <3>2, <5>1, <5>2
      <4> QED
        BY <1>4, <1>11, <2>2, <3>2, <4>1, <4>2 DEF PricedAtPar
    <3> QED
      BY <3>1, <3>2
  <2> QED
    BY <2>3, <2>4
<1> QED
  BY <1>2, <1>8, <1>9, <1>10, <1>11 DEF BatchOK


\* The fields of a batch are stored.
LEMMA BatchSaved ==
    ASSUME FundInv, UNCHANGED <<memberVars, takenFees, now, allocated>>, NEW b, BatchOK(b), b.sum.accum >= 0,
           balances' = b.balances, sourceBalances' = b.sources, totalBalance' = b.sum, nextReplenish' = b.next,
           configs' = b.configs, held' = b.held, collectedFees' = b.fees
    PROVE  FundInv'
<1>1. RatesInv /\ Clock /\ TokensReceived
  BY FundTyping DEF FundInv
<1>2. /\ state' = state /\ suspended' = suspended /\ knownTokens' = knownTokens /\ tokenActuaries' = tokenActuaries
      /\ sourceToken' = sourceToken /\ activeSources' = activeSources /\ formerSources' = formerSources
      /\ takenFees' = takenFees /\ now' = now /\ allocated' = allocated
  BY DEF memberVars
<1>3. /\ BatchTypeOK(b) /\ b.sum.rate = totalBalance.rate
      /\ \A u \in Tokens : /\ b.balances[u].rateValue = balances[u].rateValue
                           /\ b.held[u] - b.balances[u].accumAmount >= held[u] - balances[u].accumAmount
      /\ \A r \in Sources : /\ b.sources[r].rate = sourceBalances[r].rate
                            /\ ~isRegistered(r) => b.sources[r] = sourceBalances[r]
                            /\ Charge(b, r) <= sourceBalances[r].lastPremium + Supply(r)
  BY DEF BatchOK
<1>4. RatesAddUp' /\ TotalRateOK'
  BY <1>1, <1>2, <1>3, RatesUnchanged
<1>5. FundTypeOK'
  <2>1. balances' \in [Tokens -> [accumAmount : Nat, rateValue : Nat, applyFrom : 0..now']]
    BY <1>2, <1>3 DEF BatchTypeOK, AssetRecords
  <2>2. ASSUME NEW r \in Sources
        PROVE  sourceBalances'[r] \in [lastPremium : Nat, rate : Rates \union {0}, updatedAt : 0..now']
    <3>1. b.sources[r] \in SourceRecords /\ b.sources[r].lastPremium >= 0
      BY <1>3 DEF BatchTypeOK
    <3>2. PICK R : R = Rates \union {0}
      OBVIOUS
    <3>3. b.sources[r] \in [lastPremium : Int, rate : R, updatedAt : 0..now] /\ b.sources[r].lastPremium \in Nat
      BY <3>1, <3>2 DEF SourceRecords
    <3>4. b.sources[r] \in [lastPremium : Nat, rate : R, updatedAt : 0..now]
      BY <3>3
    <3> QED
      BY <1>2, <3>2, <3>4
  <2>3. sourceBalances' \in [Sources -> [lastPremium : Nat, rate : Rates \union {0}, updatedAt : 0..now']]
    BY <1>3, <2>2 DEF BatchTypeOK
  <2>4. totalBalance' \in [accum : Nat, rate : Nat, updatedAt : 0..now']
    BY <1>2, <1>3 DEF BatchTypeOK, TotalRecords
  <2>5. held' \in [AllTokens -> Nat] /\ collectedFees' \in [AllTokens -> Nat] /\ takenFees' \in [AllTokens -> Nat]
        /\ nextReplenish' \in [Tokens -> 0..Cardinality(Sources)]
        /\ configs' \in [AllTokens -> [price : Nat, suspended : BOOLEAN, finished : BOOLEAN, auto : BOOLEAN]]
    BY <1>1, <1>2, <1>3, FundTyping DEF BatchTypeOK, Configs
  <2> QED
    BY <1>1, <1>2, <2>1, <2>3, <2>4, <2>5 DEF RatesInv, FundTypeOK
<1>6. AllocatedOK' /\ ActiveOK'
  BY <1>1, <1>2 DEF RatesInv, AllocatedOK, ActiveOK, ActiveOf
<1>7. TokensReceived'
  <2> SUFFICES ASSUME NEW u \in Tokens PROVE held'[u] + takenFees'[u] >= balances'[u].accumAmount
    BY DEF TokensReceived
  <2>1. held[u] + takenFees[u] >= balances[u].accumAmount
    BY <1>1 DEF TokensReceived
  <2>2. held'[u] - balances'[u].accumAmount >= held[u] - balances[u].accumAmount
    BY <1>3
  <2>3. held[u] \in Nat /\ takenFees[u] \in Nat /\ balances[u].accumAmount \in Nat
        /\ held'[u] \in Nat /\ balances'[u].accumAmount \in Nat
    BY <1>1, <1>3, FundTyping DEF BatchTypeOK, AllTokens, AssetRecords
  <2> QED
    BY <1>2, <2>1, <2>2, <2>3
<1>8. ChargesOK'
  <2> SUFFICES ASSUME NEW r \in Sources PROVE ChargeOK(r)'
    BY DEF ChargesOK
  <2>1. ChargeOK(r)
    BY DEF FundInv, ChargesOK
  <2>2. isRegistered(r)' = isRegistered(r) /\ allocatedTotal(r, 0)' = allocatedTotal(r, 0)
    BY <1>2 DEF isRegistered, allocatedTotal, sync
  <2>3. CASE ~isRegistered(r)
    <3>1. sourceBalances'[r] = sourceBalances[r]
      BY <1>3, <2>3
    <3> QED
      BY <1>2, <2>1, <3>1, ChargeKept
  <2>4. CASE isRegistered(r)
    <3>1. sourceBalances[r].rate <= allocated[r].rate /\ sourceBalances[r].lastPremium + Supply(r) <= allocatedTotal(r, 0)
      BY <2>1, <2>4 DEF ChargeOK
    <3>2. sourceBalances'[r].rate = sourceBalances[r].rate
      BY <1>3
    <3>3. sourceBalances'[r].lastPremium + Supply(r)' = Charge(b, r)
      BY <1>2 DEF Supply, expectedSupply, Charge, DueIn
    <3>4. sourceBalances[r].lastPremium + Supply(r) \in Int /\ Charge(b, r) \in Int /\ allocatedTotal(r, 0) \in Int
      <4>1. sourceBalances[r].lastPremium \in Nat /\ sourceBalances[r].rate \in Nat /\ now - sourceBalances[r].updatedAt \in Nat
        BY <1>1, FundTyping, RatesAreNatural DEF Clock
      <4>2. allocatedTotal(r, 0) \in Nat
        <5>1. PICK zero \in Nat : zero = 0
          OBVIOUS
        <5> QED
          BY <1>1, <5>1, AllocatedType
      <4> QED
        BY <1>1, <1>3, <4>1, <4>2, BatchSums DEF Supply, expectedSupply
    <3>5. sourceBalances'[r].lastPremium + Supply(r)' <= allocatedTotal(r, 0)
      BY <1>3, <3>1, <3>3, <3>4
    <3> QED
      BY <1>2, <2>2, <2>4, <3>1, <3>2, <3>5 DEF ChargeOK
  <2> QED
    BY <2>3, <2>4
<1>9. ASSUME AtPar PROVE HeldAtPar' /\ Covered'
  <2>1. /\ \A u \in Tokens : b.balances[u].accumAmount > 0 => b.configs[u].price = WAD
        /\ sync(b.sum).accum >= SumFunctionOnSet(AmountsIn(b), Tokens) + SumFunctionOnSet(DuesIn(b), Sources)
    BY <1>9 DEF BatchOK
  <2>2. AmountOfToken' = AmountsIn(b) /\ SupplyOfSource' = DuesIn(b) /\ sync(totalBalance)' = sync(b.sum)
    BY <1>2 DEF AmountOfToken, AmountsIn, SupplyOfSource, Supply, expectedSupply, DuesIn, DueIn, sync
  <2> QED
    BY <2>1, <2>2 DEF HeldAtPar, Covered
<1> QED
  BY <1>4, <1>5, <1>6, <1>7, <1>8, <1>9 DEF FundInv, RatesInv, AtPar

\* swapAsset keeps the invariant: it is a batch of one.
LEMMA SwapAssetStep ==
    ASSUME FundInv, NEW i \in Instructions, SwapAsset(i)
    PROVE  FundInv'
<1>1. RatesInv /\ Clock
  BY FundTyping DEF FundInv
<1>2. PICK t \in Tokens : t = i.token
  BY DEF Instructions
<1>3. PICK b : b = batch
  OBVIOUS
<1>4. PICK e : e = frame(t, sync(totalBalance))
  OBVIOUS
<1>5. PICK f : f = swapped(autoReplenish(e, i), i)
  OBVIOUS
<1>6. PICK stored \in BOOLEAN : stored = (f.amount > 0 \/ needsReplenish(frame(t, totalBalance), i))
  OBVIOUS
<1>7. /\ ~f.reverted
      /\ balances' = IF f.amount > 0 THEN [balances EXCEPT ![t] = f.balance] ELSE balances
      /\ totalBalance' = IF stored THEN f.total ELSE totalBalance
      /\ sourceBalances' = f.sources
      /\ nextReplenish' = [nextReplenish EXCEPT ![t] = f.next]
      /\ configs' = [configs EXCEPT ![t].price = f.price]
      /\ held' = [held EXCEPT ![t] = f.held]
      /\ collectedFees' = [collectedFees EXCEPT ![t] = @ + IF f.amount > 0 THEN i.fee ELSE 0]
      /\ UNCHANGED <<memberVars, takenFees, now, allocated>>
  BY <1>2, <1>4, <1>5, <1>6 DEF SwapAsset
<1>8. PICK c : c = [balances |-> balances', sources |-> sourceBalances', next |-> nextReplenish', configs |-> configs',
                    held |-> held', fees |-> collectedFees', sum |-> totalBalance']
  OBVIOUS
<1>9. c.balances = balances' /\ c.sources = sourceBalances' /\ c.next = nextReplenish' /\ c.configs = configs'
      /\ c.held = held' /\ c.fees = collectedFees' /\ c.sum = totalBalance'
  BY <1>8
<1>10. b.balances = balances /\ b.sources = sourceBalances /\ b.next = nextReplenish /\ b.configs = configs
       /\ b.held = held /\ b.fees = collectedFees /\ b.sum = totalBalance
  BY <1>3 DEF batch
<1>11. sync(totalBalance) \in [accum : Nat, rate : Nat, updatedAt : 0..now] /\ sync(totalBalance).rate = totalBalance.rate
  BY <1>1, SyncedTotal
<1>12. /\ e \in Frames /\ Sound(e) /\ e.token = t /\ e.balance = balances[t] /\ e.total = sync(totalBalance)
       /\ e.sources = sourceBalances /\ e.price = configs[t].price /\ e.held = held[t] /\ e.next = nextReplenish[t]
  BY <1>1, <1>4, <1>11, FrameStart
<1>13. FrameOf(b, e, t)
  BY <1>10, <1>12 DEF FrameOf
<1>14. /\ Restocked(e, f, ActiveOf(t), Len(activeSources[t])) /\ f.amount \in Nat
       /\ f.amount = 0 => e.balance.accumAmount <= f.balance.accumAmount
  BY <1>2, <1>5, <1>7, <1>12, SwapEffect
<1>15. f \in Frames /\ f.total \in TotalRecords /\ f.total.rate = totalBalance.rate /\ f.total.accum >= 0
  BY <1>11, <1>12, <1>14 DEF Restocked, Frames, Sound
<1>16. totalBalance \in TotalRecords /\ totalBalance.accum >= 0
  BY <1>1, FundTyping DEF TotalRecords
<1>17. AddsUp(b, f, t, c)
  <2>1. c.sum \in TotalRecords /\ c.sum.rate = b.sum.rate
    BY <1>7, <1>9, <1>10, <1>15, <1>16
  <2>2. PICK fee \in Nat : fee = IF f.amount > 0 THEN i.fee ELSE 0
    BY FundAssumption DEF Instructions
  <2>3. c.fees = [b.fees EXCEPT ![t] = @ + fee]
    BY <1>7, <1>9, <1>10, <2>2
  <2> QED
    BY <1>7, <1>9, <1>10, <2>1, <2>3 DEF AddsUp
<1>18. TotalAddsUp(b, e, f, c)
  <2>1. CASE stored
    <3>1. sync(c.sum).accum >= f.total.accum
      BY <1>1, <1>7, <1>9, <1>15, <2>1, SyncedSum
    <3>2. sync(b.sum).accum = e.total.accum /\ e.total.accum \in Int /\ f.total.accum \in Int
      BY <1>10, <1>11, <1>12, <1>15 DEF TotalRecords
    <3>3. sync(c.sum).accum \in Int
      BY <1>1, <1>17, SyncedSum DEF AddsUp, TotalRecords
    <3> QED
      BY <3>1, <3>2, <3>3 DEF TotalAddsUp
  <2>2. CASE ~stored
    <3>1. f.amount = 0
      <4>1. ~(f.amount > 0) /\ f.amount \in Nat
        BY <1>6, <1>14, <2>2
      <4> QED
        BY <4>1
    <3>4. c.sum = b.sum
      BY <1>7, <1>9, <1>10, <2>2
    <3>2. sync(c.sum).accum \in Int
      BY <1>1, <1>17, SyncedSum DEF AddsUp, TotalRecords
    <3> QED
      BY <3>1, <3>2, <3>4 DEF TotalAddsUp
  <2> QED
    BY <2>1, <2>2
<1>19. BatchOK(c)
  BY <1>1, <1>3, <1>13, <1>14, <1>17, <1>18, BatchStart, BatchStep
<1>20. c.sum.accum >= 0
  BY <1>7, <1>9, <1>15, <1>16
<1> QED
  BY <1>7, <1>9, <1>19, <1>20, BatchSaved


IsBatch(b) ==
    b = [balances |-> b.balances, sources |-> b.sources, next |-> b.next, configs |-> b.configs, held |-> b.held,
         fees |-> b.fees, sum |-> b.sum, reverted |-> b.reverted]

\* The frame of a swap in a batch.
LEMMA BatchFrame ==
    ASSUME RatesInv, NEW t \in Tokens, NEW b, BatchTypeOK(b), NEW e, e = batchFrame(b, t)
    PROVE  FrameOf(b, e, t)
<1>1. Clock /\ sync(totalBalance) \in [accum : Nat, rate : Nat, updatedAt : 0..now]
      /\ sync(totalBalance).rate = totalBalance.rate
  BY FundTyping, SyncedTotal
<1>2. PICK d : d = frame(t, sync(totalBalance))
  OBVIOUS
<1>3. d \in Frames /\ d.token = t /\ d.total = sync(totalBalance) /\ Sound(d)
  BY <1>1, <1>2, FrameStart
<1>4. e = [d EXCEPT !.balance = b.balances[t], !.sources = b.sources, !.next = b.next[t],
                    !.price = b.configs[t].price, !.held = b.held[t]]
  BY <1>2 DEF batchFrame
<1>5. /\ b.balances[t] \in AssetRecords /\ b.sources \in [Sources -> SourceRecords]
      /\ b.next[t] \in Nat /\ b.configs[t].price \in Nat /\ b.held[t] \in Nat
      /\ \A r \in Sources : b.sources[r].lastPremium >= 0
  <2>1. t \in AllTokens
    BY DEF AllTokens
  <2>2. Cardinality(Sources) \in Nat
    BY FundAssumption, FS_CardinalityType
  <2>3. b.next[t] \in 0..Cardinality(Sources)
    BY DEF BatchTypeOK
  <2> QED
    BY <2>1, <2>2, <2>3 DEF BatchTypeOK, Configs
<1>6. /\ e.token = t /\ e.balance = b.balances[t] /\ e.total = sync(totalBalance)
      /\ e.sources = b.sources /\ e.next = b.next[t] /\ e.price = b.configs[t].price /\ e.held = b.held[t]
      /\ e.amount = d.amount /\ e.value = d.value /\ e.expected = d.expected /\ e.reverted = d.reverted
  BY <1>3, <1>4 DEF Frames
<1>7. e \in Frames
  <2>1. b.configs[t].price \in Int
    BY <1>5
  <2>2. e.token \in Tokens /\ e.balance \in AssetRecords /\ e.total \in TotalRecords
        /\ e.sources \in [Sources -> SourceRecords] /\ e.next \in Nat /\ e.price \in Int /\ e.held \in Nat
        /\ e.amount \in Nat /\ e.value \in Int /\ e.expected \in Nat /\ e.reverted \in BOOLEAN
    <3>1. d.total \in TotalRecords /\ d.amount \in Nat /\ d.value \in Int /\ d.expected \in Nat /\ d.reverted \in BOOLEAN
      BY <1>3 DEF Frames
    <3> QED
      BY <1>3, <1>5, <1>6, <2>1, <3>1
  <2>3. e = [token |-> e.token, balance |-> e.balance, total |-> e.total, sources |-> e.sources, next |-> e.next,
             price |-> e.price, held |-> e.held, amount |-> e.amount, value |-> e.value, expected |-> e.expected,
             reverted |-> e.reverted]
    <3>1. d = [token |-> d.token, balance |-> d.balance, total |-> d.total, sources |-> d.sources, next |-> d.next,
               price |-> d.price, held |-> d.held, amount |-> d.amount, value |-> d.value, expected |-> d.expected,
               reverted |-> d.reverted]
      BY <1>2 DEF frame
    <3> QED
      BY ONLY <1>4, <3>1
  <2> QED
    BY ONLY <2>2, <2>3 DEF Frames
<1>8. Sound(e)
  <2>1. e.total.accum >= 0 /\ e.price >= 0
    BY <1>3, <1>5, <1>6 DEF Sound
  <2> QED
    BY <1>5, <1>6, <2>1 DEF Sound
<1> QED
  BY <1>6, <1>7, <1>8 DEF FrameOf

\* _mergeTotals adds no less than the frame has added.
LEMMA MergedTotal ==
    ASSUME RatesInv, NEW sum \in TotalRecords, NEW total \in TotalRecords, total.rate = totalBalance.rate,
           NEW merged, merged = mergeTotals(sum, total)
    PROVE  /\ merged \in TotalRecords /\ merged.rate = sum.rate
           /\ sync(merged).accum >= sync(sum).accum + total.accum - sync(totalBalance).accum
<1>1. Clock /\ now \in Nat
  BY FundTyping
<1>2. PICK z : z = sync(sum)
  OBVIOUS
<1>3. z \in TotalRecords /\ z.rate = sum.rate /\ z.updatedAt = now
  BY <1>1, <1>2, SyncedSum
<1>4. merged = [z EXCEPT !.accum = @ + total.accum - totalBalance.accum, !.rate = @ + total.rate - totalBalance.rate]
  BY <1>2 DEF mergeTotals
<1>5. totalBalance \in TotalRecords
  BY FundTyping DEF TotalRecords
<1>6. /\ merged.accum = z.accum + total.accum - totalBalance.accum /\ merged.updatedAt = now
      /\ merged.rate = z.rate + total.rate - totalBalance.rate
  BY <1>3, <1>4 DEF TotalRecords
<1>7. /\ z.rate \in Nat /\ z.accum \in Int /\ totalBalance.rate \in Nat /\ total.accum \in Int /\ totalBalance.accum \in Int
  BY <1>3, <1>5 DEF TotalRecords
<1>8. merged.rate = sum.rate
  BY <1>3, <1>6, <1>7
<1>9. merged \in TotalRecords
  <2>1. z.accum + total.accum - totalBalance.accum \in Int /\ z.rate + total.rate - totalBalance.rate \in Nat
    BY <1>7
  <2> QED
    BY <1>3, <1>4, <2>1 DEF TotalRecords
<1>10. sync(merged).accum = merged.accum
  BY <1>1, <1>6, <1>9, SyncedSum
<1>11. sync(totalBalance).accum >= totalBalance.accum /\ sync(totalBalance).accum \in Int
  BY <1>1, <1>5, SyncedSum DEF TotalRecords
<1> QED
  BY <1>2, <1>6, <1>7, <1>8, <1>9, <1>10, <1>11

\* One swap of swapAssets.
LEMMA SwapInBatchStep ==
    ASSUME FundInv, NEW i \in Instructions, NEW b, IsBatch(b), BatchOK(b), NEW c, c = swapInBatch(b, i), ~c.reverted
    PROVE  IsBatch(c) /\ BatchOK(c) /\ ~b.reverted /\ (b.sum.accum >= 0 => c.sum.accum >= 0)
<1>1. RatesInv /\ Clock /\ BatchTypeOK(b)
  BY FundTyping DEF FundInv, BatchOK
<1>2. PICK t \in Tokens : t = i.token
  BY DEF Instructions
<1>3. PICK e : e = batchFrame(b, t)
  OBVIOUS
<1>4. PICK f : f = swapped(autoReplenish(e, i), i)
  OBVIOUS
<1>5. FrameOf(b, e, t)
  BY <1>1, <1>3, BatchFrame
<1>6. c = addUp(b, f, i)
  BY <1>2, <1>3, <1>4 DEF swapInBatch
<1>7. PICK fee \in Nat : fee = IF f.amount > 0 THEN i.fee ELSE 0
  BY FundAssumption DEF Instructions
<1>8. PICK sum : sum = IF f.amount > 0 THEN mergeTotals(b.sum, f.total) ELSE b.sum
  OBVIOUS
<1> DEFINE negative == f.amount > 0 /\ mergeTotals(b.sum, f.total).accum < 0
<1>9. /\ c.balances = [b.balances EXCEPT ![t] = IF f.amount > 0 THEN f.balance ELSE @]
      /\ c.sources = f.sources
      /\ c.next = [b.next EXCEPT ![t] = f.next]
      /\ c.configs = [b.configs EXCEPT ![t].price = f.price]
      /\ c.held = [b.held EXCEPT ![t] = f.held]
      /\ c.fees = [b.fees EXCEPT ![t] = @ + fee]
      /\ c.sum = sum
      /\ c.reverted = (b.reverted \/ f.reverted \/ negative)
      /\ IsBatch(c)
  <2>1. c = [b EXCEPT !.balances[t] = IF f.amount > 0 THEN f.balance ELSE @, !.sources = f.sources,
                      !.next[t] = f.next, !.configs[t].price = f.price, !.held[t] = f.held,
                      !.fees[t] = @ + fee, !.sum = sum,
                      !.reverted = @ \/ f.reverted \/ negative]
    BY <1>2, <1>6, <1>7, <1>8 DEF addUp
  <2>2. b = [balances |-> b.balances, sources |-> b.sources, next |-> b.next, configs |-> b.configs, held |-> b.held,
             fees |-> b.fees, sum |-> b.sum, reverted |-> b.reverted]
    BY DEF IsBatch
  <2> QED
    BY ONLY <2>1, <2>2 DEF IsBatch
<1>10. ~b.reverted /\ ~f.reverted /\ ~negative
  BY <1>9
<1>11. /\ Restocked(e, f, ActiveOf(t), Len(activeSources[t])) /\ f.amount \in Nat
       /\ f.amount = 0 => e.balance.accumAmount <= f.balance.accumAmount
  BY <1>2, <1>4, <1>5, <1>10, SwapEffect DEF FrameOf
<1>12. /\ f.total \in TotalRecords /\ f.total.rate = totalBalance.rate /\ e.total = sync(totalBalance)
       /\ b.sum \in TotalRecords
  <2>1. sync(totalBalance).rate = totalBalance.rate
    BY <1>1, SyncedTotal
  <2> QED
    BY <1>1, <1>5, <1>11, <2>1 DEF Restocked, Frames, FrameOf, BatchTypeOK
<1>13. /\ sum \in TotalRecords /\ sum.rate = b.sum.rate
       /\ f.amount > 0 => sync(sum).accum >= sync(b.sum).accum + f.total.accum - sync(totalBalance).accum
  BY <1>1, <1>8, <1>12, MergedTotal
<1>14. AddsUp(b, f, t, c)
  <2>1. c.balances = IF f.amount > 0 THEN [b.balances EXCEPT ![t] = f.balance] ELSE b.balances
    <3>1. CASE f.amount > 0
      BY <1>9, <3>1
    <3>2. CASE ~(f.amount > 0)
      <4>1. c.balances = [b.balances EXCEPT ![t] = b.balances[t]] /\ b.balances \in [Tokens -> AssetRecords]
        BY <1>1, <1>9, <3>2 DEF BatchTypeOK
      <4> QED
        BY <3>2, <4>1
    <3> QED
      BY <3>1, <3>2
  <2> QED
    BY <1>9, <1>13, <2>1 DEF AddsUp
<1>15. TotalAddsUp(b, e, f, c)
  <2>1. CASE f.amount > 0
    BY <1>9, <1>12, <1>13, <2>1 DEF TotalAddsUp
  <2>2. CASE f.amount = 0
    <3>1. c.sum = b.sum
      BY <1>8, <1>9, <2>2
    <3>2. sync(c.sum).accum \in Int
      BY <1>1, <1>9, <1>13, SyncedSum DEF TotalRecords
    <3> QED
      BY <2>2, <3>1, <3>2 DEF TotalAddsUp
  <2> QED
    BY <1>11, <2>1, <2>2
<1>16. BatchOK(c)
  BY <1>1, <1>5, <1>11, <1>14, <1>15, BatchStep
<1>17. b.sum.accum >= 0 => c.sum.accum >= 0
  BY <1>8, <1>9, <1>10, <1>13 DEF TotalRecords
<1> QED
  BY <1>9, <1>10, <1>16, <1>17

\* swapAssets keeps the invariant.
LEMMA SwapAssetsStep ==
    ASSUME FundInv, NEW i1 \in Instructions, NEW i2 \in Instructions, SwapAssets(i1, i2)
    PROVE  FundInv'
<1>1. PICK a : a = batch
  OBVIOUS
<1>2. PICK b : b = swapInBatch(a, i1)
  OBVIOUS
<1>3. PICK c : c = swapInBatch(b, i2)
  OBVIOUS
<1>4. /\ ~c.reverted
      /\ balances' = c.balances /\ totalBalance' = c.sum /\ sourceBalances' = c.sources /\ nextReplenish' = c.next
      /\ configs' = c.configs /\ held' = c.held /\ collectedFees' = c.fees
      /\ UNCHANGED <<memberVars, takenFees, now, allocated>>
  BY <1>1, <1>2, <1>3 DEF SwapAssets
<1>5. IsBatch(a) /\ BatchOK(a) /\ a.sum.accum >= 0
  <2>1. IsBatch(a)
    BY <1>1 DEF batch, IsBatch
  <2>2. a.sum.accum >= 0
    BY <1>1, FundTyping DEF batch, FundInv
  <2> QED
    BY <1>1, <2>1, <2>2, BatchStart
<1>6. b.reverted => c.reverted
  <2>1. PICK e : e = swapped(autoReplenish(batchFrame(b, i2.token), i2), i2)
    OBVIOUS
  <2>2. c = addUp(b, e, i2)
    BY <1>3, <2>1 DEF swapInBatch
  <2>3. PICK d : d = swapped(autoReplenish(batchFrame(a, i1.token), i1), i1)
    OBVIOUS
  <2>4. b = addUp(a, d, i1)
    BY <1>2, <2>3 DEF swapInBatch
  <2>5. DOMAIN a = {"balances", "sources", "next", "configs", "held", "fees", "sum", "reverted"}
    BY <1>1 DEF batch
  <2>6. DOMAIN b = DOMAIN a
    BY <2>4 DEF addUp
  <2>7. "reverted" \in DOMAIN b
    BY <2>5, <2>6
  <2> QED
    BY <2>2, <2>7 DEF addUp
<1>7. IsBatch(b) /\ BatchOK(b) /\ b.sum.accum >= 0
  BY <1>2, <1>4, <1>5, <1>6, SwapInBatchStep
<1>8. IsBatch(c) /\ BatchOK(c) /\ c.sum.accum >= 0
  BY <1>3, <1>4, <1>7, SwapInBatchStep
<1> QED
  BY <1>4, <1>8, BatchSaved


-----------------------------------------------------------------------------
(* Steps that leave the records of the premium alone.                      *)

\* A source that has not been registered before has been charged nothing.
LEMMA FirstCharge ==
    ASSUME RatesInv, NEW s \in Sources, ~isRegistered(s), s \notin formerSources, ChargeOK(s)
    PROVE  /\ sourceBalances[s].rate <= allocated[s].rate
           /\ sourceBalances[s].lastPremium + Supply(s) <= allocatedTotal(s, 0)
<1>1. sourceBalances[s] = NoSourceBalance /\ allocated[s] = NoSupply
  BY DEF ChargeOK
<1>2. now \in Nat
  BY FundTyping
<1>3. /\ sourceBalances[s].rate = 0 /\ sourceBalances[s].lastPremium = 0 /\ sourceBalances[s].updatedAt = 0
      /\ allocated[s].rate = 0 /\ allocated[s].accum = 0 /\ allocated[s].updatedAt = 0
  BY <1>1 DEF NoSourceBalance, NoSupply
<1>4. Supply(s) = 0
  BY <1>2, <1>3 DEF Supply, expectedSupply
<1>5. PICK zero \in Nat : zero = 0
  OBVIOUS
<1>6. allocatedTotal(s, zero) = allocated[s].accum + allocated[s].rate * (now - allocated[s].updatedAt)
  BY <1>5, AllocatedType
<1> QED
  BY <1>2, <1>3, <1>4, <1>5, <1>6

\* Nothing changes for the premium, but sources may be registered for the first time.
LEMMA PremiumKept ==
    ASSUME FundInv, now' = now, FundTypeOK', TokensReceived',
           UNCHANGED <<activeSources, allocated, formerSources, sourceBalances, totalBalance, balances>>,
           \A s \in Sources : isRegistered(s) => sourceToken'[s] = sourceToken[s],
           \A s \in Sources : ~isRegistered(s) /\ isRegistered(s)' => s \notin formerSources,
           \A t \in Tokens : configs'[t].price = configs[t].price
    PROVE  FundInv'
<1>1. RatesInv /\ Clock
  BY FundTyping DEF FundInv
<1>2. /\ \A u \in Tokens : ActiveOf(u)' = ActiveOf(u)
      /\ RateOfToken' = RateOfToken /\ RateOfSource' = RateOfSource /\ totalBalance' = totalBalance /\ balances' = balances
      /\ sourceBalances' = sourceBalances /\ activeSources' = activeSources /\ allocated' = allocated
      /\ formerSources' = formerSources
  BY DEF ActiveOf, RateOfToken, RateOfSource
<1>3. RatesAddUp' /\ TotalRateOK'
  <2>1. (totalBalance.rate = SumFunction(RateOfToken))' /\ TotalRateOK'
    BY <1>1, <1>2 DEF RatesInv, RatesAddUp, TotalRateOK
  <2>2. ASSUME NEW u \in Tokens PROVE (balances[u].rateValue = SumFunctionOnSet(RateOfSource, ActiveOf(u)))'
    <3>1. balances[u].rateValue = SumFunctionOnSet(RateOfSource, ActiveOf(u))
      BY <1>1 DEF RatesInv, RatesAddUp
    <3>2. balances'[u].rateValue = SumFunctionOnSet(RateOfSource', ActiveOf(u)')
      BY <1>2, <3>1
    <3> QED
      BY <3>2
  <2>3. ASSUME NEW s \in Sources
        PROVE  (sourceBalances[s].rate > 0 => isRegistered(s) /\ s \in ActiveOf(sourceToken[s]))'
    <3>1. sourceBalances[s].rate > 0 => isRegistered(s) /\ s \in ActiveOf(sourceToken[s])
      BY <1>1 DEF RatesInv, RatesAddUp
    <3> QED
      BY <1>2, <3>1 DEF isRegistered, ActiveOf
  <2> QED
    BY <2>1, <2>2, <2>3 DEF RatesAddUp
<1>4. AllocatedOK' /\ ActiveOK'
  <2>1. AllocatedOK'
    BY <1>1, <1>2 DEF RatesInv, AllocatedOK
  <2>2. ASSUME NEW u \in Tokens PROVE (Once(activeSources[u]) /\ \A s \in ActiveOf(u) : sourceToken[s] = u)'
    <3>1. Once(activeSources[u]) /\ (\A s \in ActiveOf(u) : sourceToken[s] = u) /\ ActiveOf(u) \in SUBSET Sources /\ u # NoToken
      BY <1>1, FundTyping, FundAssumption DEF RatesInv, ActiveOK
    <3> QED
      BY <1>2, <3>1 DEF isRegistered
  <2> QED
    BY <2>1, <2>2 DEF ActiveOK
<1>5. ChargesOK'
  <2> SUFFICES ASSUME NEW s \in Sources PROVE ChargeOK(s)'
    BY DEF ChargesOK
  <2>1. ChargeOK(s)
    BY DEF FundInv, ChargesOK
  <2>2. Supply(s)' = Supply(s) /\ allocatedTotal(s, 0)' = allocatedTotal(s, 0)
    BY <1>2 DEF Supply, expectedSupply, allocatedTotal, sync
  <2>3. CASE ~isRegistered(s) /\ isRegistered(s)'
    <3>1. /\ sourceBalances[s].rate <= allocated[s].rate
          /\ sourceBalances[s].lastPremium + Supply(s) <= allocatedTotal(s, 0)
      BY <1>1, <2>1, <2>3, FirstCharge
    <3> QED
      BY <1>2, <2>2, <2>3, <3>1 DEF ChargeOK
  <2>4. CASE ~isRegistered(s) /\ ~isRegistered(s)'
    BY <1>2, <2>1, <2>4 DEF ChargeOK
  <2>5. CASE isRegistered(s)
    <3>1. isRegistered(s)'
      BY <2>5 DEF isRegistered
    <3> QED
      BY <1>2, <2>1, <2>2, <2>5, <3>1 DEF ChargeOK
  <2> QED
    BY <2>3, <2>4, <2>5
<1>6. ASSUME AtPar PROVE HeldAtPar' /\ Covered'
  <2>1. HeldAtPar'
    BY <1>2, <1>6 DEF FundInv, HeldAtPar
  <2>2. AmountOfToken' = AmountOfToken /\ SupplyOfSource' = SupplyOfSource /\ sync(totalBalance)' = sync(totalBalance)
    BY <1>2 DEF AmountOfToken, SupplyOfSource, Supply, expectedSupply, sync
  <2> QED
    BY <1>6, <2>1, <2>2 DEF FundInv, Covered
<1> QED
  BY <1>3, <1>4, <1>5, <1>6 DEF FundInv, RatesInv, AtPar


\* What FundTypeOK says of the fund that is not about the premium.
MembersOK ==
    /\ state \in {"Unknown", "Inactive", "Active", "Paused"}
    /\ suspended \subseteq knownTokens /\ knownTokens \subseteq AllTokens /\ tokenActuaries \subseteq knownTokens
    /\ sourceToken \in [Sources -> Tokens \union {NoToken}]
    /\ configs \in [AllTokens -> Configs]
FeesOK == collectedFees \in [AllTokens -> Nat] /\ takenFees \in [AllTokens -> Nat] /\ held \in [AllTokens -> Nat]

\* The types, of a step that leaves the premium alone.
LEMMA TypeKept ==
    ASSUME RatesInv, now' = now, MembersOK', FeesOK',
           UNCHANGED <<activeSources, nextReplenish, sourceBalances, totalBalance, balances>>
    PROVE  FundTypeOK'
BY DEF RatesInv, FundTypeOK, MembersOK, FeesOK, Configs

\* The types, in two parts.
LEMMA MembersStart == ASSUME RatesInv PROVE MembersOK /\ FeesOK
BY DEF RatesInv, FundTypeOK, MembersOK, FeesOK, Configs

\* Registration, pauses and configurations.
LEMMA MembersStep ==
    ASSUME FundInv,
           \/ RegisterActuary \/ UnregisterActuary
           \/ \E paused \in BOOLEAN : PauseActuary(paused)
           \/ \E t \in AllTokens, paused \in BOOLEAN : PauseToken(t, paused) \/ PauseAsset(t, paused)
           \/ \E t \in Tokens, auto \in AutoReplenish : SetAssetConfig(t, auto)
    PROVE  FundInv'
<1>1. RatesInv /\ MembersOK /\ FeesOK /\ TokensReceived
  BY MembersStart DEF FundInv
<1>2. /\ now' = now /\ activeSources' = activeSources /\ nextReplenish' = nextReplenish
      /\ sourceBalances' = sourceBalances /\ totalBalance' = totalBalance /\ balances' = balances
      /\ sourceToken' = sourceToken /\ formerSources' = formerSources /\ allocated' = allocated
      /\ collectedFees' = collectedFees /\ takenFees' = takenFees /\ held' = held
  BY DEF RegisterActuary, UnregisterActuary, PauseActuary, PauseToken, PauseAsset, SetAssetConfig,
         memberVars, feeVars, balancerVars
<1>3. Collateral \in AllTokens /\ Collateral \notin Tokens /\ Tokens \subseteq AllTokens /\ WAD \in Nat
      /\ AutoReplenish \subseteq BOOLEAN
  BY FundAssumption DEF AllTokens
<1>4. MembersOK' /\ \A u \in Tokens : configs'[u].price = configs[u].price
  <2>1. CASE RegisterActuary
    <3>1. NoConfig \in Configs /\ [NoConfig EXCEPT !.price = WAD] \in Configs
      BY <1>3 DEF NoConfig, Configs
    <3>2. configs' = [configs EXCEPT ![Collateral] = [NoConfig EXCEPT !.price = WAD]]
      BY <2>1 DEF RegisterActuary
    <3>3. configs' \in [AllTokens -> Configs] /\ \A u \in Tokens : configs'[u] = configs[u]
      BY <1>1, <1>3, <3>1, <3>2 DEF MembersOK
    <3> QED
      BY <1>1, <1>2, <1>3, <2>1, <3>3 DEF MembersOK, RegisterActuary
  <2>2. CASE UnregisterActuary
    BY <1>1, <1>2, <2>2 DEF MembersOK, UnregisterActuary, balancerVars
  <2>3. ASSUME NEW paused \in BOOLEAN, PauseActuary(paused) PROVE MembersOK' /\ configs' = configs
    BY <1>1, <1>2, <2>3 DEF MembersOK, PauseActuary, balancerVars
  <2>4. ASSUME NEW t \in AllTokens, NEW paused \in BOOLEAN, PauseToken(t, paused) PROVE MembersOK' /\ configs' = configs
    BY <1>1, <1>2, <2>4 DEF MembersOK, PauseToken, balancerVars
  <2>5. ASSUME NEW t \in AllTokens, NEW paused \in BOOLEAN, PauseAsset(t, paused)
        PROVE  MembersOK' /\ \A u \in Tokens : configs'[u].price = configs[u].price
    <3>1. configs' = [configs EXCEPT ![t].suspended = paused]
      BY <2>5 DEF PauseAsset
    <3>2. configs' \in [AllTokens -> Configs] /\ \A u \in AllTokens : configs'[u].price = configs[u].price
      BY <1>1, <3>1 DEF MembersOK, Configs
    <3> QED
      BY <1>1, <1>2, <1>3, <2>5, <3>2 DEF MembersOK, PauseAsset, memberVars
  <2>6. ASSUME NEW t \in Tokens, NEW auto \in AutoReplenish, SetAssetConfig(t, auto)
        PROVE  MembersOK' /\ \A u \in Tokens : configs'[u].price = configs[u].price
    <3>1. PICK no \in BOOLEAN : no = FALSE
      OBVIOUS
    <3>2. configs' = [configs EXCEPT ![t].auto = auto, ![t].finished = no]
      BY <2>6, <3>1 DEF SetAssetConfig
    <3>3. t \in AllTokens /\ auto \in BOOLEAN
      BY <1>3
    <3>4. configs' \in [AllTokens -> Configs] /\ \A u \in AllTokens : configs'[u].price = configs[u].price
      BY <1>1, <3>2, <3>3 DEF MembersOK, Configs
    <3> QED
      BY <1>1, <1>2, <1>3, <2>6, <3>4 DEF MembersOK, SetAssetConfig, memberVars
  <2> QED
    BY <2>1, <2>2, <2>3, <2>4, <2>5, <2>6
<1>5. FundTypeOK'
  BY <1>1, <1>2, <1>4, TypeKept DEF FeesOK
<1>6. TokensReceived'
  BY <1>1, <1>2 DEF TokensReceived
<1> QED
  BY <1>2, <1>4, <1>5, <1>6, PremiumKept DEF isRegistered

\* Fees are collected and paid out.
LEMMA FeesStep ==
    ASSUME FundInv, (\E t \in AllTokens : CollectFees(t)) \/ (\E fee \in Fees : SwapCollateral(fee))
    PROVE  FundInv'
<1>1. RatesInv /\ MembersOK /\ FeesOK /\ TokensReceived
  BY MembersStart DEF FundInv
<1>2. /\ now' = now /\ activeSources' = activeSources /\ nextReplenish' = nextReplenish
      /\ sourceBalances' = sourceBalances /\ totalBalance' = totalBalance /\ balances' = balances /\ configs' = configs
      /\ sourceToken' = sourceToken /\ formerSources' = formerSources /\ allocated' = allocated
      /\ state' = state /\ suspended' = suspended /\ knownTokens' = knownTokens /\ tokenActuaries' = tokenActuaries
  BY DEF CollectFees, SwapCollateral, memberVars, balancerVars
<1>3. MembersOK'
  BY <1>1, <1>2 DEF MembersOK
<1>4. Collateral \in AllTokens /\ Collateral \notin Tokens /\ Tokens \subseteq AllTokens /\ Fees \subseteq Nat
  BY FundAssumption DEF AllTokens
<1>5. \A u \in Tokens : held[u] + takenFees[u] >= balances[u].accumAmount /\ balances[u].accumAmount \in Nat
  BY <1>1, FundTyping DEF TokensReceived, AssetRecords
<1>6. FeesOK' /\ TokensReceived'
  <2>1. ASSUME NEW t \in AllTokens, CollectFees(t) PROVE FeesOK' /\ TokensReceived'
    <3>1. PICK fees \in Nat : fees = collectedFees[t]
      BY <1>1 DEF FeesOK
    <3>2. PICK zero \in Nat : zero = 0
      OBVIOUS
    <3>3. /\ held[t] >= fees
          /\ collectedFees' = [collectedFees EXCEPT ![t] = zero]
          /\ takenFees' = [takenFees EXCEPT ![t] = @ + fees]
          /\ held' = [held EXCEPT ![t] = @ - fees]
      BY <2>1, <3>1, <3>2 DEF CollectFees
    <3>4. held[t] - fees \in Nat /\ takenFees[t] + fees \in Nat
      BY <1>1, <3>3 DEF FeesOK
    <3>5. FeesOK'
      BY <1>1, <3>3, <3>4 DEF FeesOK
    <3>6. ASSUME NEW u \in Tokens PROVE held'[u] + takenFees'[u] = held[u] + takenFees[u]
      <4>1. CASE u # t
        BY <1>1, <1>4, <3>3, <4>1 DEF FeesOK
      <4>2. CASE u = t
        <5>1. held'[u] = held[t] - fees /\ takenFees'[u] = takenFees[t] + fees
          BY <1>1, <3>3, <4>2 DEF FeesOK
        <5>2. held[t] \in Nat /\ takenFees[t] \in Nat
          BY <1>1 DEF FeesOK
        <5> QED
          BY <4>2, <5>1, <5>2
      <4> QED
        BY <4>1, <4>2
    <3>7. TokensReceived'
      BY <1>2, <1>5, <3>6 DEF TokensReceived
    <3> QED
      BY <3>5, <3>7
  <2>2. ASSUME NEW fee \in Fees, SwapCollateral(fee) PROVE FeesOK' /\ TokensReceived'
    <3>1. /\ collectedFees' = [collectedFees EXCEPT ![Collateral] = @ + fee]
          /\ held' = [held EXCEPT ![Collateral] = @ + fee]
          /\ takenFees' = takenFees
      BY <2>2 DEF SwapCollateral
    <3>2. collectedFees[Collateral] + fee \in Nat /\ held[Collateral] + fee \in Nat
      BY <1>1, <1>4 DEF FeesOK
    <3>3. FeesOK' /\ \A u \in Tokens : held'[u] = held[u] /\ takenFees'[u] = takenFees[u]
      BY <1>1, <1>4, <3>1, <3>2 DEF FeesOK
    <3> QED
      BY <1>2, <1>5, <3>3 DEF TokensReceived
  <2> QED
    BY <2>1, <2>2
<1>7. FundTypeOK'
  BY <1>1, <1>2, <1>3, <1>6, TypeKept
<1> QED
  BY <1>2, <1>6, <1>7, PremiumKept DEF isRegistered

\* registerPremiumSource(source, true) keeps the invariant.
LEMMA RegisterSourceStep ==
    ASSUME FundInv, NEW s \in Sources, NEW auto \in AutoReplenish, RegisterSource(s, auto)
    PROVE  FundInv'
<1>1. RatesInv /\ MembersOK /\ FeesOK /\ TokensReceived
  BY MembersStart DEF FundInv
<1>2. PICK t \in Tokens : t = premiumToken[s]
  BY FundAssumption
<1>3. /\ now' = now /\ activeSources' = activeSources /\ nextReplenish' = nextReplenish
      /\ sourceBalances' = sourceBalances /\ totalBalance' = totalBalance /\ balances' = balances
      /\ formerSources' = formerSources /\ allocated' = allocated
      /\ state' = state /\ suspended' = suspended
      /\ collectedFees' = collectedFees /\ takenFees' = takenFees /\ held' = held
      /\ ~isRegistered(s) /\ s \notin formerSources
      /\ sourceToken' = [sourceToken EXCEPT ![s] = t]
      /\ knownTokens' = knownTokens \union {t}
      /\ tokenActuaries' = tokenActuaries \union {t}
      /\ configs' = [configs EXCEPT ![t] = configForSource(t, auto)]
  BY <1>2 DEF RegisterSource, feeVars
<1>4. t \in AllTokens /\ t # NoToken /\ auto \in BOOLEAN /\ Tokens \subseteq AllTokens
  BY FundAssumption DEF AllTokens
<1>5. configForSource(t, auto) \in Configs /\ configForSource(t, auto).price = configs[t].price
  <2>1. PICK price \in Nat : price = configs[t].price
    BY <1>1, <1>4 DEF MembersOK, Configs
  <2>2. NoConfig \in Configs
    BY DEF NoConfig, Configs
  <2>3. PICK c \in Configs : c = NoConfig
    BY <2>2
  <2>4. configForSource(t, auto) = [c EXCEPT !.price = price, !.auto = auto]
    BY <2>1, <2>3 DEF configForSource
  <2> QED
    BY <1>4, <2>1, <2>4 DEF Configs
<1>6. configs' \in [AllTokens -> Configs] /\ \A u \in Tokens : configs'[u].price = configs[u].price
  BY <1>1, <1>3, <1>4, <1>5 DEF MembersOK
<1>7. sourceToken' \in [Sources -> Tokens \union {NoToken}] /\ \A r \in Sources \ {s} : sourceToken'[r] = sourceToken[r]
  BY <1>1, <1>3 DEF MembersOK
<1>8. MembersOK'
  BY <1>1, <1>3, <1>4, <1>6, <1>7 DEF MembersOK
<1>9. FundTypeOK' /\ TokensReceived'
  BY <1>1, <1>3, <1>8, TypeKept DEF FeesOK, TokensReceived
<1>10. \A r \in Sources : isRegistered(r) => sourceToken'[r] = sourceToken[r]
  BY <1>3, <1>7
<1>11. \A r \in Sources : ~isRegistered(r) /\ isRegistered(r)' => r \notin formerSources
  BY <1>3, <1>7 DEF isRegistered
<1> QED
  BY <1>3, <1>6, <1>9, <1>10, <1>11, PremiumKept


-----------------------------------------------------------------------------
(* Time.                                                                   *)

\* A rate for one more unit of time.
LEMMA OneMore == ASSUME NEW n \in Int, NEW m, m = n + 1, NEW u \in Int, NEW r \in Int
                 PROVE  (m - u) * r = (n - u) * r + r /\ r * (m - u) = r * (n - u) + r
<1>1. PICK a \in Int : a = n - u
  OBVIOUS
<1>2. m - u = a + 1
  BY <1>1
<1>3. (a + 1) * r = a * r + r /\ r * (a + 1) = r * a + r
  OBVIOUS
<1> QED
  BY <1>1, <1>2, <1>3

\* Time keeps the invariant: the total and the supply grow by one rate.
LEMMA TickStep == ASSUME FundInv, Tick PROVE FundInv'
<1>1. RatesInv /\ Clock /\ now \in Nat
  BY FundTyping DEF FundInv
<1>2. now' = now + 1 /\ now < LAST_TIME
  BY DEF Tick
<1>3. /\ state' = state /\ suspended' = suspended /\ knownTokens' = knownTokens /\ tokenActuaries' = tokenActuaries
      /\ sourceToken' = sourceToken /\ activeSources' = activeSources /\ formerSources' = formerSources
      /\ collectedFees' = collectedFees /\ takenFees' = takenFees /\ held' = held /\ allocated' = allocated
      /\ nextReplenish' = nextReplenish /\ sourceBalances' = sourceBalances /\ totalBalance' = totalBalance
      /\ balances' = balances /\ configs' = configs
  BY DEF Tick, memberVars, feeVars, balancerVars
<1>4. 0..now \subseteq 0..now'
  BY <1>1, <1>2
<1>5. FundTypeOK'
  <2>1. now' \in GENESIS..LAST_TIME
    BY <1>1, <1>2, FundAssumption DEF RatesInv, FundTypeOK
  <2>2. \A s \in Sources : sourceBalances[s] \in [lastPremium : Nat, rate : Rates \union {0}, updatedAt : 0..now']
    BY <1>1, <1>4, FundTyping
  <2>3. sourceBalances' \in [Sources -> [lastPremium : Nat, rate : Rates \union {0}, updatedAt : 0..now']]
    BY <1>1, <1>3, <2>2, FundTyping
  <2>4. totalBalance' \in [accum : Nat, rate : Nat, updatedAt : 0..now']
    BY <1>1, <1>3, <1>4, FundTyping
  <2>5. \A u \in Tokens : balances[u] \in [accumAmount : Nat, rateValue : Nat, applyFrom : 0..now']
    BY <1>1, <1>4, FundTyping DEF AssetRecords
  <2>6. balances' \in [Tokens -> [accumAmount : Nat, rateValue : Nat, applyFrom : 0..now']]
    BY <1>1, <1>3, <2>5, FundTyping
  <2> QED
    BY <1>1, <1>3, <2>1, <2>3, <2>4, <2>6 DEF RatesInv, FundTypeOK
<1>6. AllocatedOK'
  <2>1. \A s \in Sources : allocated[s] \in [accum : Nat, rate : Nat, updatedAt : 0..now']
    BY <1>1, <1>4 DEF RatesInv, AllocatedOK
  <2> QED
    BY <1>1, <1>3, <2>1 DEF RatesInv, AllocatedOK
<1>7. RatesAddUp' /\ TotalRateOK' /\ ActiveOK'
  <2>1. RatesAddUp' /\ TotalRateOK'
    BY <1>1, <1>3, RatesUnchanged
  <2> QED
    BY <1>1, <1>3, <2>1 DEF RatesInv, ActiveOK, ActiveOf
<1>8. TokensReceived'
  BY <1>3 DEF FundInv, TokensReceived
<1>9. ASSUME NEW s \in Sources
      PROVE  /\ sourceBalances[s].rate \in Nat /\ sourceBalances[s].lastPremium \in Nat
             /\ Supply(s) \in Nat /\ Supply(s)' = Supply(s) + sourceBalances[s].rate
  <2>1. sourceBalances[s].rate \in Nat /\ sourceBalances[s].lastPremium \in Nat /\ sourceBalances[s].updatedAt \in Nat
        /\ now - sourceBalances[s].updatedAt \in Nat
    BY <1>1, FundTyping, RatesAreNatural
  <2>2. Supply(s) = (now - sourceBalances[s].updatedAt) * sourceBalances[s].rate
        /\ Supply(s)' = (now' - sourceBalances[s].updatedAt) * sourceBalances[s].rate
    BY <1>3 DEF Supply, expectedSupply
  <2> QED
    BY <1>1, <1>2, <2>1, <2>2, OneMore
<1>10. ChargesOK'
  <2> SUFFICES ASSUME NEW s \in Sources PROVE ChargeOK(s)'
    BY DEF ChargesOK
  <2>1. ChargeOK(s)
    BY DEF FundInv, ChargesOK
  <2>2. CASE ~isRegistered(s)
    BY <1>3, <2>1, <2>2 DEF ChargeOK, isRegistered
  <2>3. CASE isRegistered(s)
    <3>1. sourceBalances[s].rate <= allocated[s].rate /\ sourceBalances[s].lastPremium + Supply(s) <= allocatedTotal(s, 0)
      BY <2>1, <2>3 DEF ChargeOK
    <3>2. allocated[s].rate \in Nat /\ allocated[s].accum \in Nat /\ allocated[s].updatedAt \in Nat
          /\ allocated[s] \in [accum : Nat, rate : Nat, updatedAt : 0..now]
      BY <1>1 DEF RatesInv, AllocatedOK
    <3>3. PICK zero \in Nat : zero = 0
      OBVIOUS
    <3>4. allocatedTotal(s, zero) \in Nat
      BY <1>1, <3>3, AllocatedType
    <3>5. allocatedTotal(s, zero) = allocated[s].accum + allocated[s].rate * (now - allocated[s].updatedAt) + zero
      BY <3>2 DEF allocatedTotal, sync
    <3>6. allocatedTotal(s, zero)' = allocated[s].accum + allocated[s].rate * (now' - allocated[s].updatedAt) + zero
      BY <1>3, <3>2 DEF allocatedTotal, sync
    <3>7. allocatedTotal(s, zero)' = allocatedTotal(s, zero) + allocated[s].rate
      <4>1. allocated[s].rate * (now - allocated[s].updatedAt) \in Int
        BY <1>1, <3>2
      <4>2. allocated[s].rate * (now' - allocated[s].updatedAt)
            = allocated[s].rate * (now - allocated[s].updatedAt) + allocated[s].rate
        BY <1>1, <1>2, <3>2, OneMore
      <4> QED
        BY <3>2, <3>5, <3>6, <4>1, <4>2
    <3>8. sourceBalances[s].lastPremium + Supply(s)' <= allocatedTotal(s, zero)'
      BY <1>9, <3>1, <3>2, <3>3, <3>4, <3>7
    <3> QED
      BY <1>3, <2>3, <3>1, <3>3, <3>8 DEF ChargeOK, isRegistered
  <2> QED
    BY <2>2, <2>3
<1>11. ASSUME AtPar PROVE HeldAtPar' /\ Covered'
  <2>1. HeldAtPar'
    BY <1>3, <1>11 DEF FundInv, HeldAtPar
  <2>2. PICK P : P = SupplyOfSource
    OBVIOUS
  <2>3. PICK Q : Q = RateOfSource
    OBVIOUS
  <2>4. PICK R : R = SupplyOfSource'
    OBVIOUS
  <2>5. Summable(P, Sources) /\ Summable(Q, Sources) /\ \A s \in Sources : R[s] = P[s] + Q[s]
    <3>1. IsFiniteSet(Sources)
      BY FundAssumption
    <3>2. ASSUME NEW s \in Sources PROVE P[s] \in Int /\ Q[s] \in Int /\ R[s] = P[s] + Q[s]
      <4>1. P[s] = Supply(s) /\ Q[s] = sourceBalances[s].rate
        BY <2>2, <2>3 DEF SupplyOfSource, RateOfSource
      <4>2. R[s] = Supply(s)'
        BY <2>4 DEF SupplyOfSource
      <4> QED
        BY <1>9, <4>1, <4>2
    <3> QED
      BY <3>1, <3>2 DEF Summable
  <2>6. SumFunctionOnSet(R, Sources) = SumFunctionOnSet(P, Sources) + SumFunctionOnSet(Q, Sources)
    <3>1. Summable(P, Sources)
      BY <2>5
    <3>2. Summable(Q, Sources)
      BY <2>5
    <3>3. \A s \in Sources : R[s] = P[s] + Q[s]
      BY <2>5
    <3> QED
      BY ONLY <3>1, <3>2, <3>3, SumPlus
  <2>7. SumFunctionOnSet(Q, Sources) = totalBalance.rate
    BY <1>1, <2>3 DEF RatesInv, TotalRateOK
  <2>8. totalBalance.rate \in Nat /\ totalBalance.accum \in Nat /\ totalBalance.updatedAt \in Nat
        /\ totalBalance \in [accum : Nat, rate : Nat, updatedAt : 0..now]
    BY <1>1, FundTyping
  <2>9. sync(totalBalance).accum = totalBalance.accum + totalBalance.rate * (now - totalBalance.updatedAt)
        /\ sync(totalBalance)'.accum = totalBalance.accum + totalBalance.rate * (now' - totalBalance.updatedAt)
    BY <1>3, <2>8 DEF sync
  <2>10. sync(totalBalance)'.accum = sync(totalBalance).accum + totalBalance.rate /\ sync(totalBalance).accum \in Int
    <3>1. totalBalance.rate * (now - totalBalance.updatedAt) \in Int
      BY <1>1, <2>8
    <3>2. totalBalance.rate * (now' - totalBalance.updatedAt)
          = totalBalance.rate * (now - totalBalance.updatedAt) + totalBalance.rate
      BY <1>1, <1>2, <2>8, OneMore
    <3> QED
      BY <2>8, <2>9, <3>1, <3>2
  <2>11. AmountOfToken' = AmountOfToken
    BY <1>3 DEF AmountOfToken
  <2>12. PICK amounts : amounts = SumFunctionOnSet(AmountOfToken, Tokens)
    OBVIOUS
  <2>13. amounts \in Int /\ SumFunctionOnSet(P, Sources) \in Int
    <3>1. Summable(AmountOfToken, Tokens)
      BY <1>1, FundTyping, FundAssumption DEF AmountOfToken, AssetRecords, Summable
    <3> QED
      BY <2>5, <2>12, <3>1, SumInt
  <2>14. sync(totalBalance).accum >= amounts + SumFunctionOnSet(P, Sources)
    BY <1>11, <2>2, <2>12 DEF FundInv, Covered
  <2>15. sync(totalBalance)'.accum >= amounts + SumFunctionOnSet(R, Sources)
    BY <2>6, <2>7, <2>8, <2>10, <2>13, <2>14
  <2> QED
    BY <2>1, <2>4, <2>11, <2>12, <2>15 DEF Covered
<1> QED
  BY <1>5, <1>6, <1>7, <1>8, <1>10, <1>11 DEF FundInv, RatesInv, AtPar


-----------------------------------------------------------------------------
(* The theorems.                                                           *)

\* The invariant holds at the start.
LEMMA InitFund == Init => FundInv
<1> SUFFICES ASSUME Init PROVE FundInv
  OBVIOUS
<1>1. /\ now = GENESIS /\ state = "Unknown"
      /\ suspended = {} /\ knownTokens = {} /\ tokenActuaries = {} /\ formerSources = {}
      /\ collectedFees = [t \in AllTokens |-> 0] /\ takenFees = [t \in AllTokens |-> 0] /\ held = [t \in AllTokens |-> 0]
      /\ sourceToken = [s \in Sources |-> NoToken]
      /\ activeSources = [t \in Tokens |-> <<>>] /\ nextReplenish = [t \in Tokens |-> 0]
      /\ sourceBalances = [s \in Sources |-> NoSourceBalance] /\ totalBalance = NoSupply
      /\ balances = [t \in Tokens |-> NoAssetBalance] /\ configs = [t \in AllTokens |-> NoConfig]
      /\ allocated = [s \in Sources |-> NoSupply]
  BY DEF Init
<1>2. /\ now \in Nat /\ IsFiniteSet(Sources) /\ IsFiniteSet(Tokens) /\ Tokens \subseteq AllTokens
      /\ now \in GENESIS..LAST_TIME /\ Cardinality(Sources) \in Nat /\ 0 \in 0..now
  BY <1>1, FundAssumption, FS_CardinalityType DEF AllTokens
<1>3. \A t \in Tokens : activeSources[t] = <<>> /\ ActiveOf(t) = {}
  BY <1>1 DEF ActiveOf
<1>4. \A s \in Sources : sourceBalances[s].rate = 0 /\ sourceBalances[s].updatedAt = 0 /\ sourceBalances[s].lastPremium = 0
  BY <1>1 DEF NoSourceBalance
<1>5. \A t \in Tokens : balances[t].accumAmount = 0 /\ balances[t].rateValue = 0
  BY <1>1 DEF NoAssetBalance
<1>6. totalBalance.accum = 0 /\ totalBalance.rate = 0 /\ totalBalance.updatedAt = 0
  BY <1>1 DEF NoSupply
<1>7. FundTypeOK
  <2>1. collectedFees \in [AllTokens -> Nat] /\ takenFees \in [AllTokens -> Nat] /\ held \in [AllTokens -> Nat]
    BY <1>1
  <2>2. activeSources \in [Tokens -> Seq(Sources)]
    BY <1>1
  <2>3. nextReplenish \in [Tokens -> 0..Cardinality(Sources)]
    BY <1>1, <1>2
  <2>4. sourceBalances \in [Sources -> [lastPremium : Nat, rate : Rates \union {0}, updatedAt : 0..now]]
    BY <1>1, <1>2 DEF NoSourceBalance
  <2>5. totalBalance \in [accum : Nat, rate : Nat, updatedAt : 0..now]
    BY <1>1, <1>2 DEF NoSupply
  <2>6. balances \in [Tokens -> [accumAmount : Nat, rateValue : Nat, applyFrom : 0..now]]
    BY <1>1, <1>2 DEF NoAssetBalance
  <2>7. configs \in [AllTokens -> [price : Nat, suspended : BOOLEAN, finished : BOOLEAN, auto : BOOLEAN]]
    BY <1>1 DEF NoConfig
  <2>8. sourceToken \in [Sources -> Tokens \union {NoToken}]
    BY <1>1
  <2>9. state \in {"Unknown", "Inactive", "Active", "Paused"}
        /\ suspended \subseteq knownTokens /\ knownTokens \subseteq AllTokens /\ tokenActuaries \subseteq knownTokens
    BY <1>1
  <2> QED
    BY <1>2, <2>1, <2>2, <2>3, <2>4, <2>5, <2>6, <2>7, <2>8, <2>9 DEF FundTypeOK
<1>8. AllocatedOK /\ ActiveOK
  <2>1. AllocatedOK
    BY <1>1, <1>2 DEF AllocatedOK, NoSupply
  <2>2. ActiveOK
    BY <1>3 DEF ActiveOK, Once
  <2> QED
    BY <2>1, <2>2
<1>9. RatesAddUp /\ TotalRateOK
  <2>1. SumFunctionOnSet(RateOfToken, Tokens) = 0
    BY <1>2, <1>5, SumOfZeros DEF RateOfToken
  <2>2. SumFunctionOnSet(RateOfSource, Sources) = 0
    BY <1>2, <1>4, SumOfZeros DEF RateOfSource
  <2>3. totalBalance.rate = SumFunction(RateOfToken)
    BY <1>6, <2>1 DEF SumFunction, RateOfToken
  <2>4. \A t \in Tokens : balances[t].rateValue = SumFunctionOnSet(RateOfSource, ActiveOf(t))
    BY <1>3, <1>5, SumEmpty
  <2> QED
    BY <1>4, <1>6, <2>2, <2>3, <2>4 DEF RatesAddUp, TotalRateOK
<1>10. TokensReceived
  BY <1>1, <1>2, <1>5 DEF TokensReceived
<1>11. ChargesOK
  BY <1>1 DEF ChargesOK, ChargeOK, isRegistered
<1>12. HeldAtPar /\ Covered
  <2>1. SumFunctionOnSet(AmountOfToken, Tokens) = 0
    BY <1>2, <1>5, SumOfZeros DEF AmountOfToken
  <2>2. \A s \in Sources : SupplyOfSource[s] = 0
    <3> TAKE s \in Sources
    <3>1. SupplyOfSource[s] = (now - 0) * 0
      BY <1>4 DEF SupplyOfSource, Supply, expectedSupply
    <3> QED
      BY <1>2, <3>1
  <2>3. SumFunctionOnSet(SupplyOfSource, Sources) = 0
    BY <1>2, <2>2, SumOfZeros
  <2>4. sync(totalBalance).accum = 0
    <3>1. sync(totalBalance).accum = 0 + 0 * (now - 0)
      BY <1>1 DEF sync, NoSupply
    <3> QED
      BY <1>2, <3>1
  <2> QED
    BY <1>5, <2>1, <2>3, <2>4 DEF HeldAtPar, Covered
<1> QED
  BY <1>7, <1>8, <1>9, <1>10, <1>11, <1>12 DEF FundInv, RatesInv

\* The invariant holds when nothing changes.
LEMMA StutterStep == ASSUME FundInv, UNCHANGED vars PROVE FundInv'
<1>1. RatesInv /\ MembersOK /\ FeesOK /\ TokensReceived
  BY MembersStart DEF FundInv
<1>2. /\ state' = state /\ suspended' = suspended /\ knownTokens' = knownTokens /\ tokenActuaries' = tokenActuaries
      /\ sourceToken' = sourceToken /\ activeSources' = activeSources /\ formerSources' = formerSources
      /\ collectedFees' = collectedFees /\ takenFees' = takenFees /\ held' = held /\ allocated' = allocated
      /\ nextReplenish' = nextReplenish /\ sourceBalances' = sourceBalances /\ totalBalance' = totalBalance
      /\ balances' = balances /\ configs' = configs /\ now' = now
  BY DEF vars, memberVars, feeVars, balancerVars
<1>3. MembersOK' /\ FeesOK' /\ TokensReceived'
  BY <1>1, <1>2 DEF MembersOK, FeesOK, TokensReceived
<1>4. FundTypeOK'
  BY <1>1, <1>2, <1>3, TypeKept
<1> QED
  BY <1>2, <1>3, <1>4, PremiumKept DEF isRegistered

\* Every step keeps the invariant.
LEMMA FundStep == FundInv /\ [Next]_vars => FundInv'
<1> SUFFICES ASSUME FundInv, [Next]_vars PROVE FundInv'
  OBVIOUS
<1>1. CASE Tick
  BY <1>1, TickStep
<1>2. CASE Administer
  <2>1. CASE \E t \in AllTokens : CollectFees(t)
    BY <2>1, FeesStep
  <2>2. CASE ~(\E t \in AllTokens : CollectFees(t))
    BY <1>2, <2>2, MembersStep DEF Administer
  <2> QED
    BY <2>1, <2>2
<1>3. CASE Reports
  <2>1. ASSUME NEW s \in Sources, NEW auto \in AutoReplenish, RegisterSource(s, auto) PROVE FundInv'
    BY <2>1, RegisterSourceStep
  <2>2. ASSUME NEW s \in Sources, UnregisterSource(s) PROVE FundInv'
    BY <2>2, UnregisterSourceStep
  <2>3. ASSUME NEW s \in Sources, NEW late \in LatePremium, NEW pay \in Pays, NEW rate \in Rates,
               UpdateAllocation(s, late, rate, pay)
        PROVE  FundInv'
    BY <2>3, UpdateAllocationStep
  <2>4. ASSUME NEW s \in Sources, NEW late \in LatePremium, NEW pay \in Pays, FinishAllocation(s, late, pay)
        PROVE  FundInv'
    BY <2>4, FinishAllocationStep
  <2> QED
    BY <1>3, <2>1, <2>2, <2>3, <2>4 DEF Reports
<1>4. CASE Pulls
  BY <1>4, SyncAssetStep DEF Pulls
<1>5. CASE Swaps
  <2>1. ASSUME NEW i \in Instructions, SwapAsset(i) PROVE FundInv'
    BY <2>1, SwapAssetStep
  <2>2. ASSUME NEW i1 \in Instructions, NEW i2 \in Instructions, SwapAssets(i1, i2) PROVE FundInv'
    BY <2>2, SwapAssetsStep
  <2>3. ASSUME NEW fee \in Fees, SwapCollateral(fee) PROVE FundInv'
    BY <2>3, FeesStep
  <2> QED
    BY <1>5, <2>1, <2>2, <2>3 DEF Swaps
<1>6. CASE UNCHANGED vars
  BY <1>6, StutterStep
<1> QED
  BY <1>1, <1>2, <1>3, <1>4, <1>5, <1>6 DEF Next

\* FundInv is an invariant: what is said of it below is said of every reachable state.
THEOREM FundInvariant == Spec => []FundInv
BY InitFund, FundStep, PTL DEF Spec

\* The storage of the fund and of the balancer keeps its types: in particular no amount, total
\* or rate falls below zero, and a date is never in the future.
THEOREM FundTyped == Spec => []FundTypeOK
<1>1. FundInv => FundTypeOK
  BY DEF FundInv, RatesInv
<1> QED
  BY <1>1, FundInvariant, PTL

\* The total rate is the sum of the rates of the assets, and the rate of an asset the sum of the
\* rates of its active sources, whatever the prices are, whoever pays and whoever is removed.
THEOREM RatesAlwaysAddUp == Spec => []RatesAddUp
<1>1. FundInv => RatesAddUp
  BY DEF FundInv, RatesInv
<1> QED
  BY <1>1, FundInvariant, PTL

\* Tokens that an asset is said to have were received from the sources.
THEOREM TokensWereReceived == Spec => []TokensReceived
<1>1. FundInv => TokensReceived
  BY DEF FundInv
<1> QED
  BY <1>1, FundInvariant, PTL

\* No source is charged for more premium than its insurer has allocated to it.
THEOREM NeverOvercharged == Spec => []NotOvercharged
<1>1. FundInv => NotOvercharged
  BY DEF FundInv, ChargesOK, ChargeOK, NotOvercharged
<1> QED
  BY <1>1, FundInvariant, PTL

\* At par an asset with tokens has a price.
THEOREM AlwaysPricedAtPar == AtPar => (Spec => []PricedWhenHeld)
<1> SUFFICES ASSUME AtPar PROVE Spec => []PricedWhenHeld
  OBVIOUS
<1>1. FundInv => PricedWhenHeld
  <2>1. WAD \in Nat \ {0}
    BY FundAssumption
  <2> QED
    BY <2>1 DEF FundInv, HeldAtPar, PricedWhenHeld
<1> QED
  BY <1>1, FundInvariant, PTL

\* At par the total of the balancer covers the value of the tokens and the supply that is due.
THEOREM TotalCoversAtPar == AtPar => (Spec => []TotalCoversSupply)
<1> SUFFICES ASSUME AtPar PROVE Spec => []TotalCoversSupply
  OBVIOUS
<1>1. ASSUME FundInv PROVE TotalCoversSupply
  <2>1. RatesInv /\ HeldAtPar /\ Covered
    BY <1>1 DEF FundInv
  <2>2. ASSUME NEW t \in Tokens PROVE wadMul(balances[t].accumAmount, configs[t].price) = balances[t].accumAmount
    <3>1. balances[t].accumAmount \in Nat
      BY <2>1, FundTyping DEF AssetRecords
    <3>2. CASE balances[t].accumAmount > 0
      BY <2>1, <3>1, <3>2, ParMul DEF HeldAtPar
    <3>3. CASE balances[t].accumAmount = 0
      <4>1. configs[t].price \in Int
        BY <2>1, FundTyping DEF AllTokens
      <4> QED
        BY <3>3, <4>1, NothingIsNoValue
    <3> QED
      BY <3>1, <3>2, <3>3
  <2>3. ValueOfToken = AmountOfToken
    BY <2>2 DEF ValueOfToken, AmountOfToken
  <2> QED
    BY <2>1, <2>3 DEF RatesInv, Covered, TotalCoversSupply, SumFunction, AmountOfToken, SupplyOfSource
<1> QED
  BY <1>1, FundInvariant, PTL
=============================================================================
