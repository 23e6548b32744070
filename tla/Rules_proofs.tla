------------------------------ MODULE Rules_proofs ------------------------------
(***************************************************************************)
(* What holds of the parts that no other step comes between: the five pure *)
(* rules of any input, and a calibration's searches for any expiries and   *)
(* any bounds.                                                             *)
(***************************************************************************)
EXTENDS Rules, Fitting, FiniteSetTheorems, NaturalsInduction, WellFoundedInduction,
        SequenceTheorems, TLAPS

\* What holds of every input holds in every state.
LEMMA DrawnOnce == RulesSpec => [](input \in Inputs)
<1>1. RulesInit => input \in Inputs
  BY DEF RulesInit
<1>2. input \in Inputs /\ [RulesNext]_input => (input \in Inputs)'
  BY DEF RulesNext
<1> QED BY <1>1, <1>2, PTL DEF RulesSpec

--------------------------------------------------------------------------------
(* What a snapshot says of one expiry, whatever the books.                 *)

\* One quote per contract, and ratios with a positive denominator.
Sound(slice, vega) ==
  /\ \A q \in slice.quotes :
       /\ q.strike \in Positive /\ q.kind \in {"CALL", "PUT"}
       /\ q.spread[1] \in Nat /\ q.spread[2] \in Positive
       /\ vega[q.strike] \in Nat
  /\ \A q, r \in slice.quotes : q.strike = r.strike /\ q.kind = r.kind => q = r

\* What has a mid has both sides, and a relative spread over it.
LEMMA MidFacts ==
  ASSUME NEW book \in [bid : Side, ask : Side, age : Int, size : Nat],
         TwiceMid(book) > 0
  PROVE  /\ book.bid \in Nat /\ book.ask \in Nat
         /\ SpreadRel(book) = <<2 * (book.ask - book.bid), TwiceMid(book)>>
         /\ TwiceMid(book) \in Positive
<1>1. book.bid # NoPrice /\ book.ask # NoPrice
  BY DEF TwiceMid, NoPrice
<1>2. book.bid \in Nat /\ book.ask \in Nat
  BY <1>1 DEF Side
<1>3. TwiceMid(book) = book.bid + book.ask
  BY <1>1 DEF TwiceMid
<1>4. ~(TwiceMid(book) <= 0)
  BY <1>2, <1>3
<1> QED
  BY <1>2, <1>3, <1>4 DEF SpreadRel, Positive

\* Each quote of a snapshot is that of one of the venue's books.
LEMMA QuotesAreSound ==
  ASSUME NEW books, IsChain(books), NEW limits, NEW q \in QuotesFor(books, limits)
  PROVE  \E c \in DOMAIN books :
           /\ c \in [strike : Positive, kind : {"CALL", "PUT"}]
           /\ q = [strike |-> c.strike, kind |-> c.kind, twice |-> TwiceMid(books[c]),
                   spread |-> SpreadRel(books[c]), flags |-> FlagQuote(books[c], c.strike, limits)]
           /\ q.spread[1] \in Int /\ q.spread[2] \in Positive /\ q.spread = <<q.spread[1], q.spread[2]>>
<1>1. PICK c \in DOMAIN books :
        /\ TwiceMid(books[c]) > 0
        /\ q = [strike |-> c.strike, kind |-> c.kind, twice |-> TwiceMid(books[c]),
                spread |-> SpreadRel(books[c]), flags |-> FlagQuote(books[c], c.strike, limits)]
  BY DEF QuotesFor
<1>2. /\ c \in [strike : Positive, kind : {"CALL", "PUT"}]
      /\ books[c] \in [bid : Side, ask : Side, age : Int, size : Nat]
  BY DEF IsChain
<1> DEFINE b == books[c]
<1>3. /\ b.bid \in Nat /\ b.ask \in Nat /\ TwiceMid(b) \in Positive
      /\ SpreadRel(b) = <<2 * (b.ask - b.bid), TwiceMid(b)>>
  BY <1>1, <1>2, MidFacts
<1>4. q.spread = <<2 * (b.ask - b.bid), TwiceMid(b)>> /\ 2 * (b.ask - b.bid) \in Int
  BY <1>1, <1>3
<1>5. q.spread[1] \in Int /\ q.spread[2] \in Positive /\ q.spread = <<q.spread[1], q.spread[2]>>
  BY <1>3, <1>4
<1> QED
  BY <1>1, <1>2, <1>5

\* ToSliceData only touches a spread.
Clean(q) == [q EXCEPT !.spread = IF @[1] < 0 THEN <<0, 1>> ELSE @]

\* Cleaning a quote for a slice leaves its contract and its ratio alone, and no two are of one
\* contract.
LEMMA CleanFacts ==
  ASSUME NEW books, IsChain(books), NEW limits, NEW q \in QuotesFor(books, limits)
  PROVE  /\ Clean(q).strike = q.strike /\ Clean(q).kind = q.kind
         /\ q.strike \in Positive /\ q.kind \in {"CALL", "PUT"}
         /\ Clean(q).spread[1] \in Nat /\ Clean(q).spread[2] \in Positive
         /\ \E c \in DOMAIN books : c.strike = q.strike
         /\ \A r \in QuotesFor(books, limits) : r.strike = q.strike /\ r.kind = q.kind => r = q
<1>1. PICK c \in DOMAIN books :
           /\ c \in [strike : Positive, kind : {"CALL", "PUT"}]
           /\ q = [strike |-> c.strike, kind |-> c.kind, twice |-> TwiceMid(books[c]),
                   spread |-> SpreadRel(books[c]), flags |-> FlagQuote(books[c], c.strike, limits)]
           /\ q.spread[1] \in Int /\ q.spread[2] \in Positive
  BY QuotesAreSound
<1>2. Clean(q) = [strike |-> c.strike, kind |-> c.kind, twice |-> TwiceMid(books[c]),
                  spread |-> IF q.spread[1] < 0 THEN <<0, 1>> ELSE q.spread,
                  flags |-> FlagQuote(books[c], c.strike, limits)]
  BY <1>1 DEF Clean
<1>3. Clean(q).spread[1] \in Nat /\ Clean(q).spread[2] \in Positive
  <2>1. CASE q.spread[1] < 0
    <3>1. Clean(q).spread = <<0, 1>>
      BY <1>2, <2>1
    <3> QED BY <3>1 DEF Positive
  <2>2. CASE ~(q.spread[1] < 0)
    <3>1. Clean(q).spread = q.spread
      BY <1>2, <2>2
    <3>2. q.spread[1] \in Nat
      BY <1>1, <2>2
    <3> QED BY <1>1, <3>1, <3>2
  <2> QED BY <2>1, <2>2
<1>4. ASSUME NEW r \in QuotesFor(books, limits), r.strike = q.strike, r.kind = q.kind PROVE r = q
  <2>1. PICK d \in DOMAIN books :
           /\ d \in [strike : Positive, kind : {"CALL", "PUT"}]
           /\ r = [strike |-> d.strike, kind |-> d.kind, twice |-> TwiceMid(books[d]),
                   spread |-> SpreadRel(books[d]), flags |-> FlagQuote(books[d], d.strike, limits)]
    BY QuotesAreSound
  <2>2. d.strike = c.strike /\ d.kind = c.kind
    BY <1>1, <1>4, <2>1
  <2>3. d = c
    BY <1>1, <2>1, <2>2
  <2> QED BY <1>1, <2>1, <2>3
<1> QED
  BY <1>1, <1>2, <1>3, <1>4

\* Whatever the books, the expiries of a snapshot are such slices (SliceOf, ToSliceData).
LEMMA SnapshotIsSound ==
  ASSUME NEW i, IsFit(i), NEW e \in DOMAIN i.books
  PROVE  Snapshot(i)[e].forward = i.forward /\ Sound(Snapshot(i)[e], i.vega)
<1> DEFINE books == i.books[e]
           raw == QuotesFor(books, i.limits)
           slice == Snapshot(i)[e]
<1>1. IsChain(books) /\ \A c \in DOMAIN books : i.vega[c.strike] \in Nat
  BY DEF IsFit
<1>2. slice = ToSliceData(SliceOf(i.forward, books, i.limits))
  BY DEF Snapshot
<1>3. slice.forward = i.forward /\ slice.quotes = {Clean(q) : q \in raw}
  BY <1>2 DEF ToSliceData, SliceOf, Clean
<1> HIDE DEF books, raw, slice
<1>4. \A q \in raw :
         /\ Clean(q).strike = q.strike /\ Clean(q).kind = q.kind
         /\ q.strike \in Positive /\ q.kind \in {"CALL", "PUT"}
         /\ Clean(q).spread[1] \in Nat /\ Clean(q).spread[2] \in Positive
         /\ \E c \in DOMAIN books : c.strike = q.strike
         /\ \A r \in raw : r.strike = q.strike /\ r.kind = q.kind => r = q
  BY <1>1, CleanFacts DEF raw
<1>5. \A q \in raw : i.vega[q.strike] \in Nat
  BY <1>1, <1>4
<1>6. Sound(slice, i.vega)
  <2>1. ASSUME NEW s \in slice.quotes
        PROVE  /\ s.strike \in Positive /\ s.kind \in {"CALL", "PUT"}
               /\ s.spread[1] \in Nat /\ s.spread[2] \in Positive
               /\ i.vega[s.strike] \in Nat
    <3>1. PICK q \in raw : s = Clean(q)
      BY <1>3
    <3> QED BY <1>4, <1>5, <3>1
  <2>2. ASSUME NEW s \in slice.quotes, NEW t \in slice.quotes, s.strike = t.strike, s.kind = t.kind
        PROVE  s = t
    <3>1. PICK q \in raw, r \in raw : s = Clean(q) /\ t = Clean(r)
      BY <1>3
    <3>2. r = q
      BY <1>4, <2>2, <3>1
    <3> QED BY <3>1, <3>2
  <2> QED BY <2>1, <2>2 DEF Sound
<1> QED
  BY <1>3, <1>6 DEF slice

--------------------------------------------------------------------------------
(* The two translations.                                                   *)

Wanted(slice, q) == IF q.strike >= slice.forward THEN "CALL" ELSE "PUT"
Alone(slice, q) == \A r \in slice.quotes : r.strike = q.strike => r = q

\* Both contexts choose the leg that is out of the money, and the other where it is alone.
LEMMA BothChoose ==
  ASSUME NEW slice, NEW vega, Sound(slice, vega)
  PROVE  /\ OutOfTheMoney(slice) =
              {[quote |-> q, paired |-> q.kind = Wanted(slice, q)] :
                 q \in {r \in slice.quotes : r.kind = Wanted(slice, r) \/ Alone(slice, r)}}
         /\ NeuralOutOfTheMoney(slice) = OutOfTheMoney(slice)
<1> DEFINE P == {q \in slice.quotes : q.kind = Wanted(slice, q)}
           F == {q \in slice.quotes : \A p \in P : p.strike # q.strike}
           C == {q \in slice.quotes : q.kind = Wanted(slice, q) \/ Alone(slice, q)}
<1>1. \A q \in slice.quotes : q \in F => q \notin P
  OBVIOUS
<1>2. ASSUME NEW q \in slice.quotes, q \notin P PROVE q \in F <=> Alone(slice, q)
  <2>1. q.kind # Wanted(slice, q) /\ q.kind \in {"CALL", "PUT"}
    BY <1>2 DEF Sound
  <2>2. ASSUME q \in F, NEW r \in slice.quotes, r.strike = q.strike PROVE r = q
    <3>1. r \notin P /\ Wanted(slice, r) = Wanted(slice, q)
      BY <2>2 DEF Wanted
    <3>2. r.kind # Wanted(slice, q) /\ r.kind \in {"CALL", "PUT"}
      BY <3>1 DEF Sound
    <3>3. r.kind = q.kind
      BY <2>1, <3>2 DEF Wanted
    <3> QED BY <2>2, <3>3 DEF Sound
  <2>3. ASSUME Alone(slice, q), NEW p \in P, p.strike = q.strike PROVE FALSE
    <3>1. p = q
      BY <2>3 DEF Alone
    <3> QED BY <1>2, <3>1
  <2> QED BY <2>2, <2>3 DEF Alone
<1>3. C = P \cup F
  BY <1>1, <1>2
<1>4. OutOfTheMoney(slice) = {[quote |-> q, paired |-> TRUE] : q \in P} \cup
                             {[quote |-> q, paired |-> FALSE] : q \in F}
  BY Zenon DEF OutOfTheMoney, Wanted
<1>5. NeuralOutOfTheMoney(slice) = {[quote |-> q, paired |-> q.kind = Wanted(slice, q)] : q \in C}
  BY Zenon DEF NeuralOutOfTheMoney, Wanted, Alone
<1>6. \A q \in P : (q.kind = Wanted(slice, q)) = TRUE
  OBVIOUS
<1>7. \A q \in F : (q.kind = Wanted(slice, q)) = FALSE
  BY <1>1
<1> HIDE DEF P, F, C
<1>8. {[quote |-> q, paired |-> TRUE] : q \in P}
        = {[quote |-> q, paired |-> q.kind = Wanted(slice, q)] : q \in P}
  BY <1>6, Zenon
<1>9. {[quote |-> q, paired |-> FALSE] : q \in F}
        = {[quote |-> q, paired |-> q.kind = Wanted(slice, q)] : q \in F}
  BY <1>7, Zenon
<1>10. {[quote |-> q, paired |-> q.kind = Wanted(slice, q)] : q \in C} =
         {[quote |-> q, paired |-> q.kind = Wanted(slice, q)] : q \in P} \cup
         {[quote |-> q, paired |-> q.kind = Wanted(slice, q)] : q \in F}
  BY <1>3, Zenon
<1>11. NeuralOutOfTheMoney(slice) = OutOfTheMoney(slice)
  BY <1>4, <1>5, <1>8, <1>9, <1>10, Zenon
<1> QED
  BY <1>5, <1>11, Zenon DEF C

\* Both weigh it alike, and no weight is negative.
LEMMA PositiveProduct ==
  ASSUME NEW a \in Nat, NEW b \in Nat
  PROVE  a * b \in Nat /\ (a * b > 0 <=> a > 0 /\ b > 0)
<1>1. CASE a = 0
  BY <1>1
<1>2. CASE b = 0
  BY <1>2
<1>3. CASE a > 0 /\ b > 0
  BY <1>3
<1> QED BY <1>1, <1>2, <1>3

\* Both give such a leg a weight, and the same, up to the scale of a slice.
LEMMA BothWeigh ==
  ASSUME NEW slice, NEW vega, Sound(slice, vega),
         NEW weighting \in [scale : Positive, whole : Positive, flagged : Nat, unpaired : Nat],
         NEW q \in slice.quotes, NEW paired \in BOOLEAN
  PROVE  LET one == [quote |-> q, paired |-> paired] IN
         /\ NeuralWeight(one, slice, vega, weighting) = Weight(one, slice, vega, weighting)
         /\ Weight(one, slice, vega, weighting)[1] > 0
              <=> /\ vega[q.strike] > 0
                  /\ q.flags \cup slice.flags = {} \/ weighting.flagged > 0
                  /\ paired \/ weighting.unpaired > 0
         /\ Weight(one, slice, vega, weighting)[1] \in Nat
<1> DEFINE one == [quote |-> q, paired |-> paired]
           v == vega[q.strike]
           s == weighting.scale
           d == q.spread[2]
           f == IF q.flags \cup slice.flags # {} THEN weighting.flagged ELSE weighting.whole
           p == IF paired THEN weighting.whole ELSE weighting.unpaired
<1>1. v \in Nat /\ s \in Positive /\ d \in Positive /\ f \in Nat /\ p \in Nat /\ q.spread[1] \in Nat
  BY DEF Sound, Positive
<1>2. f > 0 <=> q.flags \cup slice.flags = {} \/ weighting.flagged > 0
  BY DEF Positive
<1>3. p > 0 <=> paired \/ weighting.unpaired > 0
  BY DEF Positive
<1>4. one.quote = q /\ one.paired = paired
  OBVIOUS
<1>5. Weight(one, slice, vega, weighting) = <<v * s * d * f * p, s * d + q.spread[1]>>
  BY <1>4, Zenon DEF Weight
<1>6. NeuralWeight(one, slice, vega, weighting) = <<v * (f * p) * s * d, s * d + q.spread[1]>>
  <2>1. f = IF q.flags # {} \/ slice.flags # {} THEN weighting.flagged ELSE weighting.whole
    OBVIOUS
  <2> QED BY <1>4, <2>1, Zenon DEF NeuralWeight
<1> HIDE DEF one, v, s, d, f, p
<1>7. v * s * d * f * p = v * (f * p) * s * d
  BY <1>1, SMT DEF Positive
<1>8. v * s * d * f * p \in Nat /\ (v * s * d * f * p > 0 <=> v > 0 /\ f > 0 /\ p > 0)
  <2>1. v * s \in Nat /\ (v * s > 0 <=> v > 0)
    BY <1>1, PositiveProduct DEF Positive
  <2>2. v * s * d \in Nat /\ (v * s * d > 0 <=> v > 0)
    BY <1>1, <2>1, PositiveProduct DEF Positive
  <2>3. v * s * d * f \in Nat /\ (v * s * d * f > 0 <=> v > 0 /\ f > 0)
    BY <1>1, <2>2, PositiveProduct DEF Positive
  <2> QED
    BY <1>1, <2>3, PositiveProduct DEF Positive
<1>9. Weight(one, slice, vega, weighting)[1] = v * s * d * f * p
  BY <1>5
<1> QED
  BY <1>2, <1>3, <1>5, <1>6, <1>7, <1>8, <1>9 DEF one, v

\* The legs of an expiry that go into both tasks, and those among them that weigh.
FittedLegs(i, slice) ==
  {one \in OutOfTheMoney(slice) : Invertible(one.quote, slice.forward)}
Heavy(i, slice) == {one \in FittedLegs(i, slice) : Weight(one, slice, i.vega, i.weighting)[1] > 0}
Learnt(i, slice) ==
  {[strike |-> one.quote.strike, kind |-> one.quote.kind,
    weight |-> Weight(one, slice, i.vega, i.weighting)] : one \in Heavy(i, slice)}

TaskOf(i, slice) ==
  {[strike |-> one.quote.strike, kind |-> one.quote.kind,
    weight |-> Weight(one, slice, i.vega, i.weighting)] : one \in FittedLegs(i, slice)}

\* What steers a calibration, of the task of an expiry (to_calibration_task).
LEMMA ParametricLearns ==
  ASSUME NEW i, NEW slices, NEW e \in DOMAIN slices,
         NEW task, CalibrationTask(slices, i.vega, i.weighting) = task
  PROVE  /\ e \in DOMAIN task => task[e] = TaskOf(i, slices[e]) /\ Heavy(i, slices[e]) # {}
         /\ Steering(IF e \in DOMAIN task THEN task[e] ELSE {}) = Learnt(i, slices[e])
<1> DEFINE slice == slices[e]
           found == SliceTask(slice, i.vega, i.weighting)
           fitted == FittedLegs(i, slice)
           W(one) == Weight(one, slice, i.vega, i.weighting)
           R(one) == [strike |-> one.quote.strike, kind |-> one.quote.kind, weight |-> W(one)]
           all == {R(one) : one \in fitted}
<1>1. /\ e \in DOMAIN task <=> found # {}
      /\ e \in DOMAIN task => task[e] = found
  BY DEF CalibrationTask
<1>2. found = IF \E one \in fitted : W(one)[1] > 0 THEN all ELSE {}
  <2> DEFINE weights == [one \in fitted |-> W(one)]
  <2>1. \A one \in fitted : weights[one] = W(one)
    OBVIOUS
  <2> HIDE DEF W
  <2>2. found = IF \E one \in fitted : weights[one][1] > 0
                THEN {[strike |-> one.quote.strike, kind |-> one.quote.kind,
                       weight |-> weights[one]] : one \in fitted}
                ELSE {}
    BY Zenon DEF SliceTask, FittedLegs, W
  <2> HIDE DEF weights
  <2>3. {[strike |-> one.quote.strike, kind |-> one.quote.kind,
          weight |-> weights[one]] : one \in fitted} = all
    BY <2>1, Zenon
  <2>4. (\E one \in fitted : weights[one][1] > 0) <=> \E one \in fitted : W(one)[1] > 0
    BY <2>1, Zenon
  <2> QED BY <2>2, <2>3, <2>4, Zenon
<1>3. Heavy(i, slice) = {one \in fitted : W(one)[1] > 0} /\ TaskOf(i, slice) = all
  BY DEF Heavy, TaskOf
<1>4. Learnt(i, slice) = {R(one) : one \in Heavy(i, slice)}
  BY DEF Learnt
<1>5. \A one : /\ R(one).strike = one.quote.strike /\ R(one).kind = one.quote.kind /\ R(one).weight = W(one)
              /\ R(one) = [strike |-> R(one).strike, kind |-> R(one).kind, weight |-> R(one).weight]
  BY Zenon
<1> HIDE DEF R, W, slice, found, fitted
<1>6. Steering(all) = {R(one) : one \in Heavy(i, slice)}
  <2>1. Steering(all) = {[strike |-> w.strike, kind |-> w.kind, weight |-> w.weight] :
                            w \in {v \in all : v.weight[1] > 0}}
    BY DEF Steering
  <2>2. ASSUME NEW s \in Steering(all) PROVE s \in {R(one) : one \in Heavy(i, slice)}
    <3>1. PICK w \in all : /\ w.weight[1] > 0
                           /\ s = [strike |-> w.strike, kind |-> w.kind, weight |-> w.weight]
      BY <2>1
    <3>2. PICK one \in fitted : w = R(one)
      BY <3>1
    <3>3. s = R(one)
      BY <1>5, <3>1, <3>2, Zenon
    <3>4. one \in Heavy(i, slice)
      BY <1>3, <1>5, <3>1, <3>2
    <3> QED BY <3>3, <3>4
  <2>3. ASSUME NEW one \in Heavy(i, slice) PROVE R(one) \in Steering(all)
    <3>1. one \in fitted /\ R(one).weight[1] > 0
      BY <1>3, <1>5
    <3>2. R(one) \in {v \in all : v.weight[1] > 0}
      BY <3>1
    <3> QED BY <1>5, <2>1, <3>2, Zenon
  <2> QED BY <2>2, <2>3, Zenon
<1>7. Steering({}) = {}
  BY DEF Steering
<1>8. CASE \E one \in fitted : W(one)[1] > 0
  <2>1. found = all /\ Heavy(i, slice) # {}
    BY <1>2, <1>3, <1>8
  <2>2. found # {}
    BY <1>8, <2>1
  <2> QED BY <1>1, <1>3, <1>4, <1>6, <2>1, <2>2 DEF slice
<1>9. CASE ~\E one \in fitted : W(one)[1] > 0
  <2>1. found = {} /\ Heavy(i, slice) = {}
    BY <1>2, <1>3, <1>9
  <2>2. {R(one) : one \in Heavy(i, slice)} = {}
    BY <2>1
  <2> QED BY <1>1, <1>4, <1>7, <2>1, <2>2 DEF slice
<1> QED BY <1>8, <1>9

\* What steers a learner, of the samples of that expiry (to_training_samples).
LEMMA NeuralLearns ==
  ASSUME NEW i, NEW slices, NEW e \in DOMAIN slices,
         \A d \in DOMAIN slices : Sound(slices[d], i.vega),
         i.weighting \in [scale : Positive, whole : Positive, flagged : Nat, unpaired : Nat]
  PROVE  Steering({s \in TrainingSamples(slices, i.vega, i.weighting) : s.expiry = e})
           = Learnt(i, slices[e])
<1> DEFINE W(d, one) == Weight(one, slices[d], i.vega, i.weighting)
           R(d, one) == [expiry |-> d, strike |-> one.quote.strike, kind |-> one.quote.kind,
                         weight |-> W(d, one)]
           P(one) == [strike |-> one.quote.strike, kind |-> one.quote.kind, weight |-> W(e, one)]
           all == UNION {{R(d, one) : one \in FittedLegs(i, slices[d])} : d \in DOMAIN slices}
<1>1. ASSUME NEW d \in DOMAIN slices, NEW one \in FittedLegs(i, slices[d])
      PROVE  NeuralWeight(one, slices[d], i.vega, i.weighting) = W(d, one)
  <2>1. one \in OutOfTheMoney(slices[d]) /\ Sound(slices[d], i.vega)
    BY DEF FittedLegs
  <2>2. PICK q \in slices[d].quotes : one = [quote |-> q, paired |-> q.kind = Wanted(slices[d], q)]
    BY <2>1, BothChoose
  <2> DEFINE paired == q.kind = Wanted(slices[d], q)
  <2>3. paired \in BOOLEAN /\ one = [quote |-> q, paired |-> paired]
    BY <2>2
  <2> HIDE DEF paired
  <2> QED BY <2>1, <2>3, BothWeigh
<1>2. TrainingSamples(slices, i.vega, i.weighting)
        = IF \E s \in all : s.weight[1] > 0 THEN all ELSE {}
  <2> DEFINE samples == UNION {
        {[expiry |-> d, strike |-> one.quote.strike, kind |-> one.quote.kind,
          weight |-> NeuralWeight(one, slices[d], i.vega, i.weighting)] :
           one \in {o \in NeuralOutOfTheMoney(slices[d]) : Invertible(o.quote, slices[d].forward)}} :
        d \in DOMAIN slices}
  <2>1. TrainingSamples(slices, i.vega, i.weighting)
          = IF \E s \in samples : s.weight[1] > 0 THEN samples ELSE {}
    BY Zenon DEF TrainingSamples
  <2>2. \A d \in DOMAIN slices :
          {o \in NeuralOutOfTheMoney(slices[d]) : Invertible(o.quote, slices[d].forward)}
            = FittedLegs(i, slices[d])
    BY BothChoose DEF FittedLegs
  <2> DEFINE N(d, one) == [expiry |-> d, strike |-> one.quote.strike, kind |-> one.quote.kind,
                           weight |-> NeuralWeight(one, slices[d], i.vega, i.weighting)]
             legs(d) == {o \in NeuralOutOfTheMoney(slices[d]) : Invertible(o.quote, slices[d].forward)}
  <2>4. \A d \in DOMAIN slices : \A one \in FittedLegs(i, slices[d]) : N(d, one) = R(d, one)
    BY <1>1, Zenon
  <2>5. samples = UNION {{N(d, one) : one \in legs(d)} : d \in DOMAIN slices}
    BY Zenon
  <2>6. \A d \in DOMAIN slices : legs(d) = FittedLegs(i, slices[d])
    BY <2>2
  <2> HIDE DEF W, R, N, legs, samples
  <2>7. \A d \in DOMAIN slices : {N(d, one) : one \in legs(d)}
                                   = {R(d, one) : one \in FittedLegs(i, slices[d])}
    BY <2>4, <2>6, Zenon
  <2> DEFINE A(d) == {N(d, one) : one \in legs(d)}
             B(d) == {R(d, one) : one \in FittedLegs(i, slices[d])}
  <2>8. /\ samples = UNION {A(d) : d \in DOMAIN slices}
        /\ all = UNION {B(d) : d \in DOMAIN slices}
        /\ \A d \in DOMAIN slices : A(d) = B(d)
    BY <2>5, <2>7, Zenon
  <2> HIDE DEF A, B, all
  <2>3. samples = all
    BY <2>8
  <2> QED BY <2>1, <2>3, Zenon
<1>3. Heavy(i, slices[e]) = {one \in FittedLegs(i, slices[e]) : W(e, one)[1] > 0}
  BY DEF Heavy
<1>4. Learnt(i, slices[e]) = {P(one) : one \in Heavy(i, slices[e])}
  BY DEF Learnt
<1>5. \A d, one : /\ R(d, one).strike = one.quote.strike /\ R(d, one).kind = one.quote.kind
                  /\ R(d, one).weight = W(d, one) /\ R(d, one).expiry = d
  BY Zenon
<1>6. \A one : P(one) = [strike |-> R(e, one).strike, kind |-> R(e, one).kind, weight |-> R(e, one).weight]
  BY <1>5, Zenon
<1> HIDE DEF P, R, W
<1> DEFINE mine == {s \in TrainingSamples(slices, i.vega, i.weighting) : s.expiry = e}
<1>7. Steering(mine) = {[strike |-> w.strike, kind |-> w.kind, weight |-> w.weight] :
                            w \in {v \in mine : v.weight[1] > 0}}
  BY DEF Steering
<1>8. ASSUME NEW t \in Steering(mine) PROVE t \in Learnt(i, slices[e])
  <2>1. PICK w \in mine : w.weight[1] > 0 /\ t = [strike |-> w.strike, kind |-> w.kind, weight |-> w.weight]
    BY <1>7
  <2>2. w \in all /\ w.expiry = e
    BY <1>2, <2>1
  <2>3. PICK d \in DOMAIN slices : \E one \in FittedLegs(i, slices[d]) : w = R(d, one)
    BY <2>2
  <2>4. d = e
    BY <1>5, <2>2, <2>3
  <2>5. PICK one \in FittedLegs(i, slices[e]) : w = R(e, one)
    BY <2>3, <2>4
  <2>6. one \in Heavy(i, slices[e])
    BY <1>3, <1>5, <2>1, <2>5
  <2>7. t = P(one)
    BY <1>6, <2>1, <2>5
  <2> QED BY <1>4, <2>6, <2>7
<1>9. ASSUME NEW one \in Heavy(i, slices[e]) PROVE P(one) \in Steering(mine)
  <2>1. one \in FittedLegs(i, slices[e]) /\ R(e, one).weight[1] > 0 /\ R(e, one).expiry = e
    BY <1>3, <1>5
  <2>2. R(e, one) \in all
    BY <2>1
  <2>3. R(e, one) \in mine
    BY <1>2, <2>1, <2>2
  <2> QED BY <1>6, <1>7, <2>1, <2>3
<1> QED BY <1>4, <1>8, <1>9, Zenon

\* The legs that weigh are those of the quotes that ought to.
LEMMA LearntIsWanted ==
  ASSUME NEW i, NEW slice, Sound(slice, i.vega), slice.forward = i.forward,
         i.weighting \in [scale : Positive, whole : Positive, flagged : Nat, unpaired : Nat]
  PROVE  {<<w.strike, w.kind>> : w \in Learnt(i, slice)}
           = {<<q.strike, q.kind>> : q \in {r \in slice.quotes : Weighs(i, slice, r)}}
<1> DEFINE One(q) == [quote |-> q, paired |-> q.kind = Wanted(slice, q)]
           chosen == {r \in slice.quotes : r.kind = Wanted(slice, r) \/ Alone(slice, r)}
<1>1. OutOfTheMoney(slice) = {One(q) : q \in chosen}
  BY BothChoose
<1>2. \A q : One(q).quote = q
  OBVIOUS
<1>3. ASSUME NEW q \in slice.quotes
      PROVE  Weight(One(q), slice, i.vega, i.weighting)[1] > 0
               <=> /\ i.vega[q.strike] > 0
                   /\ q.flags \cup slice.flags = {} \/ i.weighting.flagged > 0
                   /\ q.kind = Wanted(slice, q) \/ i.weighting.unpaired > 0
  <2> DEFINE paired == q.kind = Wanted(slice, q)
  <2>1. paired \in BOOLEAN
    OBVIOUS
  <2> HIDE DEF paired
  <2> QED BY <2>1, BothWeigh DEF paired
<1>4. ASSUME NEW q \in slice.quotes
      PROVE  One(q) \in Heavy(i, slice) /\ q \in chosen <=> Weighs(i, slice, q)
  <2>1. Weighs(i, slice, q) <=>
          /\ i.vega[q.strike] > 0
          /\ q.flags \cup slice.flags = {} \/ i.weighting.flagged > 0
          /\ q.kind = Wanted(slice, q) \/ (Alone(slice, q) /\ i.weighting.unpaired > 0)
          /\ Invertible(q, slice.forward)
    BY DEF Weighs, Wanted, Alone
  <2>2. One(q) \in Heavy(i, slice) <=>
          /\ One(q) \in OutOfTheMoney(slice) /\ Invertible(q, slice.forward)
          /\ Weight(One(q), slice, i.vega, i.weighting)[1] > 0
    BY <1>2 DEF Heavy, FittedLegs
  <2>3. q \in chosen => One(q) \in OutOfTheMoney(slice)
    BY <1>1
  <2> QED BY <1>3, <2>1, <2>2, <2>3
<1>5. \A one \in Heavy(i, slice) : one.quote \in chosen /\ one = One(one.quote)
  BY <1>1, <1>2 DEF Heavy, FittedLegs
<1>6. \A one \in Heavy(i, slice) : one.quote \in slice.quotes /\ Weighs(i, slice, one.quote)
  BY <1>4, <1>5
<1> DEFINE R(one) == [strike |-> one.quote.strike, kind |-> one.quote.kind,
                      weight |-> Weight(one, slice, i.vega, i.weighting)]
<1>7. Learnt(i, slice) = {R(one) : one \in Heavy(i, slice)}
  BY DEF Learnt
<1>8. \A one : R(one).strike = one.quote.strike /\ R(one).kind = one.quote.kind
  OBVIOUS
<1> HIDE DEF One, chosen, R
<1>9. ASSUME NEW w \in Learnt(i, slice)
      PROVE  \E q \in slice.quotes : Weighs(i, slice, q) /\ <<w.strike, w.kind>> = <<q.strike, q.kind>>
  <2>1. PICK one \in Heavy(i, slice) : w = R(one)
    BY <1>7
  <2> QED BY <1>6, <1>8, <2>1
<1>10. ASSUME NEW q \in slice.quotes, Weighs(i, slice, q)
       PROVE  \E w \in Learnt(i, slice) : <<w.strike, w.kind>> = <<q.strike, q.kind>>
  <2>1. One(q) \in Heavy(i, slice)
    BY <1>4, <1>10
  <2>2. R(One(q)) \in Learnt(i, slice) /\ R(One(q)).strike = q.strike /\ R(One(q)).kind = q.kind
    BY <1>2, <1>7, <1>8, <2>1
  <2> QED BY <2>2
<1> QED BY <1>9, <1>10

\* Of each strike one leg at most is fitted, which is what SliceTask insists on.
LEMMA OneLegPerStrike ==
  ASSUME NEW i, NEW slice, Sound(slice, i.vega), NEW one \in FittedLegs(i, slice),
         NEW other \in FittedLegs(i, slice), one.quote.strike = other.quote.strike
  PROVE  one = other
<1> DEFINE One(q) == [quote |-> q, paired |-> q.kind = Wanted(slice, q)]
           chosen == {r \in slice.quotes : r.kind = Wanted(slice, r) \/ Alone(slice, r)}
<1>1. PICK q \in chosen, r \in chosen : one = One(q) /\ other = One(r)
  BY BothChoose DEF FittedLegs
<1>2. q.strike = r.strike
  BY <1>1
<1>3. q = r
  BY <1>1, <1>2 DEF Sound, Wanted, Alone
<1> QED BY <1>1, <1>3

\* Of any books, under any thresholds and weightings, both producers learn from the same quotes
\* with the same weights (to_calibration_task, to_training_samples).
THEOREM ProducersLearnAlike == RulesSpec => []SameQuotesForEveryProducer
<1>1. ASSUME input \in Inputs PROVE SameQuotesForEveryProducer
  <2> SUFFICES ASSUME input.rule = "fit" PROVE SameQuotesForEveryProducer
    BY DEF SameQuotesForEveryProducer
  <2>0. RuleInputs(input)
    BY <1>1, RulesAssumption
  <2>1. IsFit(input)
    BY <2>0 DEF RuleInputs
  <2>2. input.weighting \in [scale : Positive, whole : Positive, flagged : Nat, unpaired : Nat]
    BY <2>1 DEF IsFit
  <2> DEFINE slices == Snapshot(input)
             task == CalibrationTask(slices, input.vega, input.weighting)
             samples == TrainingSamples(slices, input.vega, input.weighting)
  <2>3. DOMAIN slices = DOMAIN input.books
    BY DEF Snapshot
  <2>4. \A e \in DOMAIN slices : slices[e].forward = input.forward /\ Sound(slices[e], input.vega)
    BY <2>1, <2>3, SnapshotIsSound
  <2> HIDE DEF slices, task, samples
  <2>5. ASSUME NEW e \in DOMAIN slices
        PROVE  LET parametric == IF e \in DOMAIN task THEN task[e] ELSE {}
                   neural == {s \in samples : s.expiry = e}
                   wanted == {q \in slices[e].quotes : Weighs(input, slices[e], q)}
               IN /\ Steering(parametric) = Steering(neural)
                  /\ {<<w.strike, w.kind>> : w \in Steering(neural)} = {<<q.strike, q.kind>> : q \in wanted}
                  /\ e \in DOMAIN task => TaskBuilds(task[e])
    <3>1. /\ Steering(IF e \in DOMAIN task THEN task[e] ELSE {}) = Learnt(input, slices[e])
          /\ e \in DOMAIN task =>
               /\ Heavy(input, slices[e]) # {}
               /\ task[e] = TaskOf(input, slices[e])
      <4>1. PICK t : t = CalibrationTask(slices, input.vega, input.weighting)
        OBVIOUS
      <4>2. /\ e \in DOMAIN t => t[e] = TaskOf(input, slices[e]) /\ Heavy(input, slices[e]) # {}
            /\ Steering(IF e \in DOMAIN t THEN t[e] ELSE {}) = Learnt(input, slices[e])
        BY <4>1, ParametricLearns
      <4> QED BY <4>1, <4>2 DEF task
    <3>2. Steering({s \in samples : s.expiry = e}) = Learnt(input, slices[e])
      BY <2>2, <2>4, NeuralLearns DEF samples
    <3>3. {<<w.strike, w.kind>> : w \in Learnt(input, slices[e])}
            = {<<q.strike, q.kind>> : q \in {r \in slices[e].quotes : Weighs(input, slices[e], r)}}
      BY <2>2, <2>4, LearntIsWanted
    <3>4. ASSUME e \in DOMAIN task PROVE TaskBuilds(task[e])
      <4> DEFINE R(one) == [strike |-> one.quote.strike, kind |-> one.quote.kind,
                            weight |-> Weight(one, slices[e], input.vega, input.weighting)]
      <4>1. task[e] = {R(one) : one \in FittedLegs(input, slices[e])} /\ Heavy(input, slices[e]) # {}
        BY <3>1, <3>4 DEF TaskOf
      <4>2. \A one : R(one).strike = one.quote.strike
                     /\ R(one).weight = Weight(one, slices[e], input.vega, input.weighting)
        OBVIOUS
      <4> HIDE DEF R
      <4>3. PICK one \in FittedLegs(input, slices[e]) : R(one).weight[1] > 0
        BY <4>1, <4>2 DEF Heavy
      <4>4. task[e] # {} /\ \E a \in task[e] : a.weight[1] > 0
        BY <4>1, <4>3
      <4>5. ASSUME NEW a \in task[e], NEW b \in task[e], a.strike = b.strike PROVE a = b
        <5>1. PICK x \in FittedLegs(input, slices[e]), y \in FittedLegs(input, slices[e]) :
                a = R(x) /\ b = R(y)
          BY <4>1
        <5>2. x.quote.strike = y.quote.strike
          BY <4>2, <4>5, <5>1
        <5>3. x = y
          BY <2>4, <5>2, OneLegPerStrike
        <5> QED BY <5>1, <5>3
      <4> QED BY <4>4, <4>5 DEF TaskBuilds
    <3> QED BY <3>1, <3>2, <3>3, <3>4
  <2> QED BY <2>5, Zenon DEF SameQuotesForEveryProducer, slices, task, samples
<1> QED BY <1>1, DrawnOnce, PTL

--------------------------------------------------------------------------------
(* A median, by counting. *)

\* Counting the parts of a set.
LEMMA DisjointUnion ==
  ASSUME NEW A, NEW B, IsFiniteSet(A), IsFiniteSet(B), A \cap B = {}
  PROVE  Cardinality(A \cup B) = Cardinality(A) + Cardinality(B)
<1>1. Cardinality(A \cup B) = Cardinality(A) + Cardinality(B) - Cardinality(A \cap B)
  BY FS_Union
<1>2. Cardinality(A \cap B) = 0
  BY FS_EmptySet
<1>3. Cardinality(A) \in Nat /\ Cardinality(B) \in Nat
  BY FS_CardinalityType
<1> QED BY <1>1, <1>2, <1>3

\* A part of a finite set counts no more than it.
LEMMA PartIsFinite ==
  ASSUME NEW A, NEW B, IsFiniteSet(B), A \subseteq B
  PROVE  IsFiniteSet(A) /\ Cardinality(A) <= Cardinality(B) /\ Cardinality(A) \in Nat
<1>1. A \in SUBSET B
  OBVIOUS
<1> QED BY <1>1, FS_Subset, FS_CardinalityType

Lower(values, v) == {k \in DOMAIN values : values[k] < v}
UpTo(values, v) == {k \in DOMAIN values : values[k] <= v}
AtValue(values, v) == {k \in DOMAIN values : values[k] = v}
Higher(values, v) == {k \in DOMAIN values : values[k] > v}

\* Whole numbers by some finite number of strikes.
IsVoice(values) == IsFiniteSet(DOMAIN values) /\ \A k \in DOMAIN values : values[k] \in Int

\* A value splits the strikes into those below it, at it and above it.
LEMMA Counts ==
  ASSUME NEW values, IsVoice(values), NEW v \in Int
  PROVE  /\ Cardinality(DOMAIN values) \in Nat
         /\ Cardinality(Lower(values, v)) \in Nat /\ Cardinality(UpTo(values, v)) \in Nat
         /\ Cardinality(AtValue(values, v)) \in Nat /\ Cardinality(Higher(values, v)) \in Nat
         /\ Cardinality(UpTo(values, v)) = Cardinality(Lower(values, v)) + Cardinality(AtValue(values, v))
         /\ Cardinality(DOMAIN values) = Cardinality(UpTo(values, v)) + Cardinality(Higher(values, v))
<1> DEFINE D == DOMAIN values
           Lo == Lower(values, v)
           Up == UpTo(values, v)
           Eq == AtValue(values, v)
           Hi == Higher(values, v)
<1>1. Lo \subseteq D /\ Up \subseteq D /\ Eq \subseteq D /\ Hi \subseteq D
  BY DEF Lower, UpTo, AtValue, Higher
<1>2. IsFiniteSet(D) /\ \A k \in D : values[k] \in Int
  BY DEF IsVoice
<1>3. Up = Lo \cup Eq /\ D = Up \cup Hi /\ Lo \cap Eq = {} /\ Up \cap Hi = {}
  BY <1>2 DEF Lower, UpTo, AtValue, Higher
<1> HIDE DEF D, Lo, Up, Eq, Hi
<1>4. IsFiniteSet(Lo) /\ IsFiniteSet(Up) /\ IsFiniteSet(Eq) /\ IsFiniteSet(Hi)
  BY <1>1, <1>2, PartIsFinite
<1>5. /\ Cardinality(Lo) \in Nat /\ Cardinality(Up) \in Nat /\ Cardinality(Eq) \in Nat
      /\ Cardinality(Hi) \in Nat /\ Cardinality(D) \in Nat
  BY <1>2, <1>4, FS_CardinalityType
<1>6. Cardinality(Up) = Cardinality(Lo) + Cardinality(Eq)
  BY <1>3, <1>4, DisjointUnion
<1>7. Cardinality(D) = Cardinality(Up) + Cardinality(Hi)
  BY <1>3, <1>4, DisjointUnion
<1> QED BY <1>5, <1>6, <1>7 DEF D, Lo, Up, Eq, Hi

\* A higher value has more below it.
LEMMA LowerCounts ==
  ASSUME NEW values, IsVoice(values), NEW v \in Int, NEW w \in Int, v < w
  PROVE  Cardinality(UpTo(values, v)) <= Cardinality(Lower(values, w))
<1>1. UpTo(values, v) \subseteq Lower(values, w) /\ Lower(values, w) \subseteq DOMAIN values
  BY DEF UpTo, Lower, IsVoice
<1>2. IsFiniteSet(Lower(values, w))
  BY <1>1, PartIsFinite DEF IsVoice
<1> QED BY <1>1, <1>2, PartIsFinite

\* The value at a rank is the one whose occurrences cover the rank, and no other.
LEMMA RankedIs ==
  ASSUME NEW values, IsVoice(values), NEW rank \in Nat, NEW v \in Int, AtValue(values, v) # {},
         Cardinality(Lower(values, v)) < rank, rank <= Cardinality(UpTo(values, v))
  PROVE  Ranked(values, rank) = v
<1> DEFINE V == {values[k] : k \in DOMAIN values}
           At(w) == Cardinality(Lower(values, w)) < rank /\ rank <= Cardinality(UpTo(values, w))
<1>1. Ranked(values, rank) = CHOOSE w \in V : At(w)
  BY Zenon DEF Ranked, Lower, UpTo
<1>2. v \in V /\ V \subseteq Int /\ At(v)
  BY DEF AtValue, IsVoice
<1>3. ASSUME NEW w \in V, At(w) PROVE w = v
  <2>1. w \in Int
    BY <1>2
  <2>2. /\ Cardinality(Lower(values, v)) \in Nat /\ Cardinality(UpTo(values, v)) \in Nat
        /\ Cardinality(Lower(values, w)) \in Nat /\ Cardinality(UpTo(values, w)) \in Nat
    BY <2>1, Counts
  <2>3. w < v => Cardinality(UpTo(values, w)) <= Cardinality(Lower(values, v))
    BY <2>1, LowerCounts
  <2>4. v < w => Cardinality(UpTo(values, v)) <= Cardinality(Lower(values, w))
    BY <2>1, LowerCounts
  <2> QED BY <1>2, <1>3, <2>1, <2>2, <2>3, <2>4
<1> HIDE DEF V, At
<1> QED BY <1>1, <1>2, <1>3

\* What more than half of the strikes say is the median, whatever the others say.
LEMMA MajorityIsTheMedian ==
  ASSUME NEW values, IsVoice(values), NEW v \in Int,
         2 * Cardinality(AtValue(values, v)) > Cardinality(DOMAIN values)
  PROVE  TwiceMedian(values) = 2 * v
<1> DEFINE n == Cardinality(DOMAIN values)
           low == (n + 1) \div 2
           high == n \div 2 + 1
<1>1. /\ n \in Nat
      /\ Cardinality(Lower(values, v)) \in Nat /\ Cardinality(UpTo(values, v)) \in Nat
      /\ Cardinality(AtValue(values, v)) \in Nat /\ Cardinality(Higher(values, v)) \in Nat
      /\ Cardinality(UpTo(values, v)) = Cardinality(Lower(values, v)) + Cardinality(AtValue(values, v))
      /\ n = Cardinality(UpTo(values, v)) + Cardinality(Higher(values, v))
  BY Counts
<1>2. AtValue(values, v) # {}
  BY <1>1, FS_EmptySet
<1>3. low \in Nat /\ high \in Nat /\ n <= 2 * low /\ 2 * low <= n + 1
      /\ n + 1 <= 2 * high /\ 2 * high <= n + 2
  BY <1>1
<1>4. TwiceMedian(values) = Ranked(values, low) + Ranked(values, high)
  BY DEF TwiceMedian
<1> HIDE DEF low, high, n
<1>5. 2 * Cardinality(AtValue(values, v)) > n
  BY DEF n
<1>6. /\ Cardinality(Lower(values, v)) < low /\ low <= Cardinality(UpTo(values, v))
      /\ Cardinality(Lower(values, v)) < high /\ high <= Cardinality(UpTo(values, v))
  BY <1>1, <1>3, <1>5
<1>7. Ranked(values, low) = v /\ Ranked(values, high) = v
  BY <1>2, <1>3, <1>6, RankedIs
<1> QED BY <1>4, <1>7

\* The parity forward of an expiry is what most of its strikes imply (_parity_forward).
LEMMA ParityIsAgreed ==
  ASSUME NEW s, IsVoiced(s), MostAgree(s)
  PROVE  TwiceParity(s) = IF TwoSided(s) # {} THEN 2 * s.agreed ELSE NoForward
<1> SUFFICES ASSUME TwoSided(s) # {} PROVE TwiceParity(s) = 2 * s.agreed
  BY DEF TwiceParity
<1> DEFINE values == Implied(s)
<1>1. s.agreed \in Int /\ s.agreed > 0 /\ IsCurve(s.calls) /\ IsCurve(s.puts)
  BY DEF IsVoiced, Positive
<1>2. DOMAIN values = TwoSided(s) /\ \A k \in TwoSided(s) : values[k] = k + s.calls[k] - s.puts[k]
  BY DEF Implied
<1>3. IsFiniteSet(TwoSided(s)) /\ \A k \in TwoSided(s) : values[k] \in Int
  <2>1. TwoSided(s) \subseteq DOMAIN s.calls /\ IsFiniteSet(DOMAIN s.calls)
    BY <1>1 DEF TwoSided, IsCurve
  <2>2. IsFiniteSet(TwoSided(s))
    BY <2>1, PartIsFinite
  <2>3. ASSUME NEW k \in TwoSided(s) PROVE values[k] \in Int
    <3>1. k \in Int /\ s.calls[k] \in Int /\ s.puts[k] \in Int
      BY <1>1 DEF TwoSided, IsCurve
    <3> QED BY <1>2, <3>1
  <2> QED BY <2>2, <2>3
<1>4. AtValue(values, s.agreed) = {k \in TwoSided(s) : Implied(s)[k] = s.agreed}
  BY <1>2 DEF AtValue
<1>5. 2 * Cardinality(AtValue(values, s.agreed)) > Cardinality(DOMAIN values)
  BY <1>2, <1>4 DEF MostAgree
<1> HIDE DEF values
<1>6. TwiceMedian(values) = 2 * s.agreed
  BY <1>1, <1>2, <1>3, <1>5, MajorityIsTheMedian DEF IsVoice
<1> QED BY <1>1, <1>6 DEF TwiceParity, values

\* In any snapshot whose expiries each have a majority, the published cross-check is the worst
\* disagreement with the majorities (forward_crosscheck_error).
THEOREM MinoritiesAreIgnored == RulesSpec => []CrosscheckIgnoresAMinority
<1>1. ASSUME input \in Inputs PROVE CrosscheckIgnoresAMinority
  <2> SUFFICES ASSUME input.rule = "crosscheck", \A s \in input.snapshot : MostAgree(s)
               PROVE  CrosscheckIgnoresAMinority
    BY DEF CrosscheckIgnoresAMinority
  <2>1. \A s \in input.snapshot : IsVoiced(s)
    <3>1. RuleInputs(input)
      BY <1>1, RulesAssumption
    <3> QED BY <3>1 DEF RuleInputs
  <2> DEFINE Off(s) == <<2 * (IF s.forward > s.agreed THEN s.forward - s.agreed ELSE s.agreed - s.forward),
                         2 * s.forward>>
             voiced == {s \in input.snapshot : TwoSided(s) # {}}
             heard == {t \in input.snapshot : TwiceParity(t) # NoForward}
             Error(s) == CrosscheckError(s.forward, TwiceParity(s))
  <2>2. ASSUME NEW s \in input.snapshot
        PROVE  /\ TwoSided(s) # {} <=> TwiceParity(s) # NoForward
               /\ TwoSided(s) # {} => Error(s) = Off(s)
    <3>1. s.forward \in Int /\ s.agreed \in Int /\ s.agreed > 0
      BY <2>1 DEF IsVoiced, Positive
    <3>2. TwiceParity(s) = IF TwoSided(s) # {} THEN 2 * s.agreed ELSE NoForward
      BY <2>1, ParityIsAgreed
    <3>3. TwoSided(s) # {} => TwiceParity(s) = 2 * s.agreed
      BY <3>2
    <3>4. CrosscheckError(s.forward, 2 * s.agreed) = Off(s)
      <4>1. CASE s.forward > s.agreed
        BY <3>1, <4>1 DEF CrosscheckError
      <4>2. CASE ~(s.forward > s.agreed)
        BY <3>1, <4>2 DEF CrosscheckError
      <4> QED BY <4>1, <4>2
    <3>5. TwoSided(s) # {} <=> TwiceParity(s) # NoForward
      BY <3>1, <3>2 DEF NoForward
    <3> QED BY <3>3, <3>4, <3>5
  <2>3. heard = voiced
    BY <2>2
  <2>4. \A s \in voiced : Error(s) = Off(s)
    BY <2>2
  <2>5. ForwardCrosscheck(input.snapshot)
          = {e \in {Error(s) : s \in heard} : \A other \in {Error(s) : s \in heard} : AtLeast(e, other)}
    BY DEF ForwardCrosscheck
  <2> HIDE DEF Error, Off, heard, voiced
  <2>6. {Error(s) : s \in heard} = {Off(s) : s \in voiced}
    BY <2>3, <2>4
  <2>7. {e \in {Off(s) : s \in voiced} : \A other \in {Off(s) : s \in voiced} : AtLeast(e, other)}
          = {Off(s) : s \in {t \in voiced : \A other \in voiced : AtLeast(Off(t), Off(other))}}
    OBVIOUS
  <2>8. ForwardCrosscheck(input.snapshot)
          = {Off(s) : s \in {t \in voiced : \A other \in voiced : AtLeast(Off(t), Off(other))}}
    BY <2>5, <2>6, <2>7
  <2> QED BY <2>8, Zenon DEF CrosscheckIgnoresAMinority, Off, voiced
<1> QED BY <1>1, DrawnOnce, PTL

--------------------------------------------------------------------------------
(* Induction and recursion on how much of a sequence was read.             *)

Below == {pair \in Nat \X Nat : pair[1] < pair[2]}

\* Below is the order of the natural numbers, which descends for ever nowhere.
LEMMA BelowIsWellFounded == IsWellFoundedOn(Below, Nat)
BY NatLessThanWellFounded DEF OpToRel, Below

\* What holds of 0 and passes from each number to the next holds of all.
LEMMA SetInduction ==
  ASSUME NEW T, 0 \in T, \A n \in Nat : n \in T => n + 1 \in T
  PROVE  Nat \subseteq T
<1> DEFINE Out == Nat \ T
<1>1. SUFFICES ASSUME Out # {} PROVE FALSE
  OBVIOUS
<1>2. PICK x \in Out : \A y \in Out : <<y, x>> \notin Below
  BY <1>1, BelowIsWellFounded, WFMin, Zenon
<1>3. \A y \in Out : ~(y < x)
  BY <1>2 DEF Below
<1>4. x # 0 /\ x - 1 \in Nat /\ x - 1 < x
  OBVIOUS
<1> QED BY <1>3, <1>4

\* The same, of the numbers up to a bound.
LEMMA PrefixInduction ==
  ASSUME NEW N \in Nat, NEW T, 0 \in T, \A n \in 1..N : n - 1 \in T => n \in T
  PROVE  N \in T
<1> DEFINE U == {n \in Nat : n <= N => n \in T}
<1>1. 0 \in U
  OBVIOUS
<1>2. ASSUME NEW n \in Nat, n \in U PROVE n + 1 \in U
  <2>1. CASE n + 1 <= N
    <3>1. n \in T /\ n + 1 \in 1..N /\ (n + 1) - 1 = n
      BY <1>2, <2>1
    <3> QED BY <3>1
  <2>2. CASE ~(n + 1 <= N)
    BY <2>2
  <2> QED BY <2>1, <2>2
<1> HIDE DEF U
<1>3. Nat \subseteq U
  BY <1>1, <1>2, SetInduction
<1> QED BY <1>3 DEF U

\* So everything up to the end.
LEMMA RangeInduction ==
  ASSUME NEW N \in Nat, NEW T, 0 \in T, \A n \in 1..N : n - 1 \in T => n \in T
  PROVE  0..N \subseteq T
<1> SUFFICES ASSUME NEW m \in 0..N PROVE m \in T
  OBVIOUS
<1>1. m \in Nat /\ \A n \in 1..m : n \in 1..N
  OBVIOUS
<1> QED BY <1>1, PrefixInduction

\* g begins with base, and goes on by one step after another.
Unfolds(g, N, D, base, step) ==
  /\ g \in [0..N -> D]
  /\ g[0] = base
  /\ \A n \in 1..N : g[n] = step[<<n, g[n - 1]>>]

\* A recursion over those numbers has a value at each of them.
LEMMA RecursionExists ==
  ASSUME NEW N \in Nat, NEW D, NEW base \in D, NEW step \in [(1..N) \X D -> D]
  PROVE  \E g : Unfolds(g, N, D, base, step)
<1> DEFINE T == {n \in 0..N : \E g : Unfolds(g, n, D, base, step)}
<1>1. 0 \in T
  <2> DEFINE g == [m \in 0..0 |-> base]
  <2>1. g \in [0..0 -> D] /\ g[0] = base /\ 0 \in 0..N /\ 1..0 = {}
    OBVIOUS
  <2> HIDE DEF g
  <2> QED BY <2>1 DEF Unfolds
<1>2. ASSUME NEW n \in 1..N, n - 1 \in T PROVE n \in T
  <2>1. PICK g \in [0..(n - 1) -> D] :
          g[0] = base /\ \A m \in 1..(n - 1) : g[m] = step[<<m, g[m - 1]>>]
    BY <1>2 DEF Unfolds
  <2> DEFINE h == [m \in 0..n |-> IF m = n THEN step[<<n, g[n - 1]>>] ELSE g[m]]
  <2>2. g[n - 1] \in D /\ <<n, g[n - 1]>> \in (1..N) \X D
    OBVIOUS
  <2>3. step[<<n, g[n - 1]>>] \in D
    BY <2>2
  <2>4. h \in [0..n -> D]
    BY <2>3
  <2>5. h[n] = step[<<n, g[n - 1]>>] /\ \A m \in 0..(n - 1) : h[m] = g[m] /\ m # n
    OBVIOUS
  <2> HIDE DEF h
  <2>6. h[0] = base
    BY <2>1, <2>5
  <2>7. ASSUME NEW m \in 1..n PROVE h[m] = step[<<m, h[m - 1]>>]
    <3>1. m - 1 \in 0..(n - 1) /\ h[m - 1] = g[m - 1]
      BY <2>5
    <3>2. CASE m = n
      BY <2>5, <3>1, <3>2
    <3>3. CASE m # n
      <4>1. m \in 1..(n - 1) /\ m \in 0..(n - 1)
        BY <3>3
      <4> QED BY <2>1, <2>5, <3>1, <4>1
    <3> QED BY <3>2, <3>3
  <2> QED BY <2>4, <2>6, <2>7 DEF Unfolds
<1> HIDE DEF T
<1>3. N \in T
  BY <1>1, <1>2, PrefixInduction
<1> QED BY <1>3 DEF T

--------------------------------------------------------------------------------
(* Sequences.                                                              *)

\* What Append does, place by place.
LEMMA AppendFacts ==
  ASSUME NEW S, NEW s \in Seq(S), NEW e \in S
  PROVE  /\ Append(s, e) \in Seq(S) /\ Len(Append(s, e)) = Len(s) + 1 /\ Len(s) \in Nat
         /\ Append(s, e)[Len(s) + 1] = e
         /\ \A i \in 1..Len(s) : Append(s, e)[i] = s[i]
OBVIOUS

\* What is left of a sequence after its first k items.
Rest(s, k) == SubSeq(s, k + 1, Len(s))

\* The rest of a sequence, place by place.
LEMMA RestIs ==
  ASSUME NEW S, NEW s \in Seq(S), NEW k \in 0..Len(s)
  PROVE  /\ Rest(s, k) \in Seq(S) /\ Len(Rest(s, k)) = Len(s) - k
         /\ \A i \in 1..(Len(s) - k) : Rest(s, k)[i] = s[k + i]
<1>1. Len(s) \in Nat /\ k \in Nat /\ k <= Len(s) /\ DOMAIN s = 1..Len(s)
  OBVIOUS
<1> DEFINE n == Len(s)
           r == SubSeq(s, k + 1, n)
<1>2. n \in Nat /\ k \in Nat /\ k <= n /\ n \in Int /\ k + 1 \in Int /\ \A i \in (k + 1)..n : s[i] \in S
  BY <1>1
<1>3. /\ r \in Seq(S) /\ Len(r) = IF k + 1 <= n THEN n - (k + 1) + 1 ELSE 0
      /\ \A i \in 1..(n - (k + 1) + 1) : r[i] = s[(k + 1) + i - 1]
  BY <1>2, SubSeqProperties
<1> HIDE DEF n, r
<1>4. n - (k + 1) + 1 = n - k /\ \A i \in 1..(n - k) : (k + 1) + i - 1 = k + i
  BY <1>2
<1>6. Len(r) = n - k
  BY <1>2, <1>3
<1>5. \A i \in 1..(n - k) : r[i] = s[k + i]
  BY <1>3, <1>4
<1> QED BY <1>3, <1>5, <1>6 DEF Rest, n, r

\* The rest of a rest is a rest.
LEMMA RestOfRest ==
  ASSUME NEW S, NEW s \in Seq(S), NEW k \in 0..Len(s), NEW i \in 0..(Len(s) - k)
  PROVE  Rest(Rest(s, k), i) = Rest(s, k + i)
<1> DEFINE n == Len(s)
           r == Rest(s, k)
           a == Rest(r, i)
           b == Rest(s, k + i)
<1>1. n \in Nat /\ k \in Nat /\ k <= n /\ i \in Nat /\ i <= n - k /\ k + i \in 0..n
  OBVIOUS
<1> HIDE DEF n
<1>2. r \in Seq(S) /\ Len(r) = n - k /\ \A j \in 1..(n - k) : r[j] = s[k + j]
  BY RestIs DEF n
<1>3. i \in 0..Len(r)
  BY <1>1, <1>2
<1> HIDE DEF r
<1>4. a \in Seq(S) /\ Len(a) = Len(r) - i /\ \A j \in 1..(Len(r) - i) : a[j] = r[i + j]
  BY <1>2, <1>3, RestIs
<1>5. b \in Seq(S) /\ Len(b) = n - (k + i) /\ \A j \in 1..(n - (k + i)) : b[j] = s[(k + i) + j]
  BY <1>1, RestIs DEF n
<1> HIDE DEF a, b
<1>6. Len(a) = Len(b)
  BY <1>1, <1>2, <1>4, <1>5
<1>7. ASSUME NEW j \in 1..Len(a) PROVE a[j] = b[j]
  <2>1. j \in 1..(Len(r) - i) /\ j \in 1..(n - (k + i)) /\ i + j \in 1..(n - k)
    BY <1>1, <1>2, <1>4
  <2>2. a[j] = r[i + j] /\ b[j] = s[(k + i) + j] /\ r[i + j] = s[k + (i + j)]
    BY <1>2, <1>4, <1>5, <2>1
  <2>3. (k + i) + j = k + (i + j)
    BY <1>1, <2>1
  <2> QED BY <2>2, <2>3
<1>8. a = b
  BY <1>4, <1>5, <1>6, <1>7, SeqEqual
<1> QED BY <1>8 DEF a, b, r

\* What Where keeps of each beginning of a sequence.
Sifts(g, S, items, kept) ==
  /\ g \in [0..Len(items) -> Seq(S)]
  /\ g[0] = <<>>
  /\ \A n \in 1..Len(items) :
       /\ n \in kept => g[n] = Append(g[n - 1], items[n])
       /\ n \notin kept => g[n] = g[n - 1]

\* Where() is that recursion, and its value the last of its prefixes'.
LEMMA WhereReads ==
  ASSUME NEW S, NEW items \in Seq(S), NEW kept
  PROVE  \E g : Sifts(g, S, items, kept) /\ Where(items, kept) = g[Len(items)]
<1> DEFINE N == Len(items)
           step == [p \in (1..N) \X Seq(S) |-> IF p[1] \in kept THEN Append(p[2], items[p[1]]) ELSE p[2]]
           Unfolded(g) == g = [n \in 0..N |-> IF n = 0 THEN <<>>
                                          ELSE IF n \in kept THEN Append(g[n - 1], items[n]) ELSE g[n - 1]]
           chosen == CHOOSE g : Unfolded(g)
<1>1. N \in Nat /\ \A n \in 1..N : items[n] \in S
  OBVIOUS
<1>2. step \in [(1..N) \X Seq(S) -> Seq(S)]
  <2>1. ASSUME NEW p \in (1..N) \X Seq(S)
        PROVE  (IF p[1] \in kept THEN Append(p[2], items[p[1]]) ELSE p[2]) \in Seq(S)
    <3>1. p[1] \in 1..N /\ p[2] \in Seq(S) /\ items[p[1]] \in S
      BY <1>1
    <3> QED BY <3>1, AppendFacts
  <2> QED BY <2>1
<1>3. PICK g \in [0..N -> Seq(S)] : g[0] = <<>> /\ \A n \in 1..N : g[n] = step[<<n, g[n - 1]>>]
  <2>1. <<>> \in Seq(S)
    OBVIOUS
  <2> DEFINE D == Seq(S)
             base == <<>>
  <2>2. base \in D /\ step \in [(1..N) \X D -> D] /\ N \in Nat
    BY <1>1, <1>2, <2>1
  <2> HIDE DEF step, D, base, N
  <2>3. PICK g : Unfolds(g, N, D, base, step)
    BY <2>2, RecursionExists
  <2> QED BY <2>3 DEF Unfolds, D, base
<1>4. \A n \in 1..N : g[n - 1] \in Seq(S)
  BY <1>1
<1>5. \A n \in 1..N : step[<<n, g[n - 1]>>] = IF n \in kept THEN Append(g[n - 1], items[n]) ELSE g[n - 1]
  BY <1>4
<1> HIDE DEF step
<1>6. Unfolded(g)
  <2>1. \A n \in 0..N : g[n] = IF n = 0 THEN <<>>
                                ELSE IF n \in kept THEN Append(g[n - 1], items[n]) ELSE g[n - 1]
    <3> SUFFICES ASSUME NEW n \in 0..N, n # 0
                 PROVE  g[n] = IF n \in kept THEN Append(g[n - 1], items[n]) ELSE g[n - 1]
      BY <1>3
    <3>1. n \in 1..N
      BY <1>1
    <3> QED BY <1>3, <1>5, <3>1
  <2>2. g = [n \in 0..N |-> g[n]]
    BY <1>3
  <2> QED BY <2>1, <2>2
<1>7. Unfolded(chosen)
  BY <1>6
<1>8. Where(items, kept) = chosen[N]
  BY Zenon DEF Where
<1> HIDE DEF chosen
<1>9. chosen[0] = <<>>
  BY <1>1, <1>7
<1>10. \A n \in 1..N : /\ n \in kept => chosen[n] = Append(chosen[n - 1], items[n])
                       /\ n \notin kept => chosen[n] = chosen[n - 1]
  <2> SUFFICES ASSUME NEW n \in 1..N
               PROVE  /\ n \in kept => chosen[n] = Append(chosen[n - 1], items[n])
                      /\ n \notin kept => chosen[n] = chosen[n - 1]
    OBVIOUS
  <2>1. n \in 0..N /\ n # 0
    BY <1>1
  <2>2. chosen[n] = IF n = 0 THEN <<>>
                    ELSE IF n \in kept THEN Append(chosen[n - 1], items[n]) ELSE chosen[n - 1]
    BY <1>7, <2>1
  <2> QED BY <2>1, <2>2
<1>11. chosen \in [0..N -> Seq(S)]
  <2> DEFINE T == {n \in 0..N : chosen[n] \in Seq(S)}
  <2>1. 0 \in T
    <3>1. <<>> \in Seq(S) /\ 0 \in 0..N
      BY <1>1
    <3> QED BY <1>9, <3>1
  <2>2. ASSUME NEW n \in 1..N, n - 1 \in T PROVE n \in T
    <3>0. n \in 0..N
      BY <1>1
    <3>1. chosen[n - 1] \in Seq(S) /\ items[n] \in S
      BY <1>1, <2>2
    <3>2. Append(chosen[n - 1], items[n]) \in Seq(S)
      BY <3>1, AppendFacts
    <3>3. chosen[n] \in Seq(S)
      <4>1. CASE n \in kept
        BY <1>10, <3>2, <4>1
      <4>2. CASE n \notin kept
        BY <1>10, <3>1, <4>2
      <4> QED BY <4>1, <4>2
    <3> QED BY <3>0, <3>3
  <2> HIDE DEF T
  <2>3. 0..N \subseteq T
    BY <1>1, <2>1, <2>2, RangeInduction
  <2>4. \A n \in 0..N : chosen[n] \in Seq(S)
    BY <2>3 DEF T
  <2> QED BY <1>7, <2>4
<1> QED BY <1>8, <1>9, <1>10, <1>11 DEF Sifts

\* Beginnings grow: what was kept stays, and what comes after m is of places after m.
LEMMA KeptGrows ==
  ASSUME NEW S, NEW items \in Seq(S), NEW kept, NEW g, Sifts(g, S, items, kept)
  PROVE  \A n \in 0..Len(items) : \A m \in 0..n :
           /\ Len(g[m]) <= Len(g[n])
           /\ \A j \in 1..Len(g[m]) : g[n][j] = g[m][j]
           /\ \A j \in (Len(g[m]) + 1)..Len(g[n]) : \E x \in (m + 1)..n : x \in kept /\ g[n][j] = items[x]
<1> DEFINE N == Len(items)
           Good(m, n) ==
             /\ Len(g[m]) <= Len(g[n])
             /\ \A j \in 1..Len(g[m]) : g[n][j] = g[m][j]
             /\ \A j \in (Len(g[m]) + 1)..Len(g[n]) : \E x \in (m + 1)..n : x \in kept /\ g[n][j] = items[x]
           T == {n \in 0..N : \A m \in 0..n : Good(m, n)}
<1>1. N \in Nat /\ \A n \in 0..N : g[n] \in Seq(S) /\ Len(g[n]) \in Nat
  BY DEF Sifts
<1>2. \A n \in 0..N : Good(n, n)
  BY <1>1
<1>3. 0 \in T
  BY <1>1, <1>2
<1>4. ASSUME NEW n \in 1..N, n - 1 \in T PROVE n \in T
  <2>1. n - 1 \in 0..N /\ n \in 0..N /\ items[n] \in S
    BY <1>1
  <2> DEFINE s == g[n - 1]
             t == g[n]
  <2>2. s \in Seq(S) /\ Len(s) \in Nat
    BY <1>1, <2>1
  <2>3. ASSUME NEW m \in 0..(n - 1) PROVE Good(m, n)
    <3>0. m \in 0..N
      BY <1>1
    <3>1. Good(m, n - 1) /\ Len(g[m]) \in Nat
      BY <1>1, <1>4, <3>0
    <3>2. CASE n \notin kept
      <4>1. t = s
        BY <3>2 DEF Sifts
      <4>2. \A x \in (m + 1)..(n - 1) : x \in (m + 1)..n
        OBVIOUS
      <4> HIDE DEF s, t
      <4> QED BY <3>1, <4>1, <4>2 DEF s, t
    <3>3. CASE n \in kept
      <4>1. t = Append(s, items[n])
        BY <3>3 DEF Sifts
      <4> HIDE DEF s, t
      <4>2. Len(t) = Len(s) + 1 /\ t[Len(s) + 1] = items[n] /\ \A j \in 1..Len(s) : t[j] = s[j]
        BY <2>1, <2>2, <4>1, AppendFacts
      <4>3. /\ Len(g[m]) <= Len(s) /\ \A j \in 1..Len(g[m]) : s[j] = g[m][j]
            /\ \A j \in (Len(g[m]) + 1)..Len(s) : \E x \in (m + 1)..(n - 1) : x \in kept /\ s[j] = items[x]
        BY <3>1 DEF s
      <4>4. Len(g[m]) <= Len(t) /\ \A j \in 1..Len(g[m]) : t[j] = g[m][j]
        BY <2>2, <3>1, <4>2, <4>3
      <4>5. ASSUME NEW j \in (Len(g[m]) + 1)..Len(t)
            PROVE  \E x \in (m + 1)..n : x \in kept /\ t[j] = items[x]
        <5>1. CASE j = Len(s) + 1
          <6>1. n \in (m + 1)..n /\ t[j] = items[n]
            BY <4>2, <5>1
          <6> QED BY <3>3, <6>1
        <5>2. CASE j # Len(s) + 1
          <6>1. j \in (Len(g[m]) + 1)..Len(s) /\ j \in 1..Len(s)
            BY <2>2, <3>1, <4>2, <5>2
          <6>2. PICK x \in (m + 1)..(n - 1) : x \in kept /\ s[j] = items[x]
            BY <4>3, <6>1
          <6>3. x \in (m + 1)..n /\ t[j] = s[j]
            BY <4>2, <6>1
          <6> QED BY <6>2, <6>3
        <5> QED BY <5>1, <5>2
      <4> QED BY <4>4, <4>5 DEF t
    <3> QED BY <3>2, <3>3
  <2>4. \A m \in 0..n : m \in 0..(n - 1) \/ m = n
    OBVIOUS
  <2> QED BY <1>2, <2>1, <2>3, <2>4
<1> HIDE DEF T
<1>5. 0..N \subseteq T
  BY <1>1, <1>3, <1>4, RangeInduction
<1> QED BY <1>5 DEF T

--------------------------------------------------------------------------------
(* The pairing of two reports, by induction on how much of the book was read. *)

\* Min of some places is the first of them.
LEMMA MinIsFirst ==
  ASSUME NEW E, E \subseteq Nat, E # {}
  PROVE  Min(E) \in E /\ \A y \in E : Min(E) <= y
<1>1. PICK x \in E : \A y \in E : <<y, x>> \notin Below
  BY BelowIsWellFounded, WFMin, Zenon
<1>2. \A y \in E : x <= y
  <2> SUFFICES ASSUME NEW y \in E PROVE x <= y
    OBVIOUS
  <2>1. x \in Nat /\ y \in Nat /\ <<y, x>> \in Nat \X Nat /\ <<y, x>>[1] = y /\ <<y, x>>[2] = x
    OBVIOUS
  <2>2. ~(y < x)
    BY <1>1, <2>1, Zenon DEF Below
  <2> QED BY <2>1, <2>2
<1> QED BY <1>2 DEF Min

Pairing(S) == [pairs : Seq(S \X S), remaining : Seq(S)]

\* The lines of a report equal to one of another.
EqualTo(lines, line) == {i \in 1..Len(lines) : lines[i] = line}

\* What one turn does: nothing without an equal line, or else spends the lines up to it.
LEMMA MeetFacts ==
  ASSUME NEW S, NEW acc \in Pairing(S), NEW line \in S
  PROVE  /\ EqualTo(acc.remaining, line) = {} => Meet(acc, line) = acc
         /\ EqualTo(acc.remaining, line) # {} =>
              Meet(acc, line) = [pairs |-> Append(acc.pairs, <<line, line>>),
                                 remaining |-> Rest(acc.remaining, Min(EqualTo(acc.remaining, line)))]
         /\ Meet(acc, line) \in Pairing(S)
<1> DEFINE R == acc.remaining
           equal == {i \in 1..Len(R) : R[i] = line}
<1>1. acc.pairs \in Seq(S \X S) /\ R \in Seq(S) /\ Len(R) \in Nat /\ DOMAIN R = 1..Len(R)
  BY DEF Pairing
<1>2. Meet(acc, line) =
        IF equal = {} THEN acc
        ELSE [pairs |-> Append(acc.pairs, <<line, R[Min(equal)]>>),
              remaining |-> SubSeq(R, Min(equal) + 1, Len(R))]
  BY <1>1 DEF Meet
<1>3. ASSUME equal # {}
      PROVE  /\ Min(equal) \in equal
             /\ Meet(acc, line) = [pairs |-> Append(acc.pairs, <<line, line>>),
                                   remaining |-> Rest(R, Min(equal))]
             /\ Meet(acc, line) \in Pairing(S)
  <2>4. equal \subseteq Nat
    BY <1>1
  <2>1. Min(equal) \in equal
    <3> HIDE DEF equal
    <3> QED BY <1>3, <2>4, MinIsFirst
  <2>2. Min(equal) \in 1..Len(R) /\ R[Min(equal)] = line
    BY <2>1
  <2> HIDE DEF equal, R
  <2>3. Meet(acc, line) = [pairs |-> Append(acc.pairs, <<line, line>>), remaining |-> Rest(R, Min(equal))]
    BY <1>2, <1>3, <2>2 DEF Rest
  <2>8. Min(equal) \in 0..Len(R)
    BY <1>1, <2>2
  <2>5. Rest(R, Min(equal)) \in Seq(S)
    BY <1>1, <2>8, RestIs
  <2>6. <<line, line>> \in S \X S
    OBVIOUS
  <2>7. Append(acc.pairs, <<line, line>>) \in Seq(S \X S)
    BY <1>1, <2>6, AppendFacts
  <2> QED BY <2>1, <2>3, <2>5, <2>7 DEF Pairing
<1>4. EqualTo(acc.remaining, line) = equal
  BY DEF EqualTo
<1> HIDE DEF equal
<1> QED BY <1>2, <1>3, <1>4

\* The turns of the pairing of two reports.
Turns(met, S, b, c) ==
  /\ met \in [0..Len(b) -> Pairing(S)]
  /\ met[0] = [pairs |-> <<>>, remaining |-> c]
  /\ \A n \in 1..Len(b) : met[n] = Meet(met[n - 1], b[n])

\* PairLines() is the recursion of Meet() over the baseline.
LEMMA PairLinesReads ==
  ASSUME NEW S, NEW b \in Seq(S), NEW c \in Seq(S)
  PROVE  \E met : Turns(met, S, b, c) /\ PairLines(b, c) = met[Len(b)].pairs
<1> DEFINE N == Len(b)
           D == Pairing(S)
           base == [pairs |-> <<>>, remaining |-> c]
           step == [p \in (1..N) \X D |-> Meet(p[2], b[p[1]])]
           Unfolded(g) == g = [n \in 0..N |-> IF n = 0 THEN base ELSE Meet(g[n - 1], b[n])]
           chosen == CHOOSE g : Unfolded(g)
<1>1. N \in Nat /\ \A n \in 1..N : b[n] \in S
  OBVIOUS
<1>2. base \in D
  <2>1. <<>> \in Seq(S \X S)
    OBVIOUS
  <2> QED BY <2>1 DEF Pairing
<1>3. step \in [(1..N) \X D -> D]
  <2>1. ASSUME NEW p \in (1..N) \X D PROVE Meet(p[2], b[p[1]]) \in D
    <3>1. p[2] \in Pairing(S) /\ b[p[1]] \in S
      BY <1>1
    <3> QED BY <3>1, MeetFacts
  <2> QED BY <2>1
<1> HIDE DEF step, D, base
<1>4. PICK g : Unfolds(g, N, D, base, step)
  BY <1>1, <1>2, <1>3, RecursionExists
<1>5. g \in [0..N -> D] /\ g[0] = base /\ \A n \in 1..N : g[n] = step[<<n, g[n - 1]>>]
  BY <1>4 DEF Unfolds
<1>6. \A n \in 1..N : g[n] = Meet(g[n - 1], b[n])
  <2> SUFFICES ASSUME NEW n \in 1..N PROVE g[n] = Meet(g[n - 1], b[n])
    OBVIOUS
  <2>1. g[n - 1] \in D
    BY <1>1, <1>5
  <2> QED BY <1>5, <2>1 DEF step
<1>7. Unfolded(g)
  <2>1. \A n \in 0..N : g[n] = IF n = 0 THEN base ELSE Meet(g[n - 1], b[n])
    BY <1>1, <1>5, <1>6
  <2>2. g = [n \in 0..N |-> g[n]]
    BY <1>5
  <2> QED BY <2>1, <2>2
<1>8. Unfolded(chosen)
  BY <1>7
<1>9. PairLines(b, c) = chosen[N].pairs
  BY Zenon DEF PairLines, base
<1> HIDE DEF chosen
<1>10. chosen[0] = base
  BY <1>1, <1>8
<1>11. \A n \in 1..N : chosen[n] = Meet(chosen[n - 1], b[n])
  <2> SUFFICES ASSUME NEW n \in 1..N PROVE chosen[n] = Meet(chosen[n - 1], b[n])
    OBVIOUS
  <2>1. n \in 0..N /\ n # 0
    BY <1>1
  <2>2. chosen[n] = IF n = 0 THEN base ELSE Meet(chosen[n - 1], b[n])
    BY <1>8, <2>1
  <2> QED BY <2>1, <2>2
<1>12. \A n \in 0..N : chosen[n] \in D
  <2> DEFINE T == {n \in 0..N : chosen[n] \in D}
  <2>1. 0 \in T
    BY <1>1, <1>2, <1>10
  <2>2. ASSUME NEW n \in 1..N, n - 1 \in T PROVE n \in T
    <3>1. chosen[n - 1] \in Pairing(S) /\ b[n] \in S /\ n \in 0..N
      BY <1>1, <2>2 DEF D
    <3>2. Meet(chosen[n - 1], b[n]) \in Pairing(S)
      BY <3>1, MeetFacts
    <3> QED BY <1>11, <3>1, <3>2 DEF D
  <2> HIDE DEF T
  <2>3. 0..N \subseteq T
    BY <1>1, <2>1, <2>2, RangeInduction
  <2> QED BY <2>3 DEF T
<1>13. chosen \in [0..N -> D]
  BY <1>8, <1>12
<1>14. Turns(chosen, S, b, c)
  BY <1>10, <1>11, <1>13 DEF D, base, Turns
<1> QED BY <1>9, <1>14

Doubled(s) == [n \in DOMAIN s |-> <<s[n], s[n]>>]

\* Each line with itself.
LEMMA DoubledFacts ==
  ASSUME NEW S, NEW s \in Seq(S)
  PROVE  /\ Doubled(s) \in Seq(S \X S) /\ Len(Doubled(s)) = Len(s)
         /\ \A i \in 1..Len(s) : Doubled(s)[i] = <<s[i], s[i]>>
<1>1. DOMAIN s = 1..Len(s) /\ Len(s) \in Nat /\ \A i \in 1..Len(s) : s[i] \in S
  OBVIOUS
<1>2. Doubled(s) = [i \in 1..Len(s) |-> <<s[i], s[i]>>]
  BY <1>1 DEF Doubled
<1>3. \A i \in 1..Len(s) : <<s[i], s[i]>> \in S \X S
  BY <1>1
<1>4. Doubled(s) \in [1..Len(s) -> S \X S]
  BY <1>2, <1>3
<1>5. Doubled(s) \in Seq(S \X S) /\ Len(Doubled(s)) = Len(s)
  BY <1>1, <1>4
<1> QED BY <1>2, <1>5

\* One more line is one more pair.
LEMMA DoubledAppend ==
  ASSUME NEW S, NEW s \in Seq(S), NEW e \in S
  PROVE  Doubled(Append(s, e)) = Append(Doubled(s), <<e, e>>)
<1> DEFINE t == Append(s, e)
           d == Doubled(s)
           p == <<e, e>>
<1>1. t \in Seq(S) /\ Len(t) = Len(s) + 1 /\ Len(s) \in Nat /\ t[Len(s) + 1] = e
      /\ \A i \in 1..Len(s) : t[i] = s[i]
  BY AppendFacts
<1>2. d \in Seq(S \X S) /\ Len(d) = Len(s) /\ \A i \in 1..Len(s) : d[i] = <<s[i], s[i]>>
  BY DoubledFacts
<1>3. p \in S \X S
  OBVIOUS
<1> HIDE DEF t, d
<1>4. /\ Doubled(t) \in Seq(S \X S) /\ Len(Doubled(t)) = Len(t)
      /\ \A i \in 1..Len(t) : Doubled(t)[i] = <<t[i], t[i]>>
  BY <1>1, DoubledFacts
<1> DEFINE a == Append(d, p)
<1> HIDE DEF p
<1>5. a \in Seq(S \X S) /\ Len(a) = Len(d) + 1 /\ a[Len(d) + 1] = p /\ \A i \in 1..Len(d) : a[i] = d[i]
  BY <1>2, <1>3, AppendFacts
<1> HIDE DEF a
<1>6. ASSUME NEW i \in 1..Len(a) PROVE Doubled(t)[i] = a[i]
  <2>1. CASE i = Len(s) + 1
    BY <1>1, <1>2, <1>4, <1>5, <2>1 DEF p
  <2>2. CASE i # Len(s) + 1
    <3>1. i \in 1..Len(s) /\ i \in 1..Len(t) /\ i \in 1..Len(d)
      BY <1>1, <1>2, <1>5, <2>2
    <3> QED BY <1>1, <1>2, <1>4, <1>5, <3>1
  <2> QED BY <2>1, <2>2
<1>7. Doubled(t) = a
  <2>1. Len(a) = Len(Doubled(t))
    BY <1>1, <1>2, <1>4, <1>5
  <2> QED BY <1>4, <1>5, <1>6, <2>1, SeqEqual
<1> QED BY <1>7 DEF t, a, d, p

\* Two selections of one book that agree on equal items pair into what both selected.
LEMMA PairsOfTheCommon ==
  ASSUME NEW S, NEW book \in Seq(S), NEW K1, NEW K2,
         \A x, y \in 1..Len(book) : book[x] = book[y]
                                  => (x \in K1 <=> y \in K1) /\ (x \in K2 <=> y \in K2)
  PROVE  PairLines(Where(book, K1), Where(book, K2)) = Doubled(Where(book, K1 \cap K2))
<1> DEFINE N == Len(book)
           C == K1 \cap K2
<1>1. N \in Nat /\ \A n \in 1..N : book[n] \in S /\ n \in 0..N /\ n - 1 \in 0..N /\ n - 1 \in 0..n
  OBVIOUS
<1>2. PICK g : Sifts(g, S, book, K1) /\ Where(book, K1) = g[N]
  BY WhereReads
<1>3. PICK h : Sifts(h, S, book, K2) /\ Where(book, K2) = h[N]
  BY WhereReads
<1>4. PICK k : Sifts(k, S, book, C) /\ Where(book, C) = k[N]
  BY WhereReads
<1> DEFINE A == g[N]
           B == h[N]
<1>5. \A n \in 0..N : /\ g[n] \in Seq(S) /\ h[n] \in Seq(S) /\ k[n] \in Seq(S)
                      /\ Len(g[n]) \in Nat /\ Len(h[n]) \in Nat
  <2>1. g \in [0..N -> Seq(S)] /\ h \in [0..N -> Seq(S)] /\ k \in [0..N -> Seq(S)]
    BY <1>2, <1>3, <1>4 DEF Sifts
  <2> SUFFICES ASSUME NEW n \in 0..N
               PROVE  /\ g[n] \in Seq(S) /\ h[n] \in Seq(S) /\ k[n] \in Seq(S)
                      /\ Len(g[n]) \in Nat /\ Len(h[n]) \in Nat
    OBVIOUS
  <2>2. g[n] \in Seq(S) /\ h[n] \in Seq(S) /\ k[n] \in Seq(S)
    BY <2>1
  <2> QED BY <2>2
<1>6. \A n \in 0..N : \A m \in 0..n :
        /\ Len(g[m]) <= Len(g[n])
        /\ \A j \in 1..Len(g[m]) : g[n][j] = g[m][j]
  BY <1>2, KeptGrows
<1>7. \A n \in 0..N : \A m \in 0..n :
        /\ Len(h[m]) <= Len(h[n])
        /\ \A j \in 1..Len(h[m]) : h[n][j] = h[m][j]
        /\ \A j \in (Len(h[m]) + 1)..Len(h[n]) : \E x \in (m + 1)..n : x \in K2 /\ h[n][j] = book[x]
  BY <1>3, KeptGrows
<1>8. A \in Seq(S) /\ B \in Seq(S) /\ N \in 0..N /\ Len(A) \in Nat /\ Len(B) \in Nat
  BY <1>1, <1>5
<1> HIDE DEF A, B
<1>15. PICK met : Turns(met, S, A, B) /\ PairLines(A, B) = met[Len(A)].pairs
  BY <1>8, PairLinesReads
<1>9. /\ met \in [0..Len(A) -> Pairing(S)]
      /\ met[0] = [pairs |-> <<>>, remaining |-> B]
      /\ \A n \in 1..Len(A) : met[n] = Meet(met[n - 1], A[n])
      /\ PairLines(A, B) = met[Len(A)].pairs
  BY <1>15 DEF Turns
<1> DEFINE Apart(m, n) == \A x \in (m + 1)..n : x \notin C
           After(n, m) == met[Len(g[n])].remaining = Rest(B, Len(h[m])) /\ Apart(m, n)
           Good(n) == met[Len(g[n])].pairs = Doubled(k[n]) /\ \E m \in 0..n : After(n, m)
           T == {n \in 0..N : Good(n)}
<1>10. \A n \in 0..N : Len(g[n]) \in 0..Len(A) /\ Len(h[n]) \in 0..Len(B)
  <2> SUFFICES ASSUME NEW n \in 0..N PROVE Len(g[n]) \in 0..Len(A) /\ Len(h[n]) \in 0..Len(B)
    OBVIOUS
  <2>1. n \in 0..N /\ N \in 0..N
    BY <1>8
  <2>2. Len(g[n]) <= Len(g[N]) /\ Len(h[n]) <= Len(h[N])
    BY <1>6, <1>7, <2>1
  <2>3. Len(g[n]) \in Nat /\ Len(h[n]) \in Nat
    BY <1>5
  <2> QED BY <1>8, <2>2, <2>3 DEF A, B
<1>11. 0 \in T
  <2>1. g[0] = <<>> /\ h[0] = <<>> /\ k[0] = <<>> /\ Len(<<>>) = 0
    BY <1>2, <1>3, <1>4 DEF Sifts
  <2>2. Rest(B, 0) = B
    BY <1>8, SubSeqFull DEF Rest
  <2>3. Doubled(<<>>) = <<>>
    BY DEF Doubled
  <2>4. 0 \in 0..N /\ 0 \in 0..0 /\ Apart(0, 0)
    BY <1>1
  <2>5. After(0, 0) /\ met[Len(g[0])].pairs = Doubled(k[0])
    BY <1>9, <2>1, <2>2, <2>3, <2>4
  <2> QED BY <2>4, <2>5
<1>12. ASSUME NEW n \in 1..N, n - 1 \in T PROVE n \in T
  <2> DEFINE e == book[n]
             acc == met[Len(g[n - 1])]
             R == acc.remaining
             equal == {i \in 1..Len(R) : R[i] = e}
  <2>1. PICK m \in 0..(n - 1) : After(n - 1, m)
    BY <1>12
  <2>2. acc.pairs = Doubled(k[n - 1]) /\ R = Rest(B, Len(h[m])) /\ Apart(m, n - 1)
    BY <1>12, <2>1
  <2>3. m \in 0..n /\ m \in 0..N /\ n \in 0..N /\ n - 1 \in 0..N /\ e \in S /\ n \in 1..N /\ n - 1 \in 0..n
    BY <1>1
  <2>4. acc \in Pairing(S)
    BY <1>9, <1>10, <2>3
  <2> DEFINE c == Len(h[m])
  <2>5. c \in 0..Len(B) /\ Len(R) = Len(B) - c /\ R \in Seq(S) /\ c \in Nat
        /\ \A i \in 1..(Len(B) - c) : R[i] = B[c + i]
    <3>1. c \in 0..Len(B) /\ c \in Nat
      BY <1>8, <1>10, <2>3
    <3>2. /\ Rest(B, c) \in Seq(S) /\ Len(Rest(B, c)) = Len(B) - c
          /\ \A i \in 1..(Len(B) - c) : Rest(B, c)[i] = B[c + i]
      BY <1>8, <3>1, RestIs
    <3> HIDE DEF c
    <3>3. R = Rest(B, c)
      BY <2>2 DEF c
    <3> HIDE DEF R
    <3> QED BY <3>1, <3>2, <3>3
  <2>11. /\ equal = {} => Meet(acc, e) = acc
         /\ equal # {} => Meet(acc, e) = [pairs |-> Append(acc.pairs, <<e, e>>),
                                             remaining |-> Rest(R, Min(equal))]
    <3>1. equal = EqualTo(acc.remaining, e)
      BY DEF EqualTo, R
    <3> HIDE DEF equal
    <3> QED BY <2>3, <2>4, <3>1, MeetFacts DEF R
  <2> HIDE DEF acc, e, R, c
  <2>6. /\ n \in K1 => g[n] = Append(g[n - 1], e)
        /\ n \notin K1 => g[n] = g[n - 1]
        /\ n \in K2 => h[n] = Append(h[n - 1], e)
        /\ n \in C => k[n] = Append(k[n - 1], e)
        /\ n \notin C => k[n] = k[n - 1]
    BY <1>2, <1>3, <1>4 DEF Sifts, e
  <2>7. ASSUME n \in K1
        PROVE  met[Len(g[n])] = Meet(acc, e)
    <3>1. Len(g[n]) = Len(g[n - 1]) + 1 /\ g[n][Len(g[n - 1]) + 1] = e /\ Len(g[n - 1]) \in Nat
      BY <1>5, <2>3, <2>6, <2>7, AppendFacts
    <3> DEFINE j == Len(g[n])
    <3>2. j \in 1..j /\ j \in 1..Len(A) /\ j - 1 = Len(g[n - 1])
      BY <1>10, <2>3, <3>1
    <3>3. A[j] = g[n][j]
      <4>1. n \in 0..N /\ N \in 0..N
        BY <1>8, <2>3
      <4> HIDE DEF j
      <4> QED BY <1>6, <3>2, <4>1 DEF A, j
    <3>4. A[j] = e
      BY <3>1, <3>3
    <3> QED BY <1>9, <3>2, <3>4 DEF acc
  <2>8. CASE n \notin K1
    <3>1. met[Len(g[n])] = acc /\ k[n] = k[n - 1] /\ n \notin C
      BY <2>6, <2>8 DEF acc
    <3>2. Apart(m, n)
      BY <2>2, <3>1
    <3> QED BY <2>2, <2>3, <3>1, <3>2 DEF R, c
  <2>9. CASE n \in K1 /\ n \notin K2
    <3>1. equal = {}
      <4> SUFFICES ASSUME NEW i \in 1..Len(R), R[i] = e PROVE FALSE
        OBVIOUS
      <4>1. R[i] = B[c + i] /\ c + i \in (c + 1)..Len(B)
        BY <1>8, <2>5
      <4>2. PICK x \in (m + 1)..N : x \in K2 /\ B[c + i] = book[x]
        BY <1>7, <1>8, <2>3, <4>1 DEF B, c
      <4>3. x \in 1..N /\ book[x] = book[n]
        BY <2>3, <4>1, <4>2 DEF e
      <4> QED BY <2>3, <2>9, <4>2, <4>3
    <3>2. met[Len(g[n])] = acc
      BY <2>7, <2>9, <2>11, <3>1
    <3>3. n \notin C /\ k[n] = k[n - 1]
      BY <2>6, <2>9
    <3>4. Apart(m, n)
      BY <2>2, <3>3
    <3> QED BY <2>2, <2>3, <3>2, <3>3, <3>4 DEF R, c
  <2>10. CASE n \in K1 /\ n \in K2
    <3> DEFINE p == Len(h[n - 1])
               f == p + 1 - c
    <3>1. h[n - 1] \in Seq(S) /\ p \in Nat /\ h[n] = Append(h[n - 1], e)
      BY <1>5, <2>3, <2>6, <2>10
    <3>2. Len(h[n]) = p + 1 /\ h[n][p + 1] = e
      BY <2>3, <3>1, AppendFacts
    <3>3. c <= p
      BY <1>7, <2>3 DEF c
    <3>4. p + 1 <= Len(B) /\ p + 1 \in 1..Len(h[n])
      BY <1>10, <2>3, <3>1, <3>2
    <3>5. B[p + 1] = e
      BY <1>7, <1>8, <2>3, <3>2, <3>4 DEF B
    <3>6. f \in 1..Len(R) /\ c + f = p + 1
      BY <1>8, <2>5, <3>1, <3>3, <3>4
    <3>7. f \in equal
      BY <2>5, <3>5, <3>6
    <3>8. ASSUME NEW i \in equal, i < f PROVE FALSE
      <4>1. i \in 1..Len(R) /\ R[i] = e /\ R[i] = B[c + i]
        BY <2>5
      <4>2. c + i \in (c + 1)..p /\ c + i \in 1..p
        BY <2>5, <3>1, <3>8, <4>1
      <4>3. B[c + i] = h[n - 1][c + i]
        BY <1>7, <1>8, <2>3, <4>2 DEF B
      <4>4. PICK x \in (m + 1)..(n - 1) : x \in K2 /\ h[n - 1][c + i] = book[x]
        BY <1>7, <2>3, <4>2 DEF c
      <4>5. x \in 1..N /\ x \notin C /\ book[x] = book[n]
        BY <2>2, <2>3, <4>1, <4>3, <4>4 DEF e
      <4> QED BY <2>3, <2>10, <4>4, <4>5
    <3>9. Min(equal) = f
      <4>1. equal \subseteq Nat /\ equal # {}
        BY <3>7
      <4>2. Min(equal) \in equal /\ \A y \in equal : Min(equal) <= y
        BY <4>1, MinIsFirst
      <4>3. Min(equal) \in Nat /\ f \in Nat
        BY <3>6, <4>1, <4>2
      <4>4. Min(equal) <= f /\ ~(Min(equal) < f)
        BY <3>7, <3>8, <4>2
      <4> QED BY <4>3, <4>4
    <3>10. met[Len(g[n])] = [pairs |-> Append(acc.pairs, <<e, e>>), remaining |-> Rest(R, f)]
      BY <2>7, <2>10, <2>11, <3>7, <3>9
    <3>11. Rest(R, f) = Rest(B, Len(h[n]))
      <4>1. f \in 0..(Len(B) - c)
        BY <2>5, <3>6
      <4>2. Rest(Rest(B, c), f) = Rest(B, c + f)
        BY <1>8, <2>5, <4>1, RestOfRest
      <4> QED BY <2>2, <3>2, <3>6, <4>2 DEF c, R
    <3>12. Append(acc.pairs, <<e, e>>) = Doubled(k[n])
      <4>1. n \in C /\ k[n] = Append(k[n - 1], e) /\ k[n - 1] \in Seq(S)
        BY <1>5, <2>3, <2>6, <2>10
      <4> QED BY <2>2, <2>3, <4>1, DoubledAppend
    <3>13. Apart(n, n) /\ n \in 0..n
      BY <2>3
    <3>14. met[Len(g[n])].remaining = Rest(B, Len(h[n])) /\ met[Len(g[n])].pairs = Doubled(k[n])
      BY <3>10, <3>11, <3>12
    <3>15. After(n, n)
      BY <3>13, <3>14
    <3>16. Good(n)
      BY <3>13, <3>14, <3>15
    <3> HIDE DEF Good
    <3> QED BY <2>3, <3>16
  <2> QED BY <2>8, <2>9, <2>10
<1> HIDE DEF T
<1>13. N \in T
  BY <1>1, <1>11, <1>12, PrefixInduction
<1>14. met[Len(A)].pairs = Doubled(k[N])
  BY <1>13 DEF T, A
<1> QED BY <1>2, <1>3, <1>4, <1>9, <1>14 DEF A, B

\* The reports of two producers are paired over exactly what both value, whatever the book and
\* the two instants.
THEOREM PairsAreTheCommon == RulesSpec => []PairsAreTheCommonBook
<1>1. ASSUME input \in Inputs PROVE PairsAreTheCommonBook
  <2> SUFFICES ASSUME input.rule = "pairs" PROVE PairsAreTheCommonBook
    BY DEF PairsAreTheCommonBook
  <2>1. input.book \in Seq(Position) /\ input.at \in Int \X Int
    <3>1. RuleInputs(input)
      BY <1>1, RulesAssumption
    <3> QED BY <3>1 DEF RuleInputs
  <2> DEFINE book == input.book
             View(at) == [instant |-> at]
             K(i) == {n \in DOMAIN book : book[n].expiry > input.at[i]}
             b == ReportOn(View(input.at[1]), book, input.verdict[1])
             c == ReportOn(View(input.at[2]), book, input.verdict[2])
             common == Where(book, {n \in DOMAIN book : \A i \in 1..2 : book[n].expiry > input.at[i]})
  <2>2. Value(View(input.at[1]), book) = Where(book, K(1))
        /\ Value(View(input.at[2]), book) = Where(book, K(2))
    BY DEF Value, Alive
  <2>3. {n \in DOMAIN book : \A i \in 1..2 : book[n].expiry > input.at[i]} = K(1) \cap K(2)
    OBVIOUS
  <2>4. common = Where(book, K(1) \cap K(2))
    BY <2>3
  <2> SUFFICES Compare(b, c) = IF Comparable(b, c) THEN Doubled(common) ELSE <<>>
    BY Zenon DEF PairsAreTheCommonBook, Doubled
  <2> SUFFICES ASSUME Comparable(b, c) PROVE PairLines(b.lines, c.lines) = Doubled(common)
    BY DEF Compare
  <2>5. b.lines = Where(book, K(1)) /\ c.lines = Where(book, K(2))
    <3> HIDE DEF K, book
    <3> QED BY <2>2 DEF Comparable, ReportOn
  <2>6. \A x, y \in 1..Len(book) : book[x] = book[y]
                                  => (x \in K(1) <=> y \in K(1)) /\ (x \in K(2) <=> y \in K(2))
    BY <2>1
  <2> HIDE DEF K, book, b, c, common
  <2>7. book \in Seq(Position)
    BY <2>1 DEF book
  <2> QED BY <2>4, <2>5, <2>6, <2>7, PairsOfTheCommon
<1> QED BY <1>1, DrawnOnce, PTL

--------------------------------------------------------------------------------
(* Neighbours tell of every pair and triple of a slice: of the arbitrages  *)
(* there are, one spans the least.                                         *)

\* By how much a price moves the wrong way between two strikes.
Gap(prices, rises, low, high) ==
  IF rises THEN prices[low] - prices[high] ELSE prices[high] - prices[low]

\* Two strikes out of order have two neighbours between them out of order.
LEMMA SpreadsOfNeighbours ==
  ASSUME NEW prices, IsCurve(prices), NEW rises \in BOOLEAN,
         NEW a \in DOMAIN prices, NEW b \in DOMAIN prices, a < b, Gap(prices, rises, a, b) > 0
  PROVE  BreaksMonotonicity(prices, rises)
<1> DEFINE C == DOMAIN prices
           Bad(x, y) == x < y /\ Gap(prices, rises, x, y) > 0
           E == {n \in Nat : \E x, y \in C : Bad(x, y) /\ n = y - x}
<1>1. C \subseteq Int /\ \A k \in C : prices[k] \in Int
  BY DEF IsCurve
<1>2. b - a \in E
  BY <1>1
<1> DEFINE n == Min(E)
<1>3. n \in E /\ \A m \in E : n <= m
  <2>1. E \subseteq Nat /\ E # {}
    BY <1>2
  <2> HIDE DEF E
  <2> QED BY <2>1, MinIsFirst
<1> HIDE DEF n
<1>4. PICK x \in C, y \in C : Bad(x, y) /\ n = y - x
  BY <1>3
<1>5. ASSUME NEW k \in C, x < k, k < y PROVE FALSE
  <2>1. x \in Int /\ y \in Int /\ k \in Int /\ prices[x] \in Int /\ prices[y] \in Int /\ prices[k] \in Int
    BY <1>1
  <2>2. Gap(prices, rises, x, y) = Gap(prices, rises, x, k) + Gap(prices, rises, k, y)
        /\ Gap(prices, rises, x, k) \in Int /\ Gap(prices, rises, k, y) \in Int
    BY <2>1 DEF Gap
  <2>3. Gap(prices, rises, x, k) > 0 \/ Gap(prices, rises, k, y) > 0
    BY <1>4, <2>2
  <2>4. CASE Gap(prices, rises, x, k) > 0
    <3>1. k - x \in E
      BY <1>5, <2>1, <2>4
    <3> QED BY <1>3, <1>4, <1>5, <2>1, <3>1
  <2>5. CASE Gap(prices, rises, k, y) > 0
    <3>1. y - k \in E
      BY <1>5, <2>1, <2>5
    <3> QED BY <1>3, <1>4, <1>5, <2>1, <3>1
  <2> QED BY <2>3, <2>4, <2>5
<1>6. Neighbours(prices, x, y)
  BY <1>1, <1>4, <1>5 DEF Neighbours
<1>7. IF rises THEN prices[x] > prices[y] ELSE prices[x] < prices[y]
  BY <1>1, <1>4 DEF Gap
<1> QED BY <1>6, <1>7 DEF BreaksMonotonicity

\* A butterfly over four strikes is made of the two that share an inner one.
LEMMA ButterfliesAdd ==
  ASSUME NEW x \in Int, NEW y \in Int, NEW z \in Int,
         NEW p \in Int, NEW q \in Int, NEW r \in Int, NEW s \in Int
  PROVE  /\ y * (z * p + (x + y) * s - (x + y + z) * r)
              = z * (y * p + x * r - (x + y) * q) + (x + y) * (z * q + y * s - (y + z) * r)
         /\ y * ((y + z) * p + x * s - (x + y + z) * q)
              = (y + z) * (y * p + x * r - (x + y) * q) + x * (z * q + y * s - (y + z) * r)
OBVIOUS

\* Of two numbers whose sum, weighted by positive numbers, is negative, one is.
LEMMA SignOfAProduct ==
  ASSUME NEW y \in Int, y > 0, NEW v \in Int, NEW g \in Int, g > 0, NEW h \in Int, h > 0,
         NEW s \in Int, NEW t \in Int, y * v = g * s + h * t, v < 0
  PROVE  s < 0 \/ t < 0
<1>1. y * v < 0
  OBVIOUS
<1>2. s >= 0 => g * s >= 0
  OBVIOUS
<1>3. t >= 0 => h * t >= 0
  OBVIOUS
<1>4. g * s \in Int /\ h * t \in Int /\ y * v \in Int
  OBVIOUS
<1> QED BY <1>1, <1>2, <1>3, <1>4

\* Three strikes that bend the wrong way have three neighbours among them that do.
LEMMA ButterfliesOfNeighbours ==
  ASSUME NEW prices, IsCurve(prices),
         NEW a \in DOMAIN prices, NEW b \in DOMAIN prices, NEW c \in DOMAIN prices,
         a < b, b < c, Butterfly(prices, a, b, c) < 0
  PROVE  BreaksConvexity(prices, 0)
<1> DEFINE C == DOMAIN prices
           Bad(x, y, z) == x < y /\ y < z /\ Butterfly(prices, x, y, z) < 0
           E == {n \in Nat : \E x, y, z \in C : Bad(x, y, z) /\ n = z - x}
<1>1. C \subseteq Int /\ \A k \in C : prices[k] \in Int
  BY DEF IsCurve
<1>2. c - a \in E
  BY <1>1
<1> DEFINE n == Min(E)
<1>3. n \in E /\ \A m \in E : n <= m
  <2>1. E \subseteq Nat /\ E # {}
    BY <1>2
  <2> HIDE DEF E
  <2> QED BY <2>1, MinIsFirst
<1> HIDE DEF n
<1>4. PICK x \in C, y \in C, z \in C : Bad(x, y, z) /\ n = z - x
  BY <1>3
<1>5. x \in Int /\ y \in Int /\ z \in Int /\ prices[x] \in Int /\ prices[y] \in Int /\ prices[z] \in Int
  BY <1>1
<1>6. ASSUME NEW k \in C, x < k, k < y PROVE FALSE
  <2>1. k \in Int /\ prices[k] \in Int
    BY <1>1
  <2> DEFINE u == k - x
             v == y - k
             w == z - y
             fx == prices[x]
             fk == prices[k]
             fy == prices[y]
             fz == prices[z]
             left == v * fx + u * fy - (u + v) * fk
             right == w * fk + v * fz - (v + w) * fy
             whole == w * fx + (u + v) * fz - (u + v + w) * fy
  <2>2. u \in Int /\ v \in Int /\ w \in Int /\ u > 0 /\ v > 0 /\ w > 0 /\ u + v > 0
        /\ fx \in Int /\ fk \in Int /\ fy \in Int /\ fz \in Int
    BY <1>4, <1>5, <1>6, <2>1
  <2>3. u + v = y - x /\ v + w = z - k /\ u + v + w = z - x
    BY <1>5, <2>1
  <2>4. left = Butterfly(prices, x, k, y) /\ right = Butterfly(prices, k, y, z)
        /\ whole = Butterfly(prices, x, y, z)
    BY <2>3 DEF Butterfly
  <2> HIDE DEF u, v, w, fx, fk, fy, fz
  <2>5. v * whole = w * left + (u + v) * right
    BY <2>2, ButterfliesAdd
  <2>6. left \in Int /\ right \in Int /\ whole \in Int
    BY <2>2
  <2>7. u + v \in Int /\ whole < 0
    BY <1>4, <2>2, <2>4
  <2> HIDE DEF left, right, whole
  <2>8. left < 0 \/ right < 0
    BY <2>2, <2>5, <2>6, <2>7, SignOfAProduct
  <2>9. CASE left < 0
    <3>1. Bad(x, k, y) /\ y - x \in Nat
      BY <1>4, <1>5, <1>6, <2>1, <2>4, <2>9
    <3>2. y - x \in E
      BY <3>1
    <3> QED BY <1>3, <1>4, <1>5, <3>2
  <2>10. CASE right < 0
    <3>1. Bad(k, y, z) /\ z - k \in Nat
      BY <1>4, <1>5, <1>6, <2>1, <2>4, <2>10
    <3>2. z - k \in E
      BY <3>1
    <3> QED BY <1>3, <1>4, <1>5, <1>6, <2>1, <3>2
  <2> QED BY <2>8, <2>9, <2>10
<1>7. ASSUME NEW k \in C, y < k, k < z PROVE FALSE
  <2>1. k \in Int /\ prices[k] \in Int
    BY <1>1
  <2> DEFINE u == y - x
             v == k - y
             w == z - k
             fx == prices[x]
             fk == prices[k]
             fy == prices[y]
             fz == prices[z]
             left == v * fx + u * fk - (u + v) * fy
             right == w * fy + v * fz - (v + w) * fk
             whole == (v + w) * fx + u * fz - (u + v + w) * fy
  <2>2. u \in Int /\ v \in Int /\ w \in Int /\ u > 0 /\ v > 0 /\ w > 0 /\ v + w > 0
        /\ fx \in Int /\ fk \in Int /\ fy \in Int /\ fz \in Int
    BY <1>4, <1>5, <1>7, <2>1
  <2>3. u + v = k - x /\ v + w = z - y /\ u + v + w = z - x
    BY <1>5, <2>1
  <2>4. left = Butterfly(prices, x, y, k) /\ right = Butterfly(prices, y, k, z)
        /\ whole = Butterfly(prices, x, y, z)
    BY <2>3 DEF Butterfly
  <2> HIDE DEF u, v, w, fx, fk, fy, fz
  <2>5. v * whole = (v + w) * left + u * right
    BY <2>2
  <2>6. left \in Int /\ right \in Int /\ whole \in Int
    BY <2>2
  <2>7. v + w \in Int /\ whole < 0
    BY <1>4, <2>2, <2>4
  <2> HIDE DEF left, right, whole
  <2>8. left < 0 \/ right < 0
    BY <2>2, <2>5, <2>6, <2>7, SignOfAProduct
  <2>9. CASE left < 0
    <3>1. Bad(x, y, k) /\ k - x \in Nat
      BY <1>4, <1>5, <1>7, <2>1, <2>4, <2>9
    <3>2. k - x \in E
      BY <3>1
    <3> QED BY <1>3, <1>4, <1>5, <1>7, <2>1, <3>2
  <2>10. CASE right < 0
    <3>1. Bad(y, k, z) /\ z - y \in Nat
      BY <1>4, <1>5, <1>7, <2>1, <2>4, <2>10
    <3>2. z - y \in E
      BY <3>1
    <3> QED BY <1>3, <1>4, <1>5, <3>2
  <2> QED BY <2>8, <2>9, <2>10
<1>8. Neighbours(prices, x, y) /\ Neighbours(prices, y, z)
  BY <1>1, <1>4, <1>6, <1>7 DEF Neighbours
<1>9. (prices[y] - 0) * (z - x) > (z - y) * prices[x] + (y - x) * prices[z]
  <2>1. Butterfly(prices, x, y, z) < 0
    BY <1>4
  <2>2. (z - x) * prices[y] = (prices[y] - 0) * (z - x)
    BY <1>5
  <2> QED BY <1>5, <2>1, <2>2 DEF Butterfly
<1> QED BY <1>8, <1>9 DEF BreaksConvexity

\* And neighbours are two or three strikes themselves.
LEMMA FlagsOfACurve ==
  ASSUME NEW prices, IsCurve(prices)
  PROVE  /\ BreaksMonotonicity(prices, FALSE)
              <=> \E a, b \in DOMAIN prices : a < b /\ Spread(prices, a, b) < 0
         /\ BreaksMonotonicity(prices, TRUE)
              <=> \E a, b \in DOMAIN prices : a < b /\ Spread(prices, a, b) > 0
         /\ BreaksConvexity(prices, 0)
              <=> \E a, b, c \in DOMAIN prices : a < b /\ b < c /\ Butterfly(prices, a, b, c) < 0
<1> DEFINE C == DOMAIN prices
<1>1. C \subseteq Int /\ \A k \in C : prices[k] \in Int
  BY DEF IsCurve
<1>2. ASSUME NEW a \in C, NEW b \in C, a < b
      PROVE  /\ Spread(prices, a, b) < 0 => BreaksMonotonicity(prices, FALSE)
             /\ Spread(prices, a, b) > 0 => BreaksMonotonicity(prices, TRUE)
  <2>1. Spread(prices, a, b) < 0 => Gap(prices, FALSE, a, b) > 0
    BY <1>1 DEF Spread, Gap
  <2>2. Spread(prices, a, b) > 0 => Gap(prices, TRUE, a, b) > 0
    BY <1>1 DEF Spread, Gap
  <2> QED BY <1>2, <2>1, <2>2, SpreadsOfNeighbours
<1>3. ASSUME NEW low \in C, NEW high \in C, Neighbours(prices, low, high)
      PROVE  /\ low < high
             /\ prices[low] > prices[high] => Spread(prices, low, high) > 0
             /\ prices[low] < prices[high] => Spread(prices, low, high) < 0
  BY <1>1, <1>3 DEF Spread, Neighbours
<1>4. ASSUME NEW low \in C, NEW mid \in C, NEW high \in C,
             (prices[mid] - 0) * (high - low)
                        > (high - mid) * prices[low] + (mid - low) * prices[high]
      PROVE  Butterfly(prices, low, mid, high) < 0
  <2>1. low \in Int /\ mid \in Int /\ high \in Int
        /\ prices[low] \in Int /\ prices[mid] \in Int /\ prices[high] \in Int
    BY <1>1
  <2>2. (high - low) * prices[mid] = (prices[mid] - 0) * (high - low)
    BY <2>1
  <2> QED BY <1>4, <2>1, <2>2 DEF Butterfly
<1>5. BreaksConvexity(prices, 0) =>
        \E a, b, c \in C : a < b /\ b < c /\ Butterfly(prices, a, b, c) < 0
  <2> SUFFICES ASSUME NEW low \in C, NEW mid \in C, NEW high \in C,
                      Neighbours(prices, low, mid), Neighbours(prices, mid, high),
                      (prices[mid] - 0) * (high - low)
                        > (high - mid) * prices[low] + (mid - low) * prices[high]
               PROVE  low < mid /\ mid < high /\ Butterfly(prices, low, mid, high) < 0
    BY DEF BreaksConvexity
  <2> QED BY <1>3, <1>4
<1>6. (\E a, b, c \in C : a < b /\ b < c /\ Butterfly(prices, a, b, c) < 0) => BreaksConvexity(prices, 0)
  BY ButterfliesOfNeighbours
<1>7. BreaksMonotonicity(prices, FALSE) <=> \E a, b \in C : a < b /\ Spread(prices, a, b) < 0
  BY <1>2, <1>3 DEF BreaksMonotonicity
<1>8. BreaksMonotonicity(prices, TRUE) <=> \E a, b \in C : a < b /\ Spread(prices, a, b) > 0
  BY <1>2, <1>3 DEF BreaksMonotonicity
<1> QED BY <1>5, <1>6, <1>7, <1>8

\* Of any slice, the flags computed on neighbours are those of every pair and triple of its
\* strikes (flag_slice).
THEOREM NeighboursTellOfAll ==
  ASSUME NEW slice, IsCurve(slice.calls), IsCurve(slice.puts)
  PROVE  FlagSlice(slice, 0) = SliceArbitrage(slice)
<1>1. /\ BreaksMonotonicity(slice.calls, FALSE)
           <=> \E a, b \in DOMAIN slice.calls : a < b /\ Spread(slice.calls, a, b) < 0
      /\ BreaksMonotonicity(slice.puts, TRUE)
           <=> \E a, b \in DOMAIN slice.puts : a < b /\ Spread(slice.puts, a, b) > 0
      /\ BreaksConvexity(slice.calls, 0)
           <=> \E a, b, c \in DOMAIN slice.calls : a < b /\ b < c /\ Butterfly(slice.calls, a, b, c) < 0
      /\ BreaksConvexity(slice.puts, 0)
           <=> \E a, b, c \in DOMAIN slice.puts : a < b /\ b < c /\ Butterfly(slice.puts, a, b, c) < 0
  BY FlagsOfACurve
<1> QED BY <1>1, Zenon DEF FlagSlice, SliceArbitrage

--------------------------------------------------------------------------------
(* Sequences of sequences, and sorted sets.                                *)

\* What concatenation does, place by place.
LEMMA ConcatFacts ==
  ASSUME NEW S, NEW s \in Seq(S), NEW t \in Seq(S)
  PROVE  /\ s \o t \in Seq(S) /\ Len(s \o t) = Len(s) + Len(t)
         /\ \A n \in 1..Len(s) : (s \o t)[n] = s[n]
         /\ \A n \in 1..Len(t) : (s \o t)[Len(s) + n] = t[n]
BY ConcatProperties

\* Every item of the whole is one of a part's, and the first part's first comes first.
Gathers(whole, parts) ==
  /\ \A n \in DOMAIN whole : \E i \in DOMAIN parts : \E j \in DOMAIN parts[i] : whole[n] = parts[i][j]
  /\ parts[1] # <<>> => whole # <<>> /\ whole[1] = parts[1][1]

\* FlattenSeq() has each item of each part, and nothing else.
LEMMA FlattenGathers ==
  ASSUME NEW S, NEW parts \in Seq(Seq(S)), parts # <<>>
  PROVE  FlattenSeq(parts) \in Seq(S) /\ Gathers(FlattenSeq(parts), parts)
<1> DEFINE N == Len(parts)
           M == N - 1
           D == Seq(S)
           base == parts[1]
           step == [p \in (1..M) \X D |-> p[2] \o parts[p[1] + 1]]
           Unfolded(g) == g = [i \in 1..N |-> IF i = 1 THEN parts[i] ELSE g[i - 1] \o parts[i]]
           chosen == CHOOSE g : Unfolded(g)
<1>1. N \in Nat /\ N >= 1 /\ M \in Nat /\ N # 0 /\ \A i \in 1..N : parts[i] \in Seq(S)
  OBVIOUS
<1>2. base \in D
  BY <1>1
<1>3. step \in [(1..M) \X D -> D]
  <2>1. ASSUME NEW p \in (1..M) \X D PROVE p[2] \o parts[p[1] + 1] \in D
    <3>1. p[2] \in Seq(S) /\ p[1] + 1 \in 1..N
      BY <1>1
    <3>2. parts[p[1] + 1] \in Seq(S)
      BY <1>1, <3>1
    <3> QED BY <3>1, <3>2, ConcatFacts
  <2> QED BY <2>1
<1> HIDE DEF step, D, base
<1>4. PICK f : Unfolds(f, M, D, base, step)
  BY <1>1, <1>2, <1>3, RecursionExists
<1>5. f \in [0..M -> D] /\ f[0] = base /\ \A n \in 1..M : f[n] = step[<<n, f[n - 1]>>]
  BY <1>4 DEF Unfolds
<1> DEFINE g == [i \in 1..N |-> f[i - 1]]
<1>6. ASSUME NEW i \in 1..N
      PROVE  g[i] = IF i = 1 THEN parts[i] ELSE g[i - 1] \o parts[i]
  <2>1. CASE i = 1
    BY <1>1, <1>5, <2>1 DEF base
  <2>2. CASE i # 1
    <3>1. i - 1 \in 1..M /\ i - 1 \in 1..N /\ (i - 1) - 1 \in 0..M /\ (i - 1) + 1 = i
      BY <1>1, <2>2
    <3>2. f[(i - 1) - 1] \in D
      BY <1>5, <3>1
    <3>3. f[i - 1] = step[<<i - 1, f[(i - 1) - 1]>>] /\ <<i - 1, f[(i - 1) - 1]>> \in (1..M) \X D
      BY <1>5, <3>1, <3>2
    <3>4. f[i - 1] = f[(i - 1) - 1] \o parts[i]
      BY <3>1, <3>3 DEF step
    <3> QED BY <2>2, <3>1, <3>4
  <2> QED BY <2>1, <2>2
<1>7. Unfolded(g)
  <2>1. g = [i \in 1..N |-> g[i]]
    OBVIOUS
  <2> HIDE DEF g
  <2> QED BY <1>6, <2>1
<1> HIDE DEF g
<1>8. Unfolded(chosen)
  BY <1>7
<1>9. FlattenSeq(parts) = chosen[N]
  BY <1>1, Zenon DEF FlattenSeq
<1> HIDE DEF chosen
<1> DEFINE Part(i) == chosen[i] \in Seq(S) /\ Gathers(chosen[i], parts)
           T == {n \in 0..M : Part(n + 1)}
<1>10. 0 \in T
  <2>1. chosen[1] = parts[1]
    BY <1>1, <1>8
  <2>2. Part(1)
    BY <1>1, <2>1 DEF Gathers
  <2> QED BY <1>1, <2>2
<1>11. ASSUME NEW n \in 1..M, n - 1 \in T PROVE n \in T
  <2>1. n + 1 \in 1..N /\ n + 1 # 1 /\ (n + 1) - 1 = n /\ n \in 1..N /\ (n - 1) + 1 = n /\ n \in 0..M
    BY <1>1
  <2>2. chosen[n + 1] = chosen[n] \o parts[n + 1]
    BY <1>8, <2>1
  <2>3. chosen[n] \in Seq(S) /\ Gathers(chosen[n], parts) /\ parts[n + 1] \in Seq(S)
    BY <1>1, <1>11, <2>1
  <2> DEFINE s == chosen[n]
             t == parts[n + 1]
             w == chosen[n + 1]
  <2>9. w = s \o t /\ s \in Seq(S) /\ t \in Seq(S) /\ Gathers(s, parts)
    BY <2>2, <2>3
  <2> HIDE DEF s, t, w
  <2>4. /\ w \in Seq(S) /\ Len(w) = Len(s) + Len(t)
        /\ \A k \in 1..Len(s) : w[k] = s[k]
        /\ \A k \in 1..Len(t) : w[Len(s) + k] = t[k]
    BY <2>9, ConcatFacts
  <2>5. Len(s) \in Nat /\ Len(t) \in Nat
        /\ DOMAIN w = 1..Len(w) /\ DOMAIN s = 1..Len(s) /\ DOMAIN t = 1..Len(t)
    BY <2>4, <2>9
  <2>6. ASSUME NEW k \in DOMAIN w
        PROVE  \E i \in DOMAIN parts : \E j \in DOMAIN parts[i] : w[k] = parts[i][j]
    <3>1. CASE k \in 1..Len(s)
      BY <2>4, <2>5, <2>9, <3>1 DEF Gathers
    <3>2. CASE k \notin 1..Len(s)
      <4>1. k - Len(s) \in DOMAIN t /\ w[k] = t[k - Len(s)]
        <5>1. k - Len(s) \in 1..Len(t) /\ Len(s) + (k - Len(s)) = k
          BY <2>4, <2>5, <3>2
        <5> QED BY <2>4, <2>5, <5>1
      <4>2. n + 1 \in DOMAIN parts
        BY <2>1
      <4> QED BY <4>1, <4>2 DEF t
    <3> QED BY <3>1, <3>2
  <2>7. parts[1] # <<>> => w # <<>> /\ w[1] = parts[1][1]
    <3> SUFFICES ASSUME parts[1] # <<>> PROVE w # <<>> /\ w[1] = parts[1][1]
      OBVIOUS
    <3>1. s # <<>> /\ s[1] = parts[1][1]
      BY <2>9 DEF Gathers
    <3>2. Len(s) >= 1
      BY <2>9, <3>1
    <3> QED BY <2>4, <2>5, <3>1, <3>2
  <2>8. Gathers(w, parts)
    BY <2>6, <2>7 DEF Gathers
  <2> QED BY <2>1, <2>4, <2>8 DEF w
<1> HIDE DEF T
<1>12. M \in T
  BY <1>1, <1>10, <1>11, PrefixInduction
<1>13. M + 1 = N
  BY <1>1
<1> QED BY <1>9, <1>12, <1>13 DEF T

\* A finite set of numbers has a greatest.
HasTop(S) == \E x \in S : \A y \in S : y <= x

\* Finitely many numbers have a largest.
LEMMA FiniteHasTop ==
  ASSUME NEW S \in SUBSET Int, IsFiniteSet(S), S # {}
  PROVE  HasTop(S)
<1> DEFINE N == Cardinality(S)
           T == {n \in 0..N : \A U \in SUBSET Int :
                                IsFiniteSet(U) /\ Cardinality(U) = n /\ U # {} => HasTop(U)}
<1>1. N \in Nat
  BY FS_CardinalityType
<1>2. 0 \in T
  BY <1>1, FS_EmptySet
<1>3. ASSUME NEW n \in 1..N, n - 1 \in T PROVE n \in T
  <2> SUFFICES ASSUME NEW U \in SUBSET Int, IsFiniteSet(U), Cardinality(U) = n, U # {}
               PROVE  HasTop(U)
    BY <1>1
  <2>1. PICK x \in U : TRUE
    OBVIOUS
  <2> DEFINE V == U \ {x}
  <2>2. IsFiniteSet(V) /\ Cardinality(V) = n - 1 /\ V \in SUBSET Int
    BY <2>1, FS_RemoveElement
  <2>3. V # {} => HasTop(V)
    BY <1>3, <2>2
  <2>4. CASE V = {}
    BY <2>1, <2>4 DEF HasTop
  <2>5. CASE V # {}
    <3>1. PICK z \in V : \A y \in V : y <= z
      BY <2>3, <2>5 DEF HasTop
    <3>2. x \in Int /\ z \in Int /\ \A y \in U : y \in Int /\ (y = x \/ y \in V)
      BY <2>1
    <3>3. CASE x <= z
      BY <3>1, <3>2, <3>3 DEF HasTop
    <3>4. CASE ~(x <= z)
      BY <2>1, <3>1, <3>2, <3>4 DEF HasTop
    <3> QED BY <3>3, <3>4
  <2> QED BY <2>4, <2>5
<1> HIDE DEF T
<1>4. N \in T
  BY <1>1, <1>2, <1>3, PrefixInduction
<1> QED BY <1>4 DEF T

Increases(s, S) ==
  /\ s \in [1..Cardinality(S) -> S]
  /\ \A i, j \in DOMAIN s : i < j => s[i] < s[j]

\* Finitely many numbers have an order, which InOrder() chooses.
LEMMA InOrderIncreases ==
  ASSUME NEW S \in SUBSET Int, IsFiniteSet(S)
  PROVE  Increases(InOrder(S), S)
<1> DEFINE N == Cardinality(S)
           T == {n \in 0..N : \A U \in SUBSET Int :
                                IsFiniteSet(U) /\ Cardinality(U) = n => \E s : Increases(s, U)}
<1>1. N \in Nat
  BY FS_CardinalityType
<1>2. 0 \in T
  <2> SUFFICES ASSUME NEW U \in SUBSET Int, IsFiniteSet(U), Cardinality(U) = 0
               PROVE  \E s : Increases(s, U)
    BY <1>1
  <2> DEFINE e == [i \in 1..0 |-> 0]
  <2>1. 1..0 = {} /\ e \in [1..0 -> U] /\ DOMAIN e = {}
    OBVIOUS
  <2> HIDE DEF e
  <2>2. Increases(e, U)
    BY <2>1 DEF Increases
  <2> QED BY <2>2
<1>3. ASSUME NEW n \in 1..N, n - 1 \in T PROVE n \in T
  <2> SUFFICES ASSUME NEW U \in SUBSET Int, IsFiniteSet(U), Cardinality(U) = n
               PROVE  \E s : Increases(s, U)
    BY <1>1
  <2>1. U # {}
    BY FS_EmptySet
  <2>2. PICK x \in U : \A y \in U : y <= x
    BY <2>1, FiniteHasTop DEF HasTop
  <2> DEFINE V == U \ {x}
  <2>3. IsFiniteSet(V) /\ Cardinality(V) = n - 1 /\ V \in SUBSET Int
    BY <2>2, FS_RemoveElement
  <2>4. PICK r : Increases(r, V)
    BY <1>3, <2>3
  <2>5. r \in [1..(n - 1) -> V] /\ \A i, j \in 1..(n - 1) : i < j => r[i] < r[j]
    BY <2>3, <2>4 DEF Increases
  <2> DEFINE s == [i \in 1..n |-> IF i = n THEN x ELSE r[i]]
  <2>6. \A i \in 1..n : i # n => i \in 1..(n - 1)
    OBVIOUS
  <2>7. s \in [1..n -> U]
    BY <2>2, <2>5, <2>6
  <2>8. ASSUME NEW i \in 1..n, NEW j \in 1..n, i < j PROVE s[i] < s[j]
    <3>1. i # n /\ i \in 1..(n - 1) /\ s[i] = r[i] /\ r[i] \in V
      BY <2>5, <2>6, <2>8
    <3>2. CASE j = n
      <4>1. s[j] = x /\ r[i] <= x /\ r[i] # x /\ r[i] \in Int /\ x \in Int
        BY <2>2, <3>1, <3>2
      <4> QED BY <3>1, <4>1
    <3>3. CASE j # n
      BY <2>5, <2>6, <2>8, <3>1, <3>3
    <3> QED BY <3>2, <3>3
  <2>9. DOMAIN s = 1..n
    OBVIOUS
  <2> HIDE DEF s
  <2>10. Increases(s, U)
    BY <2>7, <2>8, <2>9 DEF Increases
  <2> QED BY <2>10
<1> HIDE DEF T
<1>4. N \in T
  BY <1>1, <1>2, <1>3, PrefixInduction
<1>5. \E s : Increases(s, S)
  BY <1>4 DEF T
<1>6. InOrder(S) = CHOOSE s \in [1..Cardinality(S) -> S] : \A i, j \in DOMAIN s : i < j => s[i] < s[j]
  BY Zenon DEF InOrder
<1> QED BY <1>5, <1>6, Zenon DEF Increases

--------------------------------------------------------------------------------
(* The legs of a feed, and the stream they make.                           *)

Legs(i) == Instruments(i.session, i.start)
LegsOf(i) == [expiry : Instants(i.session, i.start), strike : i.session.strikes, kind : {"CALL", "PUT"}]
RungOf(i, instant, strike) ==
  [n \in 1..2 |-> [expiry |-> instant, strike |-> strike,
                   kind |-> KindsOtmFirst(strike, i.session.forward)[n]]]
LadderOf(i, instant) ==
  FlattenSeq([j \in DOMAIN InOrder(i.session.strikes) |->
                RungOf(i, instant, InOrder(i.session.strikes)[j])])

\* A session lists finitely many instants.
LEMMA InstantsAreFinite ==
  ASSUME NEW i, IsSession(i), ConfigTaken(i.session)
  PROVE  IsFiniteSet(Instants(i.session, i.start)) /\ Instants(i.session, i.start) \in SUBSET Int
         /\ Instants(i.session, i.start) # {}
<1> DEFINE E == i.session.expiries
           I == Instants(i.session, i.start)
           at == [offset \in E |-> ExpiryInstant(i.start + offset, i.session.timeOfDay)]
<1>1. /\ E \subseteq Int /\ IsFiniteSet(E) /\ E # {} /\ i.start \in Int
      /\ i.session.timeOfDay \in Int /\ i.session.expiries = E
  BY DEF IsSession, ConfigTaken, Day
<1>2. I = {at[offset] : offset \in E}
  BY DEF Instants
<1>3. ASSUME NEW offset \in E PROVE at[offset] \in Int
  <2>1. i.start + offset \in Int
    BY <1>1
  <2>2. ExpiryInstant(i.start + offset, i.session.timeOfDay) \in Int
    <3> DEFINE x == i.start + offset
    <3> HIDE DEF x
    <3>1. x \in Int
      BY <2>1 DEF x
    <3>2. ExpiryInstant(x, i.session.timeOfDay) \in Int
      BY <1>1, <3>1 DEF ExpiryInstant, Day
    <3> QED BY <3>2 DEF x
  <2> QED BY <2>2
<1> HIDE DEF at, I, E
<1>4. at \in Surjection(E, I)
  <2>1. DOMAIN at = E /\ at = [o \in E |-> at[o]]
    BY DEF at
  <2> QED BY <1>2, <2>1 DEF Surjection
<1>5. IsFiniteSet(I)
  BY <1>1, <1>4, FS_Surjection
<1> QED BY <1>1, <1>2, <1>3, <1>5 DEF I

\* The ladder of an expiry: both kinds of every strike, the out-of-the-money leg of the lowest
\* first.
LEMMA LadderFacts ==
  ASSUME NEW i, IsSession(i), ConfigTaken(i.session), NEW instant
  PROVE  /\ LadderOf(i, instant)
              \in Seq([expiry : {instant}, strike : i.session.strikes, kind : {"CALL", "PUT"}])
         /\ LadderOf(i, instant) # <<>>
         /\ LadderOf(i, instant)[1].kind
              = IF LadderOf(i, instant)[1].strike >= i.session.forward THEN "CALL" ELSE "PUT"
<1> DEFINE K == i.session.strikes
           S == [expiry : {instant}, strike : K, kind : {"CALL", "PUT"}]
           ladder == InOrder(K)
           N == Cardinality(K)
           parts == [j \in DOMAIN ladder |-> RungOf(i, instant, ladder[j])]
<1>1. K \in SUBSET Int /\ IsFiniteSet(K) /\ N >= 2 /\ N \in Nat
  BY FS_CardinalityType DEF IsSession, ConfigTaken, Positive
<1>2. ladder \in [1..N -> K]
  BY <1>1, InOrderIncreases DEF Increases
<1>3. ASSUME NEW k \in K
      PROVE  /\ RungOf(i, instant, k) \in Seq(S) /\ RungOf(i, instant, k) # <<>>
             /\ RungOf(i, instant, k)[1]
                  = [expiry |-> instant, strike |-> k,
                         kind |-> IF k >= i.session.forward THEN "CALL" ELSE "PUT"]
  <2>1. KindsOtmFirst(k, i.session.forward)
          = IF k >= i.session.forward THEN <<"CALL", "PUT">> ELSE <<"PUT", "CALL">>
    BY DEF KindsOtmFirst
  <2>2. KindsOtmFirst(k, i.session.forward)[1] = IF k >= i.session.forward THEN "CALL" ELSE "PUT"
    BY <2>1
  <2>3. \A n \in 1..2 : KindsOtmFirst(k, i.session.forward)[n] \in {"CALL", "PUT"}
    BY <2>1
  <2> DEFINE rung == RungOf(i, instant, k)
  <2>4. rung \in [1..2 -> S]
    BY <2>3 DEF RungOf
  <2>5. rung[1] = [expiry |-> instant, strike |-> k,
                         kind |-> IF k >= i.session.forward THEN "CALL" ELSE "PUT"]
    BY <2>2 DEF RungOf
  <2> HIDE DEF rung, S
  <2>6. rung \in Seq(S) /\ Len(rung) = 2
    BY <2>4
  <2>7. rung # <<>>
    BY <2>6
  <2> QED BY <2>5, <2>6, <2>7 DEF rung
<1>4. DOMAIN ladder = 1..N /\ \A j \in 1..N : ladder[j] \in K
  BY <1>2
<1> HIDE DEF ladder, S, N
<1>5. parts \in [1..N -> Seq(S)]
  BY <1>3, <1>4
<1>6. parts \in Seq(Seq(S)) /\ Len(parts) = N /\ 1 \in DOMAIN parts
  BY <1>1, <1>4, <1>5
<1>7. parts # <<>>
  BY <1>1, <1>6
<1>8. parts[1] = RungOf(i, instant, ladder[1]) /\ ladder[1] \in K
  BY <1>1, <1>4
<1>9. LadderOf(i, instant) = FlattenSeq(parts)
  BY DEF LadderOf, ladder
<1> HIDE DEF parts
<1>10. FlattenSeq(parts) \in Seq(S) /\ Gathers(FlattenSeq(parts), parts)
  BY <1>6, <1>7, FlattenGathers
<1>11. FlattenSeq(parts) # <<>> /\ FlattenSeq(parts)[1] = parts[1][1]
  BY <1>3, <1>8, <1>10 DEF Gathers
<1> DEFINE nearest == [expiry |-> instant, strike |-> ladder[1],
                     kind |-> IF ladder[1] >= i.session.forward THEN "CALL" ELSE "PUT"]
<1>12. FlattenSeq(parts)[1] = nearest
  BY <1>3, <1>8, <1>11
<1>13. nearest.kind = (IF nearest.strike >= i.session.forward THEN "CALL" ELSE "PUT")
  OBVIOUS
<1> HIDE DEF nearest
<1> QED BY <1>9, <1>10, <1>11, <1>12, <1>13 DEF S

\* Out of the money first, of the nearest expiry.
LEMMA LegsFacts ==
  ASSUME NEW i, IsSession(i), ConfigTaken(i.session)
  PROVE  /\ Legs(i) \in Seq(LegsOf(i)) /\ Legs(i) # <<>>
         /\ \A n \in DOMAIN Legs(i) : Legs(i)[1].expiry <= Legs(i)[n].expiry
         /\ Legs(i)[1].kind = IF Legs(i)[1].strike >= i.session.forward THEN "CALL" ELSE "PUT"
<1> DEFINE I == Instants(i.session, i.start)
           S == LegsOf(i)
           instants == InOrder(I)
           N == Cardinality(I)
           parts == [j \in DOMAIN instants |-> LadderOf(i, instants[j])]
           legs == Legs(i)
<1>1. IsFiniteSet(I) /\ I \in SUBSET Int /\ I # {}
  BY InstantsAreFinite
<1>2. N \in Nat /\ N >= 1
  BY <1>1, FS_CardinalityType, FS_EmptySet
<1>3. instants \in [1..N -> I] /\ DOMAIN instants = 1..N
      /\ \A j, k \in 1..N : j < k => instants[j] < instants[k]
  BY <1>1, InOrderIncreases DEF Increases
<1>4. legs = FlattenSeq(parts)
  BY Zenon DEF Legs, Instruments, LadderOf, RungOf
<1> HIDE DEF instants, N, I, S, legs
<1>5. ASSUME NEW j \in 1..N
      PROVE  /\ parts[j] \in Seq(S) /\ parts[j] # <<>>
             /\ parts[j][1].kind = IF parts[j][1].strike >= i.session.forward THEN "CALL" ELSE "PUT"
             /\ \A k \in DOMAIN parts[j] : parts[j][k].expiry = instants[j]
  <2> DEFINE P == [expiry : {instants[j]}, strike : i.session.strikes, kind : {"CALL", "PUT"}]
             ladder == LadderOf(i, instants[j])
  <2>1. parts[j] = ladder
    BY <1>3
  <2>2. /\ ladder \in Seq(P) /\ ladder # <<>>
        /\ ladder[1].kind = IF ladder[1].strike >= i.session.forward THEN "CALL" ELSE "PUT"
    BY LadderFacts
  <2>3. P \subseteq S /\ \A e \in P : e.expiry = instants[j]
    BY <1>3 DEF S, LegsOf, I
  <2> HIDE DEF P, ladder, parts
  <2>4. \A k \in DOMAIN ladder : ladder[k] \in P
    BY <2>2
  <2>5. ladder \in Seq(S)
    BY <2>2, <2>3, <2>4
  <2> QED BY <2>1, <2>2, <2>3, <2>4, <2>5
<1>6. parts \in [1..N -> Seq(S)]
  <2>1. parts = [j \in 1..N |-> parts[j]]
    BY <1>3
  <2> HIDE DEF parts
  <2> QED BY <1>5, <2>1
<1> HIDE DEF parts
<1>7. parts \in Seq(Seq(S)) /\ parts # <<>> /\ DOMAIN parts = 1..N /\ 1 \in 1..N
  BY <1>2, <1>6
<1>8. legs \in Seq(S) /\ Gathers(legs, parts)
  BY <1>4, <1>7, FlattenGathers
<1>9. legs # <<>> /\ legs[1] = parts[1][1]
  BY <1>5, <1>7, <1>8 DEF Gathers
<1>10. legs[1].expiry = instants[1]
       /\ legs[1].kind = IF legs[1].strike >= i.session.forward THEN "CALL" ELSE "PUT"
  <2>1. 1 \in DOMAIN parts[1]
    <3>1. parts[1] \in Seq(S) /\ parts[1] # <<>>
      BY <1>5, <1>7
    <3> QED BY <3>1
  <2> QED BY <1>5, <1>7, <1>9, <2>1
<1>11. ASSUME NEW n \in DOMAIN legs PROVE instants[1] <= legs[n].expiry
  <2>1. PICK j \in DOMAIN parts : \E k \in DOMAIN parts[j] : legs[n] = parts[j][k]
    BY <1>8 DEF Gathers
  <2>2. legs[n].expiry = instants[j] /\ j \in 1..N
    BY <1>5, <1>7, <2>1
  <2>3. instants[1] \in Int /\ instants[j] \in Int
    BY <1>1, <1>3, <1>7, <2>2
  <2>4. j = 1 \/ 1 < j
    BY <2>2
  <2> QED BY <1>3, <1>7, <2>2, <2>3, <2>4
<1> QED BY <1>8, <1>9, <1>10, <1>11 DEF legs, S

\* What a stream is made of: the legs of every cycle, the first's first in front.
GathersCycles(whole, items, cycles, places) ==
  /\ \A n \in DOMAIN whole : \E c \in 1..cycles : \E p \in places : whole[n] = items[c][p]
  /\ 1 \in DOMAIN whole /\ whole[1] = items[1][1]

\* A stream has the items of every cycle, and begins with the first of the first.
LEMMA StreamGathers ==
  ASSUME NEW X, NEW legs \in Seq(X), legs # <<>>, NEW cycles \in Nat, cycles >= 1, NEW Y,
         NEW items \in [1..cycles -> [DOMAIN legs -> Y]]
  PROVE  GathersCycles(FlattenSeq(items), items, cycles, DOMAIN legs)
<1> DEFINE whole == FlattenSeq(items)
<1>1. DOMAIN legs = 1..Len(legs) /\ Len(legs) \in Nat /\ Len(legs) >= 1
  OBVIOUS
<1>2. \A c \in 1..cycles : items[c] \in [1..Len(legs) -> Y] /\ items[c] \in Seq(Y)
                       /\ DOMAIN items[c] = DOMAIN legs
  BY <1>1
<1>3. items \in Seq(Seq(Y)) /\ items # <<>> /\ DOMAIN items = 1..cycles /\ 1 \in 1..cycles
  <2>1. items \in [1..cycles -> Seq(Y)]
    BY <1>2
  <2> QED BY <2>1
<1>4. whole \in Seq(Y) /\ Gathers(whole, items)
  BY <1>3, FlattenGathers
<1> HIDE DEF whole
<1>5. items[1] # <<>>
  <2>1. items[1] \in Seq(Y) /\ 1 \in DOMAIN items[1]
    BY <1>1, <1>2, <1>3
  <2> QED BY <2>1
<1>6. whole # <<>> /\ whole[1] = items[1][1]
  BY <1>4, <1>5 DEF Gathers
<1>7. 1 \in DOMAIN whole
  BY <1>4, <1>6
<1>8. ASSUME NEW n \in DOMAIN whole PROVE \E c \in 1..cycles : \E p \in DOMAIN legs : whole[n] = items[c][p]
  BY <1>2, <1>3, <1>4 DEF Gathers
<1> QED BY <1>6, <1>7, <1>8 DEF whole, GathersCycles

--------------------------------------------------------------------------------
(* What the engine is told of one quote of a feed.                         *)

\* Min of two numbers is the smaller.
LEMMA MinOfTwo ==
  ASSUME NEW a \in Int, NEW b \in Int
  PROVE  Min({a, b}) = IF a <= b THEN a ELSE b
<1> DEFINE m == IF a <= b THEN a ELSE b
<1>1. m \in {a, b} /\ \A y \in {a, b} : m <= y
  OBVIOUS
<1>2. ASSUME NEW x \in {a, b}, \A y \in {a, b} : x <= y PROVE x = m
  BY <1>2
<1> HIDE DEF m
<1>3. (CHOOSE x \in {a, b} : \A y \in {a, b} : x <= y) = m
  BY <1>1, <1>2
<1>4. Min({a, b}) = m
  BY <1>3, Zenon DEF Min
<1> QED BY <1>4 DEF m

\* A positive factor keeps the order of numbers, and undoing it too.
LEMMA PositiveFactor ==
  ASSUME NEW p \in Int, p > 0, NEW a \in Int, NEW b \in Int
  PROVE  /\ p * a \in Int /\ p * b \in Int
         /\ (p * a > p * b <=> a > b) /\ (a > 0 => p * a > 0)
<1>1. p * a - p * b = p * (a - b) /\ a - b \in Int /\ p * a \in Int /\ p * b \in Int
  OBVIOUS
<1>2. a - b > 0 => p * (a - b) > 0
  OBVIOUS
<1>3. ~(a - b > 0) => ~(p * (a - b) > 0)
  OBVIOUS
<1>4. a > 0 => p * a > 0
  OBVIOUS
<1> DEFINE pa == p * a
           pb == p * b
           pd == p * (a - b)
<1>5. pa \in Int /\ pb \in Int /\ pd \in Int /\ pa - pb = pd
  BY <1>1
<1>6. a - b > 0 <=> pd > 0
  BY <1>2, <1>3
<1> HIDE DEF pa, pb, pd
<1>7. a > b <=> pa > pb
  BY <1>5, <1>6
<1> QED BY <1>1, <1>4, <1>7 DEF pa, pb

Prices(p, s) == [bid |-> p * (40 - s), ask |-> p * (40 + s)]

\* The two sides of a quote around a premium (Around).
LEMMA AroundFacts ==
  ASSUME NEW p \in Positive, NEW s \in 1..39, NEW limit \in Int
  PROVE  /\ Around(p, s) = Prices(p, s)
         /\ p * (40 - s) \in Nat /\ p * (40 + s) \in Nat /\ p * (40 - s) > 0 /\ p * (40 + s) > p * (40 - s)
         /\ p * (40 - s) + p * (40 + s) = 80 * p /\ 80 * p > 0 /\ 80 * p \in Int
         /\ 2 * (p * (40 + s) - p * (40 - s)) > limit * (80 * p) <=> s > 20 * limit
         /\ 2 * (p * (40 - s) - p * (40 + s)) < 0
<1>1. p \in Int /\ p > 0 /\ 40 - s \in Int /\ 40 + s \in Int /\ 40 - s > 0 /\ 40 + s > 40 - s
  BY DEF Positive
<1>2. /\ p * (40 - s) \in Int /\ p * (40 + s) \in Int /\ p * (40 - s) > 0 /\ p * (40 + s) > p * (40 - s)
  BY <1>1, PositiveFactor
<1>3. p * (40 - s) + p * (40 + s) = 80 * p /\ 80 * p > 0 /\ 80 * p \in Int
  BY <1>1
<1>4. 2 * (p * (40 + s) - p * (40 - s)) = p * (4 * s) /\ limit * (80 * p) = p * (80 * limit)
  BY <1>1
<1>5. 4 * s \in Int /\ 80 * limit \in Int /\ (4 * s > 80 * limit <=> s > 20 * limit)
  OBVIOUS
<1>6. p * (4 * s) > p * (80 * limit) <=> 4 * s > 80 * limit
  BY <1>1, <1>5, PositiveFactor
<1> DEFINE low == p * (40 - s)
           high == p * (40 + s)
<1>7. low \in Int /\ high \in Int /\ low > 0 /\ high > low
  BY <1>2
<1> HIDE DEF low, high
<1>8. low \in Nat /\ high \in Nat /\ 2 * (low - high) < 0
  BY <1>7
<1> QED BY <1>2, <1>3, <1>4, <1>5, <1>6, <1>8 DEF low, high, Around, Prices

\* The flags a quote carries, one by one.
Crossed(book) == book.bid > book.ask
Wide(book, limits) == 2 * (book.ask - book.bid) > limits.spread * (book.bid + book.ask)

FlagsOn(book, limits, leg) ==
  {f \in {"CROSSED", "WIDE_SPREAD", "STALE", "LOW_SIZE", "EXTREME_MONEYNESS"} :
     CASE f = "CROSSED"     -> Crossed(book)
       [] f = "WIDE_SPREAD" -> Wide(book, limits)
       [] f = "STALE"       -> book.age > limits.age
       [] f = "LOW_SIZE"    -> book.size < limits.size
       [] OTHER             -> leg.strike \notin limits.strikes}

\* The flags of a quote that has a mid, each by its own condition (flag_quote).
LEMMA FlagsOfAMid ==
  ASSUME NEW book, book.bid \in Nat, book.ask \in Nat, book.bid + book.ask > 0, NEW limits, NEW leg
  PROVE  {q.flags : q \in QuotesFor([l \in {leg} |-> book], limits)} = {FlagsOn(book, limits, leg)}
<1> DEFINE books == [l \in {leg} |-> book]
           flags == FlagQuote(book, leg.strike, limits)
           kinds == {"CROSSED", "WIDE_SPREAD", "STALE", "LOW_SIZE", "EXTREME_MONEYNESS"}
           ofAMid == FlagsOn(book, limits, leg)
<1>1. book.bid # NoPrice /\ book.ask # NoPrice
  BY DEF NoPrice
<1>2. TwiceMid(book) = book.bid + book.ask /\ TwiceMid(book) > 0 /\ ~(TwiceMid(book) <= 0)
  BY <1>1 DEF TwiceMid
<1>3. SpreadRel(book) = <<2 * (book.ask - book.bid), book.bid + book.ask>>
  BY <1>2 DEF SpreadRel
<1>4. SpreadRel(book) # <<>>
  BY <1>3
<1>5. SpreadRel(book)[1] = 2 * (book.ask - book.bid) /\ SpreadRel(book)[2] = book.bid + book.ask
  BY <1>3
<1>6. (SpreadRel(book) # <<>> /\ SpreadRel(book)[1] > limits.spread * SpreadRel(book)[2])
      <=> Wide(book, limits)
  BY <1>4, <1>5 DEF Wide
<1>7. (book.bid # NoPrice /\ book.ask # NoPrice /\ book.bid > book.ask) <=> Crossed(book)
  BY <1>1 DEF Crossed
<1>8. flags = ofAMid
  <2> SUFFICES ASSUME NEW f \in kinds PROVE f \in flags <=> f \in ofAMid
    BY DEF FlagQuote, FlagsOn
  <2>1. CASE f = "CROSSED"
    BY <1>7, <2>1 DEF FlagQuote, FlagsOn
  <2>2. CASE f = "WIDE_SPREAD"
    BY <1>6, <2>2 DEF FlagQuote, FlagsOn
  <2>3. CASE f = "STALE"
    BY <2>3 DEF FlagQuote, FlagsOn
  <2>4. CASE f = "LOW_SIZE"
    BY <2>4 DEF FlagQuote, FlagsOn
  <2>5. CASE f = "EXTREME_MONEYNESS"
    BY <2>5 DEF FlagQuote, FlagsOn
  <2> QED BY <2>1, <2>2, <2>3, <2>4, <2>5
<1> DEFINE quote(c) == [strike |-> c.strike, kind |-> c.kind, twice |-> TwiceMid(books[c]),
                        spread |-> SpreadRel(books[c]), flags |-> FlagQuote(books[c], c.strike, limits)]
<1>9. books[leg] = book /\ DOMAIN books = {leg}
  OBVIOUS
<1> HIDE DEF books
<1>10. QuotesFor(books, limits) = {quote(leg)}
  BY <1>2, <1>4, <1>9 DEF QuotesFor
<1>11. quote(leg).flags = flags
  BY <1>9
<1> HIDE DEF quote, flags, ofAMid
<1>12. {q.flags : q \in QuotesFor(books, limits)} = {flags}
  BY <1>10, <1>11
<1> QED BY <1>8, <1>12 DEF books, ofAMid

\* Without a mid a book is no quote.
LEMMA NoMidNoQuote ==
  ASSUME NEW book, book.bid = NoPrice, NEW limits, NEW leg
  PROVE  {q.flags : q \in QuotesFor([l \in {leg} |-> book], limits)} = {}
<1> DEFINE books == [l \in {leg} |-> book]
<1>1. TwiceMid(book) = NoPrice /\ ~(NoPrice > 0)
  BY DEF TwiceMid, NoPrice
<1>2. books[leg] = book /\ DOMAIN books = {leg}
  OBVIOUS
<1> HIDE DEF books
<1>3. QuotesFor(books, limits) = {}
  BY <1>1, <1>2 DEF QuotesFor
<1> QED BY <1>3 DEF books

\* A book wrong in one way carries the flag of that way alone.
LEMMA OneFlag ==
  ASSUME NEW book, book.bid \in Nat, book.ask \in Nat, book.bid + book.ask > 0, NEW limits, NEW leg,
         NEW junk \in {"CROSSED", "WIDE_SPREAD", "STALE", "LOW_SIZE", Honest},
         Crossed(book) <=> junk = "CROSSED",
         Wide(book, limits) <=> junk = "WIDE_SPREAD",
         book.age > limits.age <=> junk = "STALE",
         book.size < limits.size <=> junk = "LOW_SIZE",
         leg.strike \in limits.strikes
  PROVE  {q.flags : q \in QuotesFor([l \in {leg} |-> book], limits)} = {{junk} \ {Honest}}
<1> DEFINE kinds == {"CROSSED", "WIDE_SPREAD", "STALE", "LOW_SIZE", "EXTREME_MONEYNESS"}
           told == FlagsOn(book, limits, leg)
<1>1. told = {junk} \ {Honest}
  <2>1. ASSUME NEW f \in kinds PROVE f \in told <=> f = junk /\ f # Honest
    <3>1. f # Honest
      BY DEF Honest
    <3>2. CASE f = "CROSSED"
      BY <3>1, <3>2 DEF FlagsOn
    <3>3. CASE f = "WIDE_SPREAD"
      BY <3>1, <3>3 DEF FlagsOn
    <3>4. CASE f = "STALE"
      BY <3>1, <3>4 DEF FlagsOn
    <3>5. CASE f = "LOW_SIZE"
      BY <3>1, <3>5 DEF FlagsOn
    <3>6. CASE f = "EXTREME_MONEYNESS"
      <4>1. f # junk
        BY <3>6 DEF Honest
      <4> QED BY <3>6, <4>1 DEF FlagsOn
    <3> QED BY <3>2, <3>3, <3>4, <3>5, <3>6
  <2>2. junk # Honest => junk \in kinds
    OBVIOUS
  <2>3. told \subseteq kinds
    BY DEF FlagsOn
  <2> HIDE DEF told, kinds
  <2> QED BY <2>1, <2>2, <2>3
<1>2. {q.flags : q \in QuotesFor([l \in {leg} |-> book], limits)} = {told}
  BY FlagsOfAMid
<1> QED BY <1>1, <1>2

Narrow(draw) == Min({MaxSpreadRel, draw.spread})
Widened(draw) == Min({MaxSpreadRel, Narrow(draw) * JunkSpreadFactor})

\* What _update() makes of a premium, by what it is spoiled into.
LEMMA UpdateFacts ==
  ASSUME NEW config, NEW p \in Positive, NEW at \in Int, NEW draw, draw \in Draws(config),
         draw.jitter \in Int
  PROVE  LET s == Narrow(draw)
             wide == Widened(draw)
             o == Update(config, p, at, draw)
         IN /\ s \in 1..MaxSpreadRel /\ wide \in 1..MaxSpreadRel
            /\ s = (IF MaxSpreadRel <= draw.spread THEN MaxSpreadRel ELSE draw.spread)
            /\ wide = (IF MaxSpreadRel <= s * JunkSpreadFactor THEN MaxSpreadRel ELSE s * JunkSpreadFactor)
            /\ o.stamp = at + draw.jitter - (IF draw.junk = "STALE" THEN JunkStale ELSE 0)
            /\ draw.junk = "LOW_SIZE" => o.size = 0
            /\ draw.junk # "LOW_SIZE" => o.size \in SizesDrawn(config)
            /\ draw.junk = "CROSSED" => o.bid = p * (40 + s) /\ o.ask = p * (40 - s)
            /\ draw.junk = "WIDE_SPREAD" => o.bid = p * (40 - wide) /\ o.ask = p * (40 + wide)
            /\ draw.junk = "ONE_SIDED" => o.bid = NoPrice
            /\ draw.junk \in {"LOW_SIZE", "STALE", Honest} => o.bid = p * (40 - s) /\ o.ask = p * (40 + s)
<1> DEFINE s == Narrow(draw)
           wide == Widened(draw)
           o == Update(config, p, at, draw)
           size == Min({draw.sizes[1], draw.sizes[2]})
           offered == [bid |-> p * (40 - s), ask |-> p * (40 + s),
                       size |-> size, stamp |-> at + draw.jitter]
<1>1. draw.spread \in Int /\ draw.spread > 0 /\ draw.junk \in JunkKinds \cup {Honest}
  BY DEF Draws, Positive
<1>2. s = (IF MaxSpreadRel <= draw.spread THEN MaxSpreadRel ELSE draw.spread) /\ s \in 1..MaxSpreadRel
  BY <1>1, MinOfTwo DEF MaxSpreadRel, Narrow
<1>3. s * JunkSpreadFactor \in Int /\ s * JunkSpreadFactor > 0
  <2> HIDE DEF s
  <2> QED BY <1>2 DEF MaxSpreadRel, JunkSpreadFactor
<1>4. wide = (IF MaxSpreadRel <= s * JunkSpreadFactor THEN MaxSpreadRel ELSE s * JunkSpreadFactor)
      /\ wide \in 1..MaxSpreadRel
  <2> DEFINE x == s * JunkSpreadFactor
  <2> HIDE DEF s, x
  <2>1. x \in Int /\ x > 0
    BY <1>3 DEF x
  <2>2. Min({MaxSpreadRel, x}) = (IF MaxSpreadRel <= x THEN MaxSpreadRel ELSE x)
        /\ Min({MaxSpreadRel, x}) \in 1..MaxSpreadRel
    BY <2>1, MinOfTwo DEF MaxSpreadRel
  <2>3. wide = Min({MaxSpreadRel, x})
    BY DEF Widened, x, s
  <2> QED BY <2>2, <2>3 DEF x
<1>5. o = Spoil(offered, draw.junk, p, s)
  BY Zenon DEF Update, Around, Narrow
<1>6. o = CASE draw.junk = "CROSSED"     -> [offered EXCEPT !.bid = offered.ask, !.ask = offered.bid]
            [] draw.junk = "WIDE_SPREAD" -> [offered EXCEPT !.bid = p * (40 - wide),
                                                       !.ask = p * (40 + wide)]
            [] draw.junk = "ONE_SIDED"   -> [offered EXCEPT !.bid = NoPrice]
            [] draw.junk = "LOW_SIZE"    -> [offered EXCEPT !.size = 0]
            [] draw.junk = "STALE"       -> [offered EXCEPT !.stamp = @ - JunkStale]
            [] OTHER                     -> offered
  BY <1>5, Zenon DEF Spoil, Around, Widened
<1>14. size \in SizesDrawn(config)
  <2> DEFINE a == draw.sizes[1]
             b == draw.sizes[2]
  <2>1. a \in SizesDrawn(config) /\ b \in SizesDrawn(config)
    BY DEF Draws
  <2> HIDE DEF a, b
  <2>2. Min({a, b}) = IF a <= b THEN a ELSE b
    BY <2>1, MinOfTwo DEF SizesDrawn
  <2>3. Min({a, b}) \in SizesDrawn(config)
    BY <2>1, <2>2
  <2> QED BY <2>3 DEF a, b
<1> HIDE DEF Honest, size
<1> DEFINE Made(bid, ask, lots, stamp) == o.bid = bid /\ o.ask = ask /\ o.size = lots /\ o.stamp = stamp
<1>7. at + draw.jitter \in Int /\ at + draw.jitter - 0 = at + draw.jitter
  OBVIOUS
<1>8. CASE draw.junk = "CROSSED"
  <2>1. o = [offered EXCEPT !.bid = offered.ask, !.ask = offered.bid]
    BY <1>6, <1>8
  <2>2. Made(p * (40 + s), p * (40 - s), size, at + draw.jitter)
    BY <2>1
  <2> QED BY <1>2, <1>4, <1>7, <1>8, <1>14, <2>2 DEF Honest
<1>9. CASE draw.junk = "WIDE_SPREAD"
  <2>1. o = [offered EXCEPT !.bid = p * (40 - wide), !.ask = p * (40 + wide)]
    BY <1>6, <1>9
  <2>2. Made(p * (40 - wide), p * (40 + wide), size, at + draw.jitter)
    BY <2>1
  <2> QED BY <1>2, <1>4, <1>7, <1>9, <1>14, <2>2 DEF Honest
<1>10. CASE draw.junk = "ONE_SIDED"
  <2>1. o = [offered EXCEPT !.bid = NoPrice]
    BY <1>6, <1>10
  <2>2. Made(NoPrice, p * (40 + s), size, at + draw.jitter)
    BY <2>1
  <2> QED BY <1>2, <1>4, <1>7, <1>10, <1>14, <2>2 DEF Honest
<1>11. CASE draw.junk = "LOW_SIZE"
  <2>1. o = [offered EXCEPT !.size = 0]
    BY <1>6, <1>11
  <2>2. Made(p * (40 - s), p * (40 + s), 0, at + draw.jitter)
    BY <2>1
  <2> QED BY <1>2, <1>4, <1>7, <1>11, <1>14, <2>2 DEF Honest
<1>12. CASE draw.junk = "STALE"
  <2>1. o = [offered EXCEPT !.stamp = @ - JunkStale]
    BY <1>6, <1>12
  <2> DEFINE due == at + draw.jitter
             past == due - JunkStale
  <2>4. offered.stamp = due
    OBVIOUS
  <2>5. o = [offered EXCEPT !.stamp = past]
    BY <2>1, <2>4
  <2> HIDE DEF past
  <2>3. o = [bid |-> p * (40 - s), ask |-> p * (40 + s),
                       size |-> size, stamp |-> past]
    BY <2>5
  <2>6. Made(p * (40 - s), p * (40 + s), size, past)
    BY <2>3
  <2> HIDE DEF Made
  <2>2. Made(p * (40 - s), p * (40 + s), size, at + draw.jitter - JunkStale)
    BY <2>6 DEF past, due, JunkStale
  <2> QED BY <1>2, <1>4, <1>7, <1>12, <1>14, <2>2 DEF Honest, Made
<1>13. CASE draw.junk = Honest
  <2>1. o = offered
    BY <1>6, <1>13 DEF Honest
  <2>2. Made(p * (40 - s), p * (40 + s), size, at + draw.jitter)
    BY <2>1
  <2> QED BY <1>2, <1>4, <1>7, <1>13, <1>14, <2>2 DEF Honest
<1> HIDE DEF offered
<1> QED BY <1>1, <1>8, <1>9, <1>10, <1>11, <1>12, <1>13 DEF JunkKinds

\* A quote the engine books when the last of its cycle is in, as Book() has it.
Booked(i, o, at) == [bid |-> o.bid, ask |-> o.ask, size |-> o.size, age |-> at + i.session.jitter - o.stamp]

\* Under thresholds that tell junk apart.
ToldApart(i, draw) ==
  IF draw.junk = "WIDE_SPREAD" THEN JunkSpreadFactor * draw.spread > 20 * i.limits.spread
  ELSE draw.spread <= 20 * i.limits.spread

\* A quote is told for what was done to it, whatever the premium, the spread, the jitter and
\* the sizes drawn.
LEMMA SpoiledIsTold ==
  ASSUME NEW i, IsSession(i), ConfigTaken(i.session), TellJunkApart(i),
         NEW p \in Positive, NEW at \in Int, NEW draw \in Draws(i.session), ToldApart(i, draw),
         NEW leg, leg.strike \in i.session.strikes
  PROVE  LET o == Update(i.session, p, at, draw) IN
         /\ {q.flags : q \in QuotesFor([l \in {leg} |-> Booked(i, o, at)], i.limits)}
              = IF draw.junk = "ONE_SIDED" THEN {} ELSE {{draw.junk} \ {Honest}}
         /\ o.stamp \in Int /\ o.stamp <= at + i.session.jitter
<1> DEFINE o == Update(i.session, p, at, draw)
           book == Booked(i, o, at)
           s == Narrow(draw)
           wide == Widened(draw)
           limit == i.limits.spread
           age == i.limits.age
           jitter == i.session.jitter
           told == {q.flags : q \in QuotesFor([l \in {leg} |-> book], i.limits)}
<1>1. /\ draw.spread \in Int /\ draw.spread > 0 /\ draw.jitter \in Int
      /\ -jitter <= draw.jitter /\ draw.jitter <= jitter /\ jitter \in Int /\ jitter >= 0
      /\ draw.junk \in JunkKinds \cup {Honest}
  BY DEF Draws, Positive, IsSession, ConfigTaken
<1>2. /\ limit \in Int /\ age \in Int /\ i.limits.size \in Int /\ i.session.size \in Int
      /\ 20 * limit < 38 /\ 2 * jitter <= age /\ age < 4
      /\ 0 < i.limits.size /\ 2 * i.limits.size <= i.session.size
      /\ leg.strike \in i.limits.strikes
  BY DEF TellJunkApart, IsSession, MaxSpreadRel, JunkStale
<1>3. /\ s \in 1..38 /\ wide \in 1..38
      /\ s = (IF 38 <= draw.spread THEN 38 ELSE draw.spread)
      /\ wide = (IF 38 <= s * 25 THEN 38 ELSE s * 25)
      /\ o.stamp = at + draw.jitter - (IF draw.junk = "STALE" THEN 4 ELSE 0)
      /\ draw.junk = "LOW_SIZE" => o.size = 0
      /\ draw.junk # "LOW_SIZE" => o.size \in Nat /\ i.session.size <= 2 * o.size
      /\ draw.junk = "CROSSED" => o.bid = p * (40 + s) /\ o.ask = p * (40 - s)
      /\ draw.junk = "WIDE_SPREAD" => o.bid = p * (40 - wide) /\ o.ask = p * (40 + wide)
      /\ draw.junk = "ONE_SIDED" => o.bid = NoPrice
      /\ draw.junk \in {"LOW_SIZE", "STALE", Honest} => o.bid = p * (40 - s) /\ o.ask = p * (40 + s)
  BY <1>1, UpdateFacts DEF MaxSpreadRel, JunkSpreadFactor, JunkStale, SizesDrawn
<1>4. book.bid = o.bid /\ book.ask = o.ask /\ book.size = o.size /\ book.age = at + jitter - o.stamp
  BY DEF Booked
<1> DEFINE narrow == p * (40 - s)
           above == p * (40 + s)
           low == p * (40 - wide)
           high == p * (40 + wide)
<1>5. /\ narrow \in Nat /\ above \in Nat /\ narrow > 0 /\ above > narrow
      /\ 2 * (above - narrow) > limit * (narrow + above) <=> s > 20 * limit
      /\ 2 * (narrow - above) < 0
  <2>1. s \in 1..39
    BY <1>3
  <2> HIDE DEF s, limit
  <2> QED BY <1>2, <2>1, AroundFacts
<1>6. /\ low \in Nat /\ high \in Nat /\ low > 0 /\ high > low
      /\ 2 * (high - low) > limit * (low + high) <=> wide > 20 * limit
  <2>1. wide \in 1..39
    BY <1>3
  <2> HIDE DEF wide, limit
  <2> QED BY <1>2, <2>1, AroundFacts
<1> HIDE DEF o, book, s, wide, limit, age, jitter, narrow, above, low, high
<1>7. o.stamp \in Int /\ o.stamp <= at + jitter
  BY <1>1, <1>3
<1>8. book.age > age <=> draw.junk = "STALE"
  <2>1. CASE draw.junk = "STALE"
    <3>1. book.age = at + jitter - (at + draw.jitter - 4)
      BY <1>3, <1>4, <2>1
    <3>2. book.age = jitter - draw.jitter + 4
      BY <1>1, <3>1
    <3> QED BY <1>1, <1>2, <2>1, <3>2
  <2>2. CASE draw.junk # "STALE"
    <3>1. book.age = at + jitter - (at + draw.jitter - 0)
      BY <1>3, <1>4, <2>2
    <3>2. book.age = jitter - draw.jitter
      BY <1>1, <3>1
    <3> QED BY <1>1, <1>2, <2>2, <3>2
  <2> QED BY <2>1, <2>2
<1>9. book.size < i.limits.size <=> draw.junk = "LOW_SIZE"
  <2>1. CASE draw.junk = "LOW_SIZE"
    BY <1>2, <1>3, <1>4, <2>1
  <2>2. CASE draw.junk # "LOW_SIZE"
    BY <1>2, <1>3, <1>4, <2>2
  <2> QED BY <2>1, <2>2
<1>10. draw.junk # "WIDE_SPREAD" => draw.spread <= 20 * limit /\ s <= 20 * limit /\ limit > 0
  BY <1>1, <1>2, <1>3 DEF ToldApart, limit
<1>11. draw.junk = "WIDE_SPREAD" => wide > 20 * limit
  BY <1>1, <1>2, <1>3 DEF ToldApart, limit, JunkSpreadFactor
<1> DEFINE Fine == /\ book.bid \in Nat /\ book.ask \in Nat /\ book.bid + book.ask > 0
                   /\ (Crossed(book) <=> draw.junk = "CROSSED")
                   /\ (Wide(book, i.limits) <=> draw.junk = "WIDE_SPREAD")
<1> DEFINE Goal == /\ {q.flags : q \in QuotesFor([l \in {leg} |->
                                                        Booked(i, Update(i.session, p, at, draw), at)], i.limits)}
                       = IF draw.junk = "ONE_SIDED" THEN {} ELSE {{draw.junk} \ {Honest}}
                   /\ Update(i.session, p, at, draw).stamp \in Int
                   /\ Update(i.session, p, at, draw).stamp <= at + i.session.jitter
<1>15. ASSUME Fine, draw.junk # "ONE_SIDED" PROVE Goal
  <2>1. draw.junk \in {"CROSSED", "WIDE_SPREAD", "STALE", "LOW_SIZE", Honest}
    BY <1>1, <1>15 DEF JunkKinds
  <2> HIDE DEF told
  <2>2. told = {{draw.junk} \ {Honest}}
    BY <1>2, <1>8, <1>9, <1>15, <2>1, OneFlag DEF told, age
  <2> QED BY <1>7, <1>15, <2>2 DEF told, o, book, jitter
<1>12. CASE draw.junk = "ONE_SIDED"
  <2>1. book.bid = NoPrice
    BY <1>3, <1>4, <1>12
  <2>2. told = {}
    BY <2>1, NoMidNoQuote
  <2> QED BY <1>7, <1>12, <2>2 DEF o, book, jitter
<1>13. CASE draw.junk = "CROSSED"
  <2>1. book.bid = above /\ book.ask = narrow
    BY <1>3, <1>4, <1>13 DEF above, narrow
  <2>2. Crossed(book)
    BY <1>5, <2>1 DEF Crossed
  <2>3. limit * (above + narrow) > 0
    <3>1. limit \in Int /\ limit > 0 /\ above + narrow \in Int /\ above + narrow > 0
      BY <1>2, <1>5, <1>10, <1>13
    <3> QED BY <3>1, PositiveFactor
  <2>4. ~Wide(book, i.limits)
    <3> DEFINE product == limit * (above + narrow)
    <3>1. product \in Int /\ 2 * (narrow - above) \in Int
      BY <1>2, <1>5
    <3> HIDE DEF product
    <3>2. Wide(book, i.limits) <=> 2 * (narrow - above) > product
      BY <2>1 DEF Wide, limit, product
    <3>3. product > 0
      BY <2>3 DEF product
    <3> QED BY <1>5, <3>1, <3>2, <3>3
  <2>5. Fine
    BY <1>5, <1>13, <2>1, <2>2, <2>4
  <2> QED BY <1>15, <1>13, <2>5
<1>14. CASE draw.junk = "WIDE_SPREAD"
  <2>1. book.bid = low /\ book.ask = high
    BY <1>3, <1>4, <1>14 DEF low, high
  <2>2. ~Crossed(book)
    BY <1>6, <2>1 DEF Crossed
  <2>3. Wide(book, i.limits)
    BY <1>6, <1>11, <1>14, <2>1 DEF Wide, limit
  <2>4. Fine
    BY <1>6, <1>14, <2>1, <2>2, <2>3
  <2> QED BY <1>15, <1>14, <2>4
<1>16. CASE draw.junk \in {"LOW_SIZE", "STALE", Honest}
  <2>1. book.bid = narrow /\ book.ask = above
    BY <1>3, <1>4, <1>16 DEF narrow, above
  <2>2. draw.junk # "WIDE_SPREAD" /\ draw.junk # "CROSSED" /\ draw.junk # "ONE_SIDED"
    BY <1>16 DEF Honest
  <2>3. ~Crossed(book)
    BY <1>5, <2>1 DEF Crossed
  <2>4. ~Wide(book, i.limits)
    <3>1. ~(s > 20 * limit)
      BY <1>2, <1>3, <1>10, <2>2
    <3> QED BY <1>5, <2>1, <3>1 DEF Wide, limit
  <2>5. Fine
    BY <1>5, <2>1, <2>2, <2>3, <2>4
  <2> QED BY <1>15, <2>2, <2>5
<1> QED BY <1>1, <1>12, <1>13, <1>14, <1>16 DEF JunkKinds

Repeated(i, p, at) ==
  [bid |-> Around(p, i.session.spread).bid, ask |-> Around(p, i.session.spread).ask,
   size |-> i.session.size, stamp |-> at]

\* A quote of the constant feed is told clean.
LEMMA RepeatedIsTold ==
  ASSUME NEW i, IsSession(i), ConfigTaken(i.session), TellJunkApart(i),
         NEW p \in Positive, NEW at \in Int, NEW leg, leg.strike \in i.session.strikes
  PROVE  {q.flags : q \in QuotesFor([l \in {leg} |-> Booked(i, Repeated(i, p, at), at)], i.limits)}
           = {{Honest} \ {Honest}}
<1> DEFINE book == Booked(i, Repeated(i, p, at), at)
           s == i.session.spread
           limit == i.limits.spread
           narrow == p * (40 - s)
           above == p * (40 + s)
<1>1. /\ limit \in Int /\ i.limits.age \in Int /\ i.limits.size \in Int /\ i.session.size \in Int
      /\ i.session.jitter \in Int /\ i.session.jitter >= 0 /\ 2 * i.session.jitter <= i.limits.age
      /\ 0 < i.limits.size /\ 2 * i.limits.size <= i.session.size /\ s <= 20 * limit
      /\ leg.strike \in i.limits.strikes /\ s \in 1..39
  BY DEF TellJunkApart, IsSession, ConfigTaken
<1>2. /\ Around(p, s) = Prices(p, s) /\ narrow \in Nat /\ above \in Nat /\ narrow > 0 /\ above > narrow
      /\ 2 * (above - narrow) > limit * (narrow + above) <=> s > 20 * limit
  <2> HIDE DEF s, limit
  <2> QED BY <1>1, AroundFacts
<1>3. book.bid = narrow /\ book.ask = above /\ book.size = i.session.size
      /\ book.age = at + i.session.jitter - at
  BY <1>2 DEF Booked, Prices, Repeated
<1> HIDE DEF book, narrow, above, s, limit
<1>4. book.bid \in Nat /\ book.ask \in Nat /\ book.bid + book.ask > 0 /\ ~Crossed(book)
  BY <1>2, <1>3 DEF Crossed
<1>5. ~Wide(book, i.limits)
  <2>1. ~(s > 20 * limit)
    BY <1>1
  <2> QED BY <1>2, <1>3, <2>1 DEF Wide, limit
<1>6. ~(book.age > i.limits.age) /\ ~(book.size < i.limits.size)
  <2>1. book.age = i.session.jitter
    BY <1>1, <1>3
  <2> QED BY <1>1, <1>3, <2>1
<1>7. Honest # "CROSSED" /\ Honest # "WIDE_SPREAD" /\ Honest # "STALE" /\ Honest # "LOW_SIZE"
  BY DEF Honest
<1>8. {q.flags : q \in QuotesFor([l \in {leg} |-> book], i.limits)} = {{Honest} \ {Honest}}
  <2> DEFINE junk == Honest
  <2>1. junk \in {"CROSSED", "WIDE_SPREAD", "STALE", "LOW_SIZE", Honest}
    OBVIOUS
  <2> QED BY <1>1, <1>4, <1>5, <1>6, <1>7, <2>1, OneFlag
<1> QED BY <1>8 DEF book

\* What the engine is told of one item of a feed's stream.
ItemIsTold(i, u) ==
  /\ {q.flags : q \in Told(i, u)} = IF Junk(i, u) = "ONE_SIDED" THEN {} ELSE {{Junk(i, u)} \ {Honest}}
  /\ i.feed = "synthetic" => u.observation.stamp < u.leg.expiry

SyntheticItem(i, c, n) ==
  [leg |-> Legs(i)[n], cycle |-> c, place |-> n,
   observation |-> Update(i.session, i.premium[Legs(i)[n]], i.start + (c - 1) * i.session.interval,
                          i.draws[c][n])]

ConstantItem(i, c, n) ==
  [leg |-> Legs(i)[n], cycle |-> c, place |-> n,
   observation |-> Repeated(i, i.premium[Legs(i)[n]], Leaves(i, c))]

\* A later cycle leaves no earlier.
LEMMA LaterCycles ==
  ASSUME NEW c \in Int, NEW d \in Int, c <= d, NEW w \in Int, w >= 0
  PROVE  (c - 1) * w \in Int /\ (c - 1) * w <= (d - 1) * w /\ (d - 1) * w \in Int
<1>1. (d - 1) * w - (c - 1) * w = (d - c) * w /\ (c - 1) * w \in Int /\ (d - 1) * w \in Int
  OBVIOUS
<1>2. (d - c) * w >= 0
  OBVIOUS
<1> DEFINE x == (c - 1) * w
           y == (d - 1) * w
           z == (d - c) * w
<1>3. x \in Int /\ y \in Int /\ z >= 0 /\ y - x = z
  BY <1>1, <1>2
<1> HIDE DEF x, y, z
<1>4. x <= y
  BY <1>3
<1> QED BY <1>3, <1>4 DEF x, y

\* An item of the synthetic stream is told for what it is, and before its contract expires.
LEMMA SyntheticItemIsTold ==
  ASSUME NEW i, IsSession(i), FeedBuilds(i), TellJunkApart(i), i.feed = "synthetic",
         NEW c \in 1..i.session.cycles, NEW n \in DOMAIN Legs(i)
  PROVE  ItemIsTold(i, SyntheticItem(i, c, n))
<1> DEFINE leg == Legs(i)[n]
           at == Leaves(i, c)
           draw == i.draws[c][n]
           p == i.premium[leg]
           u == SyntheticItem(i, c, n)
           o == Update(i.session, p, at, draw)
<1>1. ConfigTaken(i.session) /\ SlicesBuild(i.session, i.start)
  BY DEF FeedBuilds
<1>2. leg \in LegsOf(i) /\ leg \in ToSet(Legs(i))
  <2>1. Legs(i) \in Seq(LegsOf(i))
    BY <1>1, LegsFacts
  <2> QED BY <2>1 DEF ToSet
<1>3. p \in Positive /\ draw \in Draws(i.session)
  BY <1>2 DEF IsSession, Legs
<1>4. ToldApart(i, draw)
  BY DEF TellJunkApart, ToldApart, Legs
<1>5. at \in Int /\ at <= i.start + (i.session.cycles - 1) * i.session.interval
      /\ (i.session.cycles - 1) * i.session.interval \in Int /\ i.start \in Int
  <2>1. i.session.cycles \in Int /\ i.session.interval \in Int /\ i.session.interval >= 0 /\ i.start \in Int
        /\ c \in Int /\ c <= i.session.cycles
    BY <1>1 DEF IsSession, ConfigTaken
  <2>2. /\ (c - 1) * i.session.interval \in Int /\ (i.session.cycles - 1) * i.session.interval \in Int
        /\ (c - 1) * i.session.interval <= (i.session.cycles - 1) * i.session.interval
    BY <2>1, LaterCycles
  <2> DEFINE x == (c - 1) * i.session.interval
             y == (i.session.cycles - 1) * i.session.interval
  <2>3. x \in Int /\ y \in Int /\ x <= y /\ at = i.start + x
    BY <2>2 DEF Leaves
  <2> HIDE DEF x, y, at
  <2>4. at \in Int /\ at <= i.start + y
    BY <2>1, <2>3
  <2> QED BY <2>1, <2>3, <2>4 DEF x, y
<1>6. leg.strike \in i.session.strikes /\ leg.expiry \in Instants(i.session, i.start)
  BY <1>2 DEF LegsOf
<1>7. u.observation = o /\ u.leg = leg /\ u.cycle = c /\ Junk(i, u) = draw.junk
  BY DEF SyntheticItem, Junk, Leaves
<1>8. Told(i, u) = QuotesFor([l \in {leg} |-> Booked(i, o, at)], i.limits)
  <2>1. Book(i, u) = Booked(i, o, at)
    BY <1>7 DEF Book, Booked
  <2> HIDE DEF u, o, leg, at
  <2> QED BY <1>7, <2>1 DEF Told
<1> HIDE DEF leg, at, draw, p, u
<1>9. /\ {q.flags : q \in QuotesFor([l \in {leg} |-> Booked(i, o, at)], i.limits)}
            = IF draw.junk = "ONE_SIDED" THEN {} ELSE {{draw.junk} \ {Honest}}
      /\ o.stamp \in Int /\ o.stamp <= at + i.session.jitter
  BY <1>1, <1>3, <1>4, <1>5, <1>6, SpoiledIsTold
<1>10. leg.expiry > SessionEnd(i.session, i.start) /\ leg.expiry \in Int
  BY <1>1, <1>6, InstantsAreFinite DEF SlicesBuild
<1>11. o.stamp < leg.expiry
  <2> DEFINE y == (i.session.cycles - 1) * i.session.interval
  <2>1. SessionEnd(i.session, i.start) = i.start + y + i.session.jitter
    BY DEF SessionEnd
  <2>2. y \in Int /\ i.start \in Int /\ i.session.jitter \in Int /\ at <= i.start + y /\ at \in Int
    BY <1>5 DEF IsSession
  <2> HIDE DEF y, o
  <2> QED BY <1>9, <1>10, <2>1, <2>2
<1> HIDE DEF o
<1>12. {q.flags : q \in Told(i, u)} = IF draw.junk = "ONE_SIDED" THEN {} ELSE {{draw.junk} \ {Honest}}
  BY <1>8, <1>9
<1> QED BY <1>7, <1>11, <1>12 DEF ItemIsTold, u

\* An item of the constant stream is told clean.
LEMMA ConstantItemIsTold ==
  ASSUME NEW i, IsSession(i), FeedBuilds(i), TellJunkApart(i), i.feed # "synthetic",
         NEW c \in 1..i.session.cycles, NEW n \in DOMAIN Legs(i)
  PROVE  ItemIsTold(i, ConstantItem(i, c, n))
<1> DEFINE leg == Legs(i)[n]
           at == Leaves(i, c)
           p == i.premium[leg]
           u == ConstantItem(i, c, n)
           o == Repeated(i, p, at)
<1>1. ConfigTaken(i.session)
  BY DEF FeedBuilds
<1>2. leg \in LegsOf(i) /\ leg \in ToSet(Legs(i))
  <2>1. Legs(i) \in Seq(LegsOf(i))
    BY <1>1, LegsFacts
  <2> QED BY <2>1 DEF ToSet
<1>3. p \in Positive /\ leg.strike \in i.session.strikes
  BY <1>2 DEF IsSession, Legs, LegsOf
<1>5. at \in Int
  <2>1. i.session.interval \in Int /\ i.start \in Int /\ c \in Int
    BY <1>1 DEF IsSession
  <2> QED BY <2>1 DEF Leaves
<1>7. u.observation = o /\ u.leg = leg /\ u.cycle = c /\ Junk(i, u) = Honest
  BY DEF ConstantItem, Junk, Repeated
<1>8. Told(i, u) = QuotesFor([l \in {leg} |-> Booked(i, o, at)], i.limits)
  <2>1. Book(i, u) = Booked(i, o, at)
    BY <1>7 DEF Book, Booked
  <2> HIDE DEF u, o, leg, at
  <2> QED BY <1>7, <2>1 DEF Told
<1> HIDE DEF leg, at, p, u
<1>9. {q.flags : q \in QuotesFor([l \in {leg} |-> Booked(i, o, at)], i.limits)} = {{Honest} \ {Honest}}
  BY <1>1, <1>3, <1>5, RepeatedIsTold
<1> HIDE DEF o
<1>10. Honest # "ONE_SIDED"
  BY DEF Honest
<1> QED BY <1>7, <1>8, <1>9, <1>10 DEF ItemIsTold, u

\* So is every item of a stream, the first of which is the nearest expiry's out-of-the-money leg.
LEMMA StreamIsTold ==
  ASSUME NEW i, IsSession(i), FeedBuilds(i), TellJunkApart(i)
  PROVE  LET stream == Stream(i)
             opening == stream[1].leg
         IN /\ \A n \in DOMAIN stream : ItemIsTold(i, stream[n]) /\ opening.expiry <= stream[n].leg.expiry
            /\ opening.kind = (IF opening.strike >= i.session.forward THEN "CALL" ELSE "PUT")
<1> DEFINE legs == Legs(i)
           stream == Stream(i)
           cycles == i.session.cycles
           Item(c, n) == IF i.feed = "synthetic" THEN SyntheticItem(i, c, n) ELSE ConstantItem(i, c, n)
           items == [c \in 1..cycles |-> [n \in DOMAIN legs |-> Item(c, n)]]
           Y == UNION {{Item(c, n) : n \in DOMAIN legs} : c \in 1..cycles}
<1>1. ConfigTaken(i.session) /\ cycles \in Nat /\ cycles >= 1
  BY DEF FeedBuilds, ConfigTaken, IsSession
<1>2. /\ legs \in Seq(LegsOf(i)) /\ legs # <<>>
      /\ \A n \in DOMAIN legs : legs[1].expiry <= legs[n].expiry
      /\ legs[1].kind = IF legs[1].strike >= i.session.forward THEN "CALL" ELSE "PUT"
  BY <1>1, LegsFacts
<1>3. stream = FlattenSeq(items)
  <2>1. CASE i.feed = "synthetic"
    <3>1. items = [c \in 1..cycles |-> [n \in DOMAIN legs |-> SyntheticItem(i, c, n)]]
      BY <2>1
    <3>2. stream = SyntheticStream(i.session, i.start, i.premium, i.draws)
      BY <2>1 DEF Stream
    <3> HIDE DEF items, stream
    <3>3. stream = FlattenSeq([c \in 1..cycles |-> [n \in DOMAIN legs |-> SyntheticItem(i, c, n)]])
      BY <3>2, Zenon DEF SyntheticStream, SyntheticItem, Legs
    <3> QED BY <3>1, <3>3
  <2>2. CASE i.feed # "synthetic"
    <3>1. items = [c \in 1..cycles |-> [n \in DOMAIN legs |-> ConstantItem(i, c, n)]]
      BY <2>2
    <3> DEFINE leaves == [c \in 1..cycles |-> Leaves(i, c)]
    <3>2. stream = ConstantStream(i.session, i.start, i.premium, leaves)
      BY <2>2 DEF Stream
    <3> DEFINE Left(c, n) ==
                 [leg |-> legs[n], cycle |-> c, place |-> n,
                  observation |-> [bid |-> Around(i.premium[legs[n]], i.session.spread).bid,
                                   ask |-> Around(i.premium[legs[n]], i.session.spread).ask,
                                   size |-> i.session.size, stamp |-> leaves[c]]]
    <3>4. \A c \in 1..cycles : leaves[c] = Leaves(i, c)
      OBVIOUS
    <3> HIDE DEF items, stream, leaves
    <3>3. stream = FlattenSeq([c \in 1..cycles |-> [n \in DOMAIN legs |-> Left(c, n)]])
      BY <3>2, Zenon DEF ConstantStream, Legs
    <3>5. \A c \in 1..cycles : \A n \in DOMAIN legs : Left(c, n) = ConstantItem(i, c, n)
      BY <3>4 DEF ConstantItem, Repeated
    <3> HIDE DEF Left
    <3>6. [c \in 1..cycles |-> [n \in DOMAIN legs |-> Left(c, n)]]
            = [c \in 1..cycles |-> [n \in DOMAIN legs |-> ConstantItem(i, c, n)]]
      BY <3>5
    <3> QED BY <3>1, <3>3, <3>6
  <2> QED BY <2>1, <2>2
<1>4. ASSUME NEW c \in 1..cycles, NEW n \in DOMAIN legs
      PROVE  ItemIsTold(i, Item(c, n)) /\ Item(c, n).leg = legs[n] /\ items[c][n] = Item(c, n)
  <2>1. CASE i.feed = "synthetic"
    <3>1. ItemIsTold(i, SyntheticItem(i, c, n))
      BY <2>1, SyntheticItemIsTold
    <3>2. SyntheticItem(i, c, n).leg = legs[n]
      BY DEF SyntheticItem
    <3> QED BY <2>1, <3>1, <3>2
  <2>2. CASE i.feed # "synthetic"
    <3>1. ItemIsTold(i, ConstantItem(i, c, n))
      BY <2>2, ConstantItemIsTold
    <3>2. ConstantItem(i, c, n).leg = legs[n]
      BY DEF ConstantItem
    <3> QED BY <2>2, <3>1, <3>2
  <2> QED BY <2>1, <2>2
<1> HIDE DEF Item
<1>5. items \in [1..cycles -> [DOMAIN legs -> Y]]
  OBVIOUS
<1> HIDE DEF items, legs, Y, cycles, stream
<1>6. /\ \A n \in DOMAIN stream : \E c \in 1..cycles : \E p \in DOMAIN legs : stream[n] = items[c][p]
      /\ 1 \in DOMAIN stream /\ stream[1] = items[1][1]
  <2>1. legs \in Seq(LegsOf(i)) /\ legs # <<>> /\ cycles \in Nat /\ cycles >= 1
    BY <1>1, <1>2
  <2>2. GathersCycles(FlattenSeq(items), items, cycles, DOMAIN legs)
    BY <1>5, <2>1, StreamGathers
  <2> QED BY <1>3, <2>2 DEF GathersCycles
<1>7. 1 \in 1..cycles /\ 1 \in DOMAIN legs
  BY <1>1, <1>2
<1>8. stream[1].leg = legs[1]
  BY <1>4, <1>6, <1>7
<1>9. ASSUME NEW n \in DOMAIN stream
      PROVE  ItemIsTold(i, stream[n]) /\ stream[1].leg.expiry <= stream[n].leg.expiry
  <2>1. PICK c \in 1..cycles, p \in DOMAIN legs : stream[n] = items[c][p]
    BY <1>6
  <2>2. ItemIsTold(i, stream[n]) /\ stream[n].leg = legs[p]
    BY <1>4, <2>1
  <2> QED BY <1>2, <1>8, <2>2
<1> QED BY <1>2, <1>8, <1>9 DEF stream

\* Of any slice and any session: the flags of neighbours are those of all the pairs and triples
\* there are, and each quote of a feed is told for what it is (flag_slice, _spoil).
THEOREM FlagsTell == RulesSpec => []FlagsTellWhatIsWrong
<1>1. ASSUME input \in Inputs PROVE FlagsTellWhatIsWrong
  <2>1. RuleInputs(input)
    BY <1>1, RulesAssumption
  <2>2. input.rule = "slice" => FlagSlice(input.slice, 0) = SliceArbitrage(input.slice)
    <3> SUFFICES ASSUME input.rule = "slice" PROVE FlagSlice(input.slice, 0) = SliceArbitrage(input.slice)
      OBVIOUS
    <3>1. IsCurve(input.slice.calls) /\ IsCurve(input.slice.puts)
      BY <2>1 DEF RuleInputs
    <3> DEFINE slice == input.slice
    <3> HIDE DEF slice
    <3>2. FlagSlice(slice, 0) = SliceArbitrage(slice)
      BY <3>1, NeighboursTellOfAll DEF slice
    <3> QED BY <3>2 DEF slice
  <2>3. ASSUME input.rule = "feed", FeedBuilds(input), TellJunkApart(input)
        PROVE  LET stream == Stream(input)
                   opening == stream[1].leg
               IN /\ \A n \in DOMAIN stream : ItemIsTold(input, stream[n])
                                               /\ opening.expiry <= stream[n].leg.expiry
                  /\ opening.kind = (IF opening.strike >= input.session.forward THEN "CALL" ELSE "PUT")
    <3>1. IsSession(input)
      BY <2>1, <2>3 DEF RuleInputs
    <3> QED BY <2>3, <3>1, StreamIsTold
  <2> QED BY <2>2, <2>3, Zenon DEF FlagsTellWhatIsWrong, ItemIsTold
<1> QED BY <1>1, DrawnOnce, PTL

--------------------------------------------------------------------------------
(* Fractions, without dividing.                                            *)

\* A positive factor on both sides of an equation goes.
LEMMA CancelFactor ==
  ASSUME NEW K \in Int, K > 0, NEW a \in Int, NEW b \in Int, K * a = K * b
  PROVE  a = b
<1>1. K * a > K * b <=> a > b
  BY PositiveFactor
<1>2. K * b > K * a <=> b > a
  BY PositiveFactor
<1>3. K * a \in Int /\ K * b \in Int
  OBVIOUS
<1> DEFINE x == K * a
           y == K * b
<1>4. x = y /\ x \in Int /\ (x > y <=> a > b) /\ (y > x <=> b > a)
  BY <1>1, <1>2, <1>3
<1> HIDE DEF x, y
<1> QED BY <1>4

\* A point inside an axis is the mean of the nodes that bracket it, weighted as Bracket has it.
Weighted(axis, b) == (b.part[2] - b.part[1]) * axis[b.near] + b.part[1] * axis[b.far]

\* Weighting two nodes as Bracket() does gives the value between them.
LEMMA InnerWeights ==
  ASSUME NEW a \in Int, NEW b \in Int, NEW v \in Int, NEW w \in Int
  PROVE  (((b - a) * w - (v - a * w)) * a + (v - a * w) * b) * w = v * ((b - a) * w)
OBVIOUS

\* On an axis and not beyond its ends, Bracket()'s weighted mean of nodes is the value asked for.
LEMMA BracketReads ==
  ASSUME NEW axis, IsAxis(axis), NEW v \in Int, NEW w \in Positive,
         AtMost(<<axis[1], 1>>, <<v, w>>), AtMost(<<v, w>>, <<axis[Len(axis)], 1>>)
  PROVE  LET b == Bracket(axis, <<v, w>>)
         IN /\ b.near \in 1..Len(axis) /\ b.far \in 1..Len(axis)
            /\ b.part[1] \in Int /\ b.part[2] \in Positive
            /\ Weighted(axis, b) * w = v * b.part[2]
<1> DEFINE last == Len(axis)
           value == <<v, w>>
           E == {last} \cup {i \in 1..last : axis[i] * value[2] > value[1]}
           far == Min(E)
           b == Bracket(axis, value)
           Good == /\ b.near \in 1..last /\ b.far \in 1..last
                   /\ b.part[1] \in Int /\ b.part[2] \in Positive
                   /\ Weighted(axis, b) * w = v * b.part[2]
<1>1. /\ axis \in Seq(Int) /\ last \in Nat /\ last >= 1 /\ w \in Int /\ w > 0
      /\ \A i \in 1..last : axis[i] \in Int
      /\ \A i, j \in 1..last : i < j => axis[i] < axis[j]
  BY DEF IsAxis, Positive
<1>2. axis[1] * w <= v * 1 /\ v * 1 <= axis[last] * w
  BY DEF AtMost
<1>3. axis[1] * w <= v /\ v <= axis[last] * w /\ axis[1] \in Int /\ axis[last] \in Int
      /\ 1 \in 1..last /\ last \in 1..last
  BY <1>1, <1>2
<1>4. b = IF AtMost(value, <<axis[1], 1>>) THEN [near |-> 1, far |-> 1, part |-> <<0, 1>>]
          ELSE IF AtMost(<<axis[last], 1>>, value) THEN [near |-> last, far |-> last, part |-> <<0, 1>>]
          ELSE [near |-> far - 1, far |-> far,
                part |-> <<value[1] - axis[far - 1] * value[2], (axis[far] - axis[far - 1]) * value[2]>>]
  BY Zenon DEF Bracket
<1> HIDE DEF b, far
<1>5. CASE AtMost(value, <<axis[1], 1>>)
  <2>1. v = axis[1] * w
    <3>1. v * 1 <= axis[1] * w
      BY <1>5 DEF AtMost
    <3> QED BY <1>1, <1>3, <3>1
  <2>2. b = [near |-> 1, far |-> 1, part |-> <<0, 1>>]
    BY <1>4, <1>5
  <2>3. b.near = 1 /\ b.far = 1 /\ b.part[1] = 0 /\ b.part[2] = 1
    BY <2>2
  <2>4. Weighted(axis, b) = axis[1]
    BY <1>3, <2>3 DEF Weighted
  <2> QED BY <1>1, <1>3, <2>1, <2>3, <2>4 DEF b, Positive
<1>6. CASE ~AtMost(value, <<axis[1], 1>>) /\ AtMost(<<axis[last], 1>>, value)
  <2>1. v = axis[last] * w
    <3>1. axis[last] * w <= v * 1
      BY <1>6 DEF AtMost
    <3> QED BY <1>1, <1>3, <3>1
  <2>2. b = [near |-> last, far |-> last, part |-> <<0, 1>>]
    BY <1>4, <1>6
  <2>3. b.near = last /\ b.far = last /\ b.part[1] = 0 /\ b.part[2] = 1
    BY <2>2
  <2>4. Weighted(axis, b) = axis[last]
    BY <1>3, <2>3 DEF Weighted
  <2> QED BY <1>1, <1>3, <2>1, <2>3, <2>4 DEF b, Positive
<1>7. CASE ~AtMost(value, <<axis[1], 1>>) /\ ~AtMost(<<axis[last], 1>>, value)
  <2>1. axis[1] * w < v /\ v < axis[last] * w
    <3>1. ~(v * 1 <= axis[1] * w) /\ ~(axis[last] * w <= v * 1)
      BY <1>7 DEF AtMost
    <3> QED BY <1>1, <1>3, <3>1
  <2>2. last # 1
    BY <2>1, <1>1, <1>3
  <2>3. far \in E /\ E \subseteq 1..last
    <3>1. E \subseteq Nat /\ E # {} /\ E \subseteq 1..last
      BY <1>1
    <3> HIDE DEF E
    <3>2. Min(E) \in E
      BY <3>1, MinIsFirst
    <3> QED BY <3>1, <3>2 DEF far
  <2>4. 1 \notin E
    BY <1>1, <1>3, <2>1, <2>2
  <2>5. far \in 1..last /\ far # 1 /\ far - 1 \in 1..last /\ far - 1 < far
    <3> HIDE DEF E
    <3> QED BY <1>1, <2>3, <2>4
  <2> DEFINE x == axis[far - 1]
             y == axis[far]
  <2>6. x \in Int /\ y \in Int /\ x < y
    BY <1>1, <2>5
  <2>7. b = [near |-> far - 1, far |-> far, part |-> <<v - x * w, (y - x) * w>>]
    BY <1>4, <1>7
  <2>8. b.near = far - 1 /\ b.far = far /\ b.part[1] = v - x * w /\ b.part[2] = (y - x) * w
    BY <2>7
  <2>9. Weighted(axis, b) = ((y - x) * w - (v - x * w)) * x + (v - x * w) * y
    BY <2>8 DEF Weighted
  <2> HIDE DEF x, y
  <2>10. Weighted(axis, b) * w = v * ((y - x) * w)
    BY <1>1, <2>6, <2>9, InnerWeights
  <2>11. v - x * w \in Int /\ (y - x) * w \in Int /\ (y - x) * w > 0
    BY <1>1, <2>6, PositiveFactor
  <2> QED BY <2>5, <2>8, <2>10, <2>11 DEF b, Positive
<1> QED BY <1>5, <1>6, <1>7

\* Between two nodes of an axis, what is linear in them.
LEMMA BetweenIsAffine ==
  ASSUME NEW p \in Int, NEW q \in Int, NEW x \in Int, NEW y \in Int, NEW a \in Int, NEW b \in Int
  PROVE  (q - p) * (a + b * x) + p * (a + b * y) = q * a + b * ((q - p) * x + p * y)
OBVIOUS

\* One row of a sampled law, read along the moneyness.
LEMMA AlongARow ==
  ASSUME NEW L \in Int, NEW S \in Int, NEW M \in Int, NEW W \in Int, NEW z \in Int,
         NEW q \in Int, NEW r \in Int, NEW a \in Int, NEW b \in Int
  PROVE  (q - r) * (L + S * a + M * z + W * a * z) + r * (L + S * b + M * z + W * b * z)
           = (q * L + S * ((q - r) * a + r * b)) + (q * M + W * ((q - r) * a + r * b)) * z
OBVIOUS

\* The law at a weighted moneyness and a weighted tenor.
LEMMA SpreadsOut ==
  ASSUME NEW L \in Int, NEW S \in Int, NEW M \in Int, NEW W \in Int,
         NEW X \in Int, NEW Y \in Int, NEW p \in Int, NEW q \in Int
  PROVE  p * (q * L + S * X) + (q * M + W * X) * Y
           = p * q * L + q * (M * Y) + p * (S * X) + W * (X * Y)
OBVIOUS

\* What a law makes of a moneyness and a tenor that are x and y over the same unit.
LawOver(law, U, x, y) ==
  law.level * (U * U) + law.slope * (U * x) + law.term * (U * y) + law.twist * (x * y)

\* Over their weights and the unit, the moneyness and the tenor are x and y themselves.
LEMMA LawReads ==
  ASSUME NEW law, law.level \in Int, law.slope \in Int, law.term \in Int, law.twist \in Int,
         NEW U \in Int, NEW X \in Int, NEW Y \in Int, NEW p \in Int, NEW q \in Int,
         NEW x \in Int, NEW y \in Int, X * U = q * x, Y * U = p * y
  PROVE  (p * q * law.level + q * (law.term * Y) + p * (law.slope * X) + law.twist * (X * Y)) * (U * U)
           = (p * q) * LawOver(law, U, x, y)
<1> DEFINE L == law.level
           S == law.slope
           M == law.term
           W == law.twist
<1>1. L \in Int /\ S \in Int /\ M \in Int /\ W \in Int
  OBVIOUS
<1> HIDE DEF L, S, M, W
<1>2. (p * q * L + q * (M * Y) + p * (S * X) + W * (X * Y)) * (U * U)
        = p * q * (L * (U * U)) + q * (M * U) * (Y * U) + p * (S * U) * (X * U) + W * ((X * U) * (Y * U))
  BY <1>1
<1>3. p * q * (L * (U * U)) + q * (M * U) * (p * y) + p * (S * U) * (q * x) + W * ((q * x) * (p * y))
        = (p * q) * (L * (U * U) + S * (U * x) + M * (U * y) + W * (x * y))
  BY <1>1
<1> DEFINE XU == X * U
           YU == Y * U
<1>4. (p * q * L + q * (M * Y) + p * (S * X) + W * (X * Y)) * (U * U)
        = p * q * (L * (U * U)) + q * (M * U) * YU + p * (S * U) * XU + W * (XU * YU)
  BY <1>2
<1>5. XU = q * x /\ YU = p * y
  OBVIOUS
<1> HIDE DEF XU, YU
<1>6. (p * q * L + q * (M * Y) + p * (S * X) + W * (X * Y)) * (U * U)
        = (p * q) * (L * (U * U) + S * (U * x) + M * (U * y) + W * (x * y))
  BY <1>3, <1>4, <1>5, Zenon
<1> QED BY <1>6 DEF LawOver, L, S, M, W

\* A sampled law, its axes and a row of it.
Samples(v, law) ==
  /\ v.instant = law.instant
  /\ IsAxis(v.ks) /\ IsAxis(v.tenors) /\ v.tenors[1] > 0
  /\ v.expiries \in Seq(Int) /\ Len(v.expiries) = Len(v.tenors)
  /\ \A i \in 1..Len(v.tenors) :
       /\ v.tenors[i] \in Int /\ v.expiries[i] = law.instant + law.units * v.tenors[i]
       /\ v.forwards[i] = law.carry * v.tenors[i]
       /\ \A j \in 1..Len(v.ks) :
            v.variance[i][j] = law.level + law.slope * v.ks[j] + law.term * v.tenors[i]
                                 + law.twist * v.ks[j] * v.tenors[i]

\* Sampling a law on a grid gives such a view.
LEMMA SampledFacts ==
  ASSUME NEW law \in Laws, NEW grid, IsGrid(grid)
  PROVE  Samples(Sampled(law, grid), law)
<1> DEFINE v == Sampled(law, grid)
           T == grid.tenors
           K == grid.ks
<1>1. v = [instant |-> law.instant, ks |-> K, tenors |-> T,
           expiries |-> [i \in DOMAIN T |-> law.instant + law.units * T[i]],
           forwards |-> [i \in DOMAIN T |-> law.carry * T[i]],
           variance |-> [i \in DOMAIN T |-> [j \in DOMAIN K |-> Law(law, K[j], T[i])]]]
  BY Zenon DEF Sampled
<1>2. T \in Seq(Int) /\ K \in Seq(Int) /\ T[1] > 0 /\ IsAxis(T) /\ IsAxis(K)
  BY DEF IsGrid, IsAxis
<1>3. DOMAIN T = 1..Len(T) /\ DOMAIN K = 1..Len(K) /\ \A i \in 1..Len(T) : T[i] \in Int
  BY <1>2
<1>4. law.instant \in Int /\ law.units \in Int
  BY DEF Laws, Positive
<1> HIDE DEF v, T, K
<1>5. v.ks = K /\ v.tenors = T /\ v.instant = law.instant
      /\ v.expiries = [i \in DOMAIN T |-> law.instant + law.units * T[i]]
      /\ v.forwards = [i \in DOMAIN T |-> law.carry * T[i]]
      /\ v.variance = [i \in DOMAIN T |-> [j \in DOMAIN K |-> Law(law, K[j], T[i])]]
  BY <1>1
<1>6. v.expiries \in [1..Len(T) -> Int]
  BY <1>3, <1>4, <1>5
<1>7. v.expiries \in Seq(Int) /\ Len(v.expiries) = Len(T)
  <2>1. Len(T) \in Nat
    BY <1>2
  <2> QED BY <1>6, <2>1
<1>8. ASSUME NEW i \in 1..Len(T)
      PROVE  /\ v.expiries[i] = law.instant + law.units * T[i]
             /\ v.forwards[i] = law.carry * T[i]
             /\ \A j \in 1..Len(K) :
                  v.variance[i][j] = law.level + law.slope * K[j]
                                       + law.term * T[i] + law.twist * K[j] * T[i]
  BY <1>3, <1>5 DEF Law
<1>9. Samples(v, law)
  BY <1>2, <1>3, <1>5, <1>7, <1>8 DEF Samples
<1> QED BY <1>9 DEF v

\* The total variance read anywhere inside the grid is the law's, whatever the nodes.
LEMMA TotalVarianceReads ==
  ASSUME NEW law \in Laws, NEW v, Samples(v, law), NEW k1 \in Int, NEW k2 \in Positive,
         NEW t1 \in Int, NEW t2 \in Positive, NEW U \in Positive, NEW x \in Int, NEW y \in Int,
         k1 * U = k2 * x, t1 * U = t2 * y,
         Covers(v, <<<<k1, k2>>, <<t1, t2>>>>)
  PROVE  LET f == TotalVariance(v, <<k1, k2>>, <<t1, t2>>)
         IN f[1] \in Int /\ f[2] \in Positive /\ f[1] * (U * U) = f[2] * LawOver(law, U, x, y)
<1> DEFINE K == v.ks
           T == v.tenors
           t == Bracket(T, <<t1, t2>>)
           m == Bracket(K, <<k1, k2>>)
           f == TotalVariance(v, <<k1, k2>>, <<t1, t2>>)
           V(i, j) == v.variance[i][j]
<1>1. /\ law.level \in Int /\ law.slope \in Int /\ law.term \in Int /\ law.twist \in Int
      /\ k2 \in Int /\ k2 > 0 /\ t2 \in Int /\ t2 > 0 /\ U \in Int /\ U > 0
  BY DEF Laws, Positive
<1>2. IsAxis(K) /\ IsAxis(T)
  BY DEF Samples
<1>3. ASSUME NEW i \in 1..Len(T), NEW j \in 1..Len(K)
      PROVE  V(i, j) = law.level + law.slope * K[j] + law.term * T[i] + law.twist * K[j] * T[i]
  BY DEF Samples
<1>4. f = Between(Between(<<V(t.near, m.near), 1>>, <<V(t.near, m.far), 1>>, m.part),
                  Between(<<V(t.far, m.near), 1>>, <<V(t.far, m.far), 1>>, m.part), t.part)
  BY Zenon DEF TotalVariance
<1>5. /\ AtMost(<<K[1], 1>>, <<k1, k2>>) /\ AtMost(<<k1, k2>>, <<Last(K), 1>>)
      /\ AtMost(<<T[1], 1>>, <<t1, t2>>) /\ AtMost(<<t1, t2>>, <<Last(T), 1>>)
  BY DEF Covers
<1> HIDE DEF K, T, f, V
<1>6. K \in Seq(Int) /\ Last(K) = K[Len(K)] /\ \A j \in 1..Len(K) : K[j] \in Int
  BY <1>2 DEF IsAxis, Last
<1>7. T \in Seq(Int) /\ Last(T) = T[Len(T)] /\ \A j \in 1..Len(T) : T[j] \in Int
  BY <1>2 DEF IsAxis, Last
<1>8. /\ m.near \in 1..Len(K) /\ m.far \in 1..Len(K)
      /\ m.part[1] \in Int /\ m.part[2] \in Positive
      /\ Weighted(K, m) * k2 = k1 * m.part[2]
  BY <1>2, <1>5, <1>6, BracketReads
<1>9. /\ t.near \in 1..Len(T) /\ t.far \in 1..Len(T)
      /\ t.part[1] \in Int /\ t.part[2] \in Positive
      /\ Weighted(T, t) * t2 = t1 * t.part[2]
  BY <1>2, <1>5, <1>7, BracketReads
<1> HIDE DEF t, m
<1>9a. t.part[2] \in Int /\ t.part[2] > 0 /\ m.part[2] \in Int /\ m.part[2] > 0
  <2>1. \A n \in Positive : n \in Int /\ n > 0
    BY DEF Positive
  <2>2. t.part[2] \in Positive /\ m.part[2] \in Positive
    BY <1>8, <1>9, Zenon
  <2> QED BY <2>1, <2>2, Zenon
<1> DEFINE L == law.level
           S == law.slope
           M == law.term
           W == law.twist
           a == K[m.near]
           b == K[m.far]
           c == T[t.near]
           d == T[t.far]
           p == t.part[2]
           q == m.part[2]
           r == m.part[1]
           s == t.part[1]
           X == (q - r) * a + r * b
           Y == (p - s) * c + s * d
           C == q * L + S * X
           D == q * M + W * X
           At(z, w) == L + S * z + M * w + W * z * w
<1>10. X = Weighted(K, m) /\ Y = Weighted(T, t)
  BY DEF Weighted
<1>11. /\ L \in Int /\ S \in Int /\ M \in Int /\ W \in Int
       /\ a \in Int /\ b \in Int /\ c \in Int /\ d \in Int /\ r \in Int /\ s \in Int
  BY <1>1, <1>6, <1>7, <1>8, <1>9
<1>12. p \in Int /\ p > 0 /\ q \in Int /\ q > 0
  BY <1>9a, Zenon
<1>13. V(t.near, m.near) = At(a, c) /\ V(t.near, m.far) = At(b, c)
  BY <1>3, <1>8, <1>9
<1>14. V(t.far, m.near) = At(a, d) /\ V(t.far, m.far) = At(b, d)
  BY <1>3, <1>8, <1>9
<1>15. /\ Between(<<V(t.near, m.near), 1>>, <<V(t.near, m.far), 1>>, m.part)
            = <<(q - r) * At(a, c) + r * At(b, c), q * 1>>
       /\ Between(<<V(t.far, m.near), 1>>, <<V(t.far, m.far), 1>>, m.part)
            = <<(q - r) * At(a, d) + r * At(b, d), q * 1>>
  BY <1>13, <1>14, Zenon DEF Between
<1>16. X * k2 = k1 * q /\ Y * t2 = t1 * p
  BY <1>8, <1>9, <1>10
<1> HIDE DEF L, S, M, W, a, b, c, d, p, q, r, s
<1>17. (q - r) * At(a, c) + r * At(b, c) = C + D * c /\ (q - r) * At(a, d) + r * At(b, d) = C + D * d
  BY <1>11, <1>12, AlongARow
<1>18. X \in Int /\ Y \in Int
  BY <1>11, <1>12
<1> HIDE DEF X, Y, At
<1>19. C \in Int /\ D \in Int
  BY <1>11, <1>12, <1>18
<1> HIDE DEF C, D
<1>20. f = Between(<<C + D * c, q * 1>>, <<C + D * d, q * 1>>, t.part)
  BY <1>4, <1>15, <1>17
<1>21. f = <<(p - s) * (C + D * c) + s * (C + D * d), p * (q * 1)>>
  BY <1>20, Zenon DEF Between, p, s
<1>22. (p - s) * (C + D * c) + s * (C + D * d) = p * C + D * Y
  BY <1>11, <1>12, <1>19, BetweenIsAffine DEF Y
<1>23. p * C + D * Y = p * q * L + q * (M * Y) + p * (S * X) + W * (X * Y)
  BY <1>11, <1>12, <1>18, SpreadsOut DEF C, D
<1>24. p * (q * 1) = p * q /\ p * q \in Int /\ p * q > 0
  BY <1>12, PositiveFactor
<1>25. p * C + D * Y \in Int
  BY <1>11, <1>12, <1>18, <1>19
<1>26. f[1] = p * C + D * Y /\ f[2] = p * q
  BY <1>21, <1>22, <1>24
<1>27. X * U = q * x
  <2>1. k2 * (X * U) = (X * k2) * U
    BY <1>1, <1>18
  <2>2. (X * k2) * U = (k1 * q) * U
    BY <1>16
  <2>3. (k1 * q) * U = q * (k1 * U)
    BY <1>1, <1>12
  <2>4. q * (k1 * U) = q * (k2 * x)
    OBVIOUS
  <2>5. q * (k2 * x) = k2 * (q * x)
    BY <1>1, <1>12
  <2>6. k2 * (X * U) = k2 * (q * x) /\ X * U \in Int /\ q * x \in Int
    BY <1>1, <1>12, <1>18, <2>1, <2>2, <2>3, <2>4, <2>5
  <2> QED BY <1>1, <2>6, CancelFactor
<1>28. Y * U = p * y
  <2>1. t2 * (Y * U) = (Y * t2) * U
    BY <1>1, <1>18
  <2>2. (Y * t2) * U = (t1 * p) * U
    BY <1>16
  <2>3. (t1 * p) * U = p * (t1 * U)
    BY <1>1, <1>12
  <2>4. p * (t1 * U) = p * (t2 * y)
    OBVIOUS
  <2>5. p * (t2 * y) = t2 * (p * y)
    BY <1>1, <1>12
  <2>6. t2 * (Y * U) = t2 * (p * y) /\ Y * U \in Int /\ p * y \in Int
    BY <1>1, <1>12, <1>18, <2>1, <2>2, <2>3, <2>4, <2>5
  <2> QED BY <1>1, <2>6, CancelFactor
<1>29. (p * q * L + q * (M * Y) + p * (S * X) + W * (X * Y)) * (U * U) = (p * q) * LawOver(law, U, x, y)
  BY <1>1, <1>12, <1>18, <1>27, <1>28, LawReads DEF L, S, M, W
<1>30. f[1] * (U * U) = f[2] * LawOver(law, U, x, y)
  BY <1>23, <1>26, <1>29
<1>31. f[1] \in Int /\ f[2] \in Positive
  <2>1. f[2] \in Nat \ {0}
    BY <1>24, <1>26
  <2> QED BY <1>25, <1>26, <2>1 DEF Positive
<1> QED BY <1>30, <1>31 DEF f

--------------------------------------------------------------------------------
(* A position on a surface.                                                *)

\* Before the first listed expiry the tenor is a share of its tenor.
LEMMA BeforeTheFirst ==
  ASSUME NEW U \in Int, NEW T \in Int, NEW I \in Int, NEW X \in Int, NEW x \in Int, X = I + U * T
  PROVE  (((X - I) - (x - I)) * 0 + (x - I) * T) * U = ((X - I) * 1) * (x - I)
OBVIOUS

\* Between two listed expiries the tenor is as far between theirs.
LEMMA BetweenListed ==
  ASSUME NEW A \in Int, NEW B \in Int, NEW I \in Int, NEW x \in Int
  PROVE  ((B - A) - (x - (I + A))) * A + (x - (I + A)) * B = (B - A) * (x - I)
OBVIOUS

\* Where the tenor lies between the nodes, it is the time to the expiry in the law's unit.
LEMMA TenorReads ==
  ASSUME NEW law \in Laws, NEW v, Samples(v, law), NEW x \in Int, x <= Last(v.expiries)
  PROVE  LET t == TenorOf(v, x)
         IN t[1] \in Int /\ t[2] \in Positive /\ t[1] * law.units = t[2] * (x - law.instant)
<1> DEFINE T == v.tenors
           X == v.expiries
           last == Len(X)
           S == {i \in 1..last : X[i] <= x}
           near == Cardinality(S)
           t == TenorOf(v, x)
           I == law.instant
           U == law.units
           Good(f) == f[1] \in Int /\ f[2] \in Positive /\ f[1] * U = f[2] * (x - I)
<1>1. /\ I \in Int /\ U \in Int /\ U > 0
  BY DEF Laws, Positive
<1>2. /\ X \in Seq(Int) /\ last \in Nat /\ last = Len(T) /\ IsAxis(T) /\ T[1] > 0
      /\ v.instant = I
      /\ \A i \in 1..last : X[i] = I + U * T[i] /\ T[i] \in Int
  BY DEF Samples
<1>3. t = IF near = 0
            THEN Between(<<0, 1>>, <<T[1], 1>>, <<x - v.instant, X[1] - v.instant>>)
          ELSE IF near = last THEN <<T[last], 1>>
          ELSE Between(<<T[near], 1>>, <<T[near + 1], 1>>, <<x - X[near], X[near + 1] - X[near]>>)
  BY Zenon DEF TenorOf
<1>4. x <= Last(X)
  OBVIOUS
<1> HIDE DEF T, X, t, I, U
<1>5. last >= 1 /\ 1 \in 1..last /\ last \in 1..last /\ Last(X) = X[last]
  <2>1. last >= 1
    BY <1>2 DEF IsAxis
  <2> QED BY <1>2, <2>1 DEF Last
<1>6. \A i, j \in 1..last : i < j => T[i] < T[j]
  <2>1. T \in Seq(Int) /\ \A i, j \in DOMAIN T : i < j => T[i] < T[j]
    BY <1>2 DEF IsAxis
  <2>2. DOMAIN T = 1..last
    BY <1>2, <2>1
  <2> QED BY <2>1, <2>2
<1>7. S \subseteq 1..last /\ IsFiniteSet(1..last) /\ Cardinality(1..last) = last
  <2>1. S \subseteq 1..last
    OBVIOUS
  <2> HIDE DEF S
  <2>2. last \in Int /\ 1 \in Int /\ ~(1 > last) /\ last - 1 + 1 = last
    BY <1>2, <1>5
  <2> HIDE DEF last
  <2>3. IsFiniteSet(1..last) /\ Cardinality(1..last) = IF 1 > last THEN 0 ELSE last - 1 + 1
    BY <2>2, FS_Interval
  <2> QED BY <2>1, <2>2, <2>3
<1> HIDE DEF S
<1>8. near \in Nat /\ near <= last /\ (near = last => S = 1..last)
  <2>1. IsFiniteSet(S) /\ Cardinality(S) <= Cardinality(1..last)
        /\ (Cardinality(S) = Cardinality(1..last) => S = 1..last)
    BY <1>7, FS_Subset
  <2>2. Cardinality(S) \in Nat
    BY <2>1, FS_CardinalityType
  <2> QED BY <1>7, <2>1, <2>2
<1> HIDE DEF near
<1>9. CASE near = 0
  <2>1. t = Between(<<0, 1>>, <<T[1], 1>>, <<x - I, X[1] - I>>)
    BY <1>2, <1>3, <1>9
  <2>2. t = <<((X[1] - I) - (x - I)) * 0 + (x - I) * T[1], (X[1] - I) * 1>>
    BY <2>1, Zenon DEF Between
  <2> DEFINE X1 == X[1]
             T1 == T[1]
             a == ((X1 - I) - (x - I)) * 0 + (x - I) * T1
             b == (X1 - I) * 1
  <2>3. X1 = I + U * T1 /\ T1 \in Int /\ T1 > 0
    BY <1>2, <1>5
  <2> HIDE DEF X1, T1
  <2>4. U * T1 \in Int /\ U * T1 > 0
    BY <1>1, <2>3, PositiveFactor
  <2>5. X1 \in Int
    BY <1>1, <2>3, <2>4
  <2>6. a * U = b * (x - I)
    BY <1>1, <2>3, <2>5, BeforeTheFirst
  <2>7. a \in Int
    BY <1>1, <2>3, <2>5
  <2>8. b \in Int /\ b > 0
    BY <1>1, <2>3, <2>4, <2>5
  <2> HIDE DEF a, b
  <2>9. t[1] = a /\ t[2] = b
    BY <2>2 DEF a, b, X1, T1
  <2> QED BY <2>6, <2>7, <2>8, <2>9 DEF Positive, t, U, I
<1>10. CASE near # 0 /\ near = last
  <2>1. t = <<T[last], 1>>
    BY <1>3, <1>10
  <2>2. X[last] <= x
    BY <1>5, <1>8, <1>10 DEF S
  <2>3. X[last] = x
    <3>1. X[last] \in Int
      BY <1>2, <1>5
    <3> QED BY <1>4, <1>5, <2>2, <3>1
  <2>4. x = I + U * T[last] /\ T[last] \in Int
    BY <1>2, <1>5, <2>3
  <2>5. t[1] = T[last] /\ t[2] = 1
    BY <2>1
  <2>6. t[1] * U = t[2] * (x - I)
    BY <1>1, <2>4, <2>5
  <2> QED BY <2>4, <2>5, <2>6 DEF Positive, t, U, I
<1>11. CASE near # 0 /\ near # last
  <2>1. near \in 1..last /\ near + 1 \in 1..last /\ near < near + 1
    BY <1>2, <1>8, <1>11
  <2>2. t = Between(<<T[near], 1>>, <<T[near + 1], 1>>, <<x - X[near], X[near + 1] - X[near]>>)
    BY <1>3, <1>11
  <2>3. t = <<((X[near + 1] - X[near]) - (x - X[near])) * T[near] + (x - X[near]) * T[near + 1],
              (X[near + 1] - X[near]) * 1>>
    BY <2>2, Zenon DEF Between
  <2> DEFINE c == T[near]
             d == T[near + 1]
             XC == X[near]
             XD == X[near + 1]
             a == ((XD - XC) - (x - XC)) * c + (x - XC) * d
             b == (XD - XC) * 1
             A == U * c
             B == U * d
  <2>4. c \in Int /\ d \in Int /\ c < d /\ XC = I + A /\ XD = I + B
    BY <1>2, <1>6, <2>1
  <2> HIDE DEF c, d, XC, XD
  <2>5. A \in Int /\ B \in Int /\ A < B
    BY <1>1, <2>4, PositiveFactor
  <2>6. a * U = ((XD - XC) - (x - XC)) * A + (x - XC) * B
    <3>1. XC \in Int /\ XD \in Int
      BY <1>1, <2>4, <2>5
    <3> QED BY <1>1, <2>4, <3>1
  <2> HIDE DEF A, B
  <2>7. a * U = b * (x - I)
    <3>1. ((XD - XC) - (x - XC)) * A + (x - XC) * B = ((B - A) - (x - (I + A))) * A + (x - (I + A)) * B
      BY <1>1, <2>4, <2>5
    <3>2. ((B - A) - (x - (I + A))) * A + (x - (I + A)) * B = (B - A) * (x - I)
      BY <1>1, <2>5, BetweenListed
    <3>3. b = B - A
      BY <1>1, <2>4, <2>5
    <3> QED BY <2>6, <3>1, <3>2, <3>3
  <2>8. a \in Int /\ b \in Int /\ b > 0
    <3>1. XC \in Int /\ XD \in Int /\ XC < XD
      BY <1>1, <2>4, <2>5
    <3> QED BY <2>4, <3>1
  <2> HIDE DEF a, b
  <2>9. t[1] = a /\ t[2] = b
    BY <2>3 DEF a, b, c, d, XC, XD
  <2> QED BY <2>7, <2>8, <2>9 DEF Positive, t, U, I
<1> QED BY <1>9, <1>10, <1>11

\* The forward of a point inside the grid is the law's.
LEMMA ForwardReads ==
  ASSUME NEW law \in Laws, NEW v, Samples(v, law), NEW t1 \in Int, NEW t2 \in Positive,
         NEW e \in Int, t1 * law.units = t2 * e,
         AtMost(<<v.tenors[1], 1>>, <<t1, t2>>), AtMost(<<t1, t2>>, <<Last(v.tenors), 1>>)
  PROVE  LET f == ForwardAt(v, <<t1, t2>>)
         IN f[1] \in Int /\ f[2] \in Positive /\ f[1] * law.units = f[2] * (law.carry * e)
<1> DEFINE T == v.tenors
           t == Bracket(T, <<t1, t2>>)
           f == ForwardAt(v, <<t1, t2>>)
           C == law.carry
           U == law.units
<1>1. C \in Int /\ U \in Int /\ U > 0 /\ t2 \in Int /\ t2 > 0
  BY DEF Laws, Positive
<1>2. IsAxis(T) /\ \A i \in 1..Len(T) : v.forwards[i] = C * T[i]
  BY DEF Samples
<1>3. t1 * U = t2 * e
  OBVIOUS
<1>4. f = Between(<<v.forwards[t.near], 1>>, <<v.forwards[t.far], 1>>, t.part)
  BY Zenon DEF ForwardAt
<1>5. AtMost(<<T[1], 1>>, <<t1, t2>>) /\ AtMost(<<t1, t2>>, <<Last(T), 1>>)
  OBVIOUS
<1> HIDE DEF T, C, U, f
<1>6. T \in Seq(Int) /\ Last(T) = T[Len(T)] /\ \A j \in 1..Len(T) : T[j] \in Int
  BY <1>2 DEF IsAxis, Last
<1>7. /\ t.near \in 1..Len(T) /\ t.far \in 1..Len(T)
      /\ t.part[1] \in Int /\ t.part[2] \in Positive
      /\ Weighted(T, t) * t2 = t1 * t.part[2]
  BY <1>2, <1>5, <1>6, BracketReads
<1> HIDE DEF t
<1> DEFINE c == T[t.near]
           d == T[t.far]
           p == t.part[2]
           s == t.part[1]
           Y == (p - s) * c + s * d
<1>8. c \in Int /\ d \in Int /\ s \in Int /\ p \in Int /\ p > 0
  <2>1. c \in Int /\ d \in Int /\ s \in Int
    BY <1>6, <1>7
  <2>2. p \in Int /\ p > 0
    BY <1>7 DEF Positive
  <2> QED BY <2>1, <2>2
<1>9. v.forwards[t.near] = C * c /\ v.forwards[t.far] = C * d
  BY <1>2, <1>7
<1>10. f = <<(p - s) * (C * c) + s * (C * d), p * 1>>
  BY <1>4, <1>9, Zenon DEF Between
<1>11. Y * t2 = t1 * p
  BY <1>7 DEF Weighted
<1> HIDE DEF c, d, p, s
<1>12. (p - s) * (C * c) + s * (C * d) = C * Y /\ Y \in Int
  BY <1>1, <1>8
<1> HIDE DEF Y
<1>13. Y * U = p * e
  <2>1. t2 * (Y * U) = (Y * t2) * U
    BY <1>1, <1>12
  <2>2. (Y * t2) * U = (t1 * p) * U
    BY <1>11
  <2>3. (t1 * p) * U = p * (t1 * U)
    BY <1>1, <1>8
  <2>4. p * (t1 * U) = p * (t2 * e)
    BY <1>3
  <2>5. p * (t2 * e) = t2 * (p * e)
    BY <1>1, <1>8
  <2>6. t2 * (Y * U) = t2 * (p * e) /\ Y * U \in Int /\ p * e \in Int
    BY <1>1, <1>8, <1>12, <2>1, <2>2, <2>3, <2>4, <2>5
  <2> QED BY <1>1, <2>6, CancelFactor
<1>14. f[1] = C * Y /\ f[2] = p
  <2>1. p * 1 = p
    BY <1>8
  <2> QED BY <1>10, <1>12, <2>1
<1>15. C * Y \in Int
  BY <1>1, <1>12
<1>16. (C * Y) * U = p * (C * e)
  <2>1. (C * Y) * U = C * (Y * U)
    BY <1>1, <1>12
  <2>2. C * (Y * U) = C * (p * e)
    BY <1>13
  <2>3. C * (p * e) = p * (C * e)
    BY <1>1, <1>8
  <2> QED BY <2>1, <2>2, <2>3
<1> QED BY <1>8, <1>14, <1>15, <1>16 DEF Positive, f, C, U

\* A fraction that is a number over the square of a unit.
IsOver(f, U, N) == f[1] \in Int /\ f[2] \in Positive /\ f[1] * (U * U) = f[2] * N

\* Two such fractions of one number are equal.
LEMMA OneNumber ==
  ASSUME NEW U \in Positive, NEW N \in Int, NEW f, NEW g, IsOver(f, U, N), IsOver(g, U, N)
  PROVE  f[1] * g[2] = g[1] * f[2]
<1> DEFINE a == f[1]
           b == f[2]
           c == g[1]
           d == g[2]
           V == U * U
<1>1. a \in Int /\ a * V = b * N
  BY DEF IsOver
<1>2. c \in Int /\ c * V = d * N
  BY DEF IsOver
<1>3. b \in Int /\ d \in Int
  BY DEF IsOver, Positive
<1>4. V \in Int /\ V > 0
  <2>1. U \in Int /\ U > 0
    BY DEF Positive
  <2> QED BY <2>1, PositiveFactor
<1> HIDE DEF a, b, c, d, V
<1>5. V * (a * d) = V * (c * b)
  <2>1. V * (a * d) = (a * V) * d
    BY <1>1, <1>3, <1>4
  <2>2. (a * V) * d = (b * N) * d
    BY <1>1
  <2>3. (b * N) * d = (d * N) * b
    BY <1>3
  <2>4. (d * N) * b = (c * V) * b
    BY <1>2
  <2>5. (c * V) * b = V * (c * b)
    BY <1>2, <1>3, <1>4
  <2> QED BY <2>1, <2>2, <2>3, <2>4, <2>5
<1>6. a * d \in Int /\ c * b \in Int
  BY <1>1, <1>2, <1>3
<1>7. a * d = c * b
  BY <1>4, <1>5, <1>6, CancelFactor
<1> QED BY <1>7 DEF a, b, c, d

\* A law's value over a unit is a whole number.
LEMMA ValueIsWhole ==
  ASSUME NEW law \in Laws, NEW U \in Int, NEW x \in Int, NEW y \in Int
  PROVE  LawOver(law, U, x, y) \in Int
<1>1. law.level \in Int /\ law.slope \in Int /\ law.term \in Int /\ law.twist \in Int
  BY DEF Laws
<1> QED BY <1>1 DEF LawOver

\* Where a position is on a sampled surface: over the law's unit, its log-moneyness and the time to
\* its expiry, whatever the nodes.
Time(law, p) == p.expiry - law.instant
Moneyness(law, p) == p.strike * law.units - law.carry * Time(law, p)

\* Place() finds the position at that moneyness and that time, as fractions of the view's own.
LEMMA PlaceReads ==
  ASSUME NEW law \in Laws, NEW v, Samples(v, law), NEW p \in Position,
         Covers(v, Place(v, p)), p.expiry <= Last(v.expiries)
  PROVE  \E k1, t1 \in Int, k2, t2 \in Positive :
           /\ Place(v, p) = <<<<k1, k2>>, <<t1, t2>>>>
           /\ k1 * law.units = k2 * Moneyness(law, p) /\ t1 * law.units = t2 * Time(law, p)
<1> DEFINE U == law.units
           C == law.carry
           I == law.instant
           K == p.strike
           t == TenorOf(v, p.expiry)
           f == ForwardAt(v, t)
           e == Time(law, p)
           x == Moneyness(law, p)
<1>1. U \in Int /\ U > 0 /\ C \in Int /\ I \in Int /\ K \in Int /\ p.expiry \in Int
  BY DEF Laws, Positive, Position
<1>2. e = p.expiry - I /\ e \in Int
  BY <1>1 DEF Time
<1>3. x = K * U - C * e /\ x \in Int
  BY <1>1, <1>2 DEF Moneyness
<1>4. t[1] \in Int /\ t[2] \in Positive /\ t[1] * U = t[2] * e
  BY <1>1, <1>2, TenorReads
<1>5. Place(v, p) = <<<<K * f[2] - f[1], f[2]>>, t>>
  BY Zenon DEF Place
<1>6. AtMost(<<v.tenors[1], 1>>, t) /\ AtMost(t, <<Last(v.tenors), 1>>)
  BY <1>5 DEF Covers
<1>7. t = <<t[1], t[2]>>
  <2> DEFINE A(a, b, c) == Between(a, b, c)
  <2>1. \A a, b, c : A(a, b, c) = <<A(a, b, c)[1], A(a, b, c)[2]>>
    BY DEF Between
  <2>2. \A a : <<a, 1>> = <<<<a, 1>>[1], <<a, 1>>[2]>>
    OBVIOUS
  <2> HIDE DEF A
  <2>3. \/ \E a, b, c : t = A(a, b, c)
        \/ \E a : t = <<a, 1>>
    BY Zenon DEF TenorOf, A
  <2> QED BY <2>1, <2>2, <2>3
<1> DEFINE t1 == t[1]
           t2 == t[2]
           f1 == f[1]
           f2 == f[2]
<1>8. f1 \in Int /\ f2 \in Positive /\ f1 * U = f2 * (C * e)
  <2>1. ForwardAt(v, t) = ForwardAt(v, <<t1, t2>>) /\ AtMost(<<v.tenors[1], 1>>, <<t1, t2>>)
        /\ AtMost(<<t1, t2>>, <<Last(v.tenors), 1>>)
    BY <1>6, <1>7
  <2> DEFINE g == ForwardAt(v, <<t1, t2>>)
  <2>2. g[1] \in Int /\ g[2] \in Positive /\ g[1] * U = g[2] * (C * e)
    BY <1>2, <1>4, <2>1, ForwardReads
  <2> QED BY <2>1, <2>2
<1>9. f2 \in Int
  BY <1>8 DEF Positive
<1>10. Place(v, p) = <<<<K * f2 - f1, f2>>, <<t1, t2>>>>
  BY <1>5, <1>7
<1> HIDE DEF t1, t2, f1, f2, e, x, U, C, K
<1>11. (K * f2 - f1) * U = f2 * x
  <2>1. (K * f2 - f1) * U = f2 * (K * U) - f1 * U
    BY <1>1, <1>8, <1>9
  <2>2. f2 * (K * U) - f2 * (C * e) = f2 * (K * U - C * e)
    BY <1>1, <1>2, <1>9
  <2> QED BY <1>3, <1>8, <2>1, <2>2
<1>12. K * f2 - f1 \in Int
  BY <1>1, <1>8, <1>9
<1>13. t1 \in Int /\ t2 \in Positive /\ t1 * U = t2 * e
  BY <1>4 DEF t1, t2
<1> QED BY <1>8, <1>10, <1>11, <1>12, <1>13 DEF U, e, x

\* So its variance is the law's, whatever the nodes (_revalue).
LEMMA RevalueReads ==
  ASSUME NEW law \in Laws, NEW v, Samples(v, law), NEW p \in Position,
         Covers(v, Place(v, p)), p.expiry <= Last(v.expiries)
  PROVE  IsOver(Revalue(v, p), law.units, LawOver(law, law.units, Moneyness(law, p), Time(law, p)))
<1> DEFINE x == Moneyness(law, p)
           e == Time(law, p)
           U == law.units
<1>1. U \in Positive /\ x \in Int /\ e \in Int
  <2>1. /\ law.units \in Positive /\ law.units \in Int /\ law.carry \in Int /\ law.instant \in Int
        /\ p.strike \in Int /\ p.expiry \in Int
    BY DEF Laws, Positive, Position
  <2>2. Time(law, p) \in Int
    BY <2>1 DEF Time
  <2> QED BY <2>1, <2>2 DEF Moneyness
<1>2. PICK k1 \in Int, t1 \in Int, k2 \in Positive, t2 \in Positive :
        /\ Place(v, p) = <<<<k1, k2>>, <<t1, t2>>>>
        /\ k1 * U = k2 * x /\ t1 * U = t2 * e
  BY PlaceReads
<1>3. Revalue(v, p) = TotalVariance(v, <<k1, k2>>, <<t1, t2>>)
  <2>1. Place(v, p)[1] = <<k1, k2>> /\ Place(v, p)[2] = <<t1, t2>>
    BY <1>2
  <2> QED BY <2>1, Zenon DEF Revalue
<1>4. Covers(v, <<<<k1, k2>>, <<t1, t2>>>>)
  BY <1>2
<1> HIDE DEF U, x, e
<1> DEFINE f == TotalVariance(v, <<k1, k2>>, <<t1, t2>>)
<1>5. f[1] \in Int /\ f[2] \in Positive /\ f[1] * (U * U) = f[2] * LawOver(law, U, x, e)
  BY <1>1, <1>2, <1>4, TotalVarianceReads
<1> QED BY <1>3, <1>5 DEF IsOver, U, x, e

\* A node of a view is inside it.
LEMMA NodesAreCovered ==
  ASSUME NEW law \in Laws, NEW v, Samples(v, law), NEW k \in ToSet(v.ks), NEW t \in ToSet(v.tenors)
  PROVE  k \in Int /\ t \in Int /\ Covers(v, <<<<k, 1>>, <<t, 1>>>>)
<1>1. ASSUME NEW axis, IsAxis(axis), NEW n \in ToSet(axis)
      PROVE  n \in Int /\ AtMost(<<axis[1], 1>>, <<n, 1>>) /\ AtMost(<<n, 1>>, <<Last(axis), 1>>)
  <2>1. /\ axis \in Seq(Int) /\ axis # <<>> /\ Last(axis) = axis[Len(axis)]
        /\ \A i, j \in DOMAIN axis : i < j => axis[i] < axis[j]
    BY <1>1 DEF IsAxis, Last
  <2>2. PICK i \in DOMAIN axis : axis[i] = n
    BY <1>1 DEF ToSet
  <2>3. DOMAIN axis = 1..Len(axis) /\ Len(axis) \in Nat
    BY <2>1
  <2>4. 1 \in DOMAIN axis /\ Len(axis) \in DOMAIN axis
    BY <2>2, <2>3
  <2>5. /\ axis[1] \in Int /\ axis[Len(axis)] \in Int /\ n \in Int
    BY <2>1, <2>2, <2>3, <2>4
  <2>6. axis[1] <= n /\ n <= axis[Len(axis)]
    BY <2>1, <2>2, <2>3, <2>4, <2>5
  <2> QED BY <2>1, <2>5, <2>6 DEF AtMost
<1>2. IsAxis(v.ks) /\ IsAxis(v.tenors)
  BY DEF Samples
<1>3. /\ k \in Int /\ AtMost(<<v.ks[1], 1>>, <<k, 1>>) /\ AtMost(<<k, 1>>, <<Last(v.ks), 1>>)
  BY <1>1, <1>2
<1>4. /\ t \in Int /\ AtMost(<<v.tenors[1], 1>>, <<t, 1>>) /\ AtMost(<<t, 1>>, <<Last(v.tenors), 1>>)
  BY <1>1, <1>2
<1> QED BY <1>3, <1>4 DEF Covers

\* At a node, any grid that covers it reads the law's own variance.
LEMMA NodeReads ==
  ASSUME NEW law \in Laws, NEW v, Samples(v, law), NEW k \in Int, NEW t \in Int,
         Covers(v, <<<<k, 1>>, <<t, 1>>>>)
  PROVE  IsOver(TotalVariance(v, <<k, 1>>, <<t, 1>>), 1, LawOver(law, 1, k, t))
<1>1. 1 \in Positive /\ k * 1 = 1 * k /\ t * 1 = 1 * t
  BY DEF Positive
<1> DEFINE f == TotalVariance(v, <<k, 1>>, <<t, 1>>)
<1>2. f[1] \in Int /\ f[2] \in Positive /\ f[1] * (1 * 1) = f[2] * LawOver(law, 1, k, t)
  BY <1>1, TotalVarianceReads
<1> HIDE DEF f
<1>3. IsOver(f, 1, LawOver(law, 1, k, t))
  BY <1>2 DEF IsOver
<1> QED BY <1>3 DEF f

\* At each point either is measured at, both read the law's own variance (surface_distance).
LEMMA NoDistance ==
  ASSUME NEW law \in Laws, NEW b, NEW c, Samples(b, law), Samples(c, law), NEW p \in Points(b, c)
  PROVE  SurfaceDistance(b, c)[p][1] = 0
<1>1. PICK k \in Int, t \in Int : /\ p = <<<<k, 1>>, <<t, 1>>>>
                                  /\ Covers(b, p) /\ Covers(c, p)
  <2>1. CASE p \in Nodes(b) /\ Covers(c, p)
    <3>1. PICK k \in ToSet(b.ks), t \in ToSet(b.tenors) : p = <<<<k, 1>>, <<t, 1>>>>
      BY <2>1 DEF Nodes
    <3> QED BY <2>1, <3>1, NodesAreCovered
  <2>2. CASE p \in Nodes(c) /\ Covers(b, p)
    <3>1. PICK k \in ToSet(c.ks), t \in ToSet(c.tenors) : p = <<<<k, 1>>, <<t, 1>>>>
      BY <2>2 DEF Nodes
    <3> QED BY <2>2, <3>1, NodesAreCovered
  <2> QED BY <2>1, <2>2 DEF Points
<1> DEFINE f == TotalVariance(b, p[1], p[2])
           g == TotalVariance(c, p[1], p[2])
<1>2. p[1] = <<k, 1>> /\ p[2] = <<t, 1>>
  BY <1>1
<1>3. IsOver(f, 1, LawOver(law, 1, k, t)) /\ IsOver(g, 1, LawOver(law, 1, k, t))
  BY <1>1, <1>2, NodeReads
<1>4. SurfaceDistance(b, c)[p] = <<g[1] * f[2] - f[1] * g[2], f[2] * g[2]>>
  BY DEF SurfaceDistance
<1> HIDE DEF f, g
<1>5. f[1] * g[2] = g[1] * f[2]
  <2>1. LawOver(law, 1, k, t) \in Int /\ 1 \in Positive
    BY ValueIsWhole DEF Positive
  <2> QED BY <1>3, <2>1, OneNumber
<1>6. g[1] * f[2] \in Int /\ f[1] * g[2] \in Int
  BY <1>3 DEF IsOver, Positive
<1> QED BY <1>4, <1>5, <1>6

\* Whatever the law and the two grids it is sampled on, and whatever the book: no distance, and the
\* same variance for every position neither reads past its nodes (surface_distance, _revalue).
THEOREM SameSurface == RulesSpec => []SameSurfaceSameNumbers
<1>1. ASSUME input \in Inputs
      PROVE  SameSurfaceSameNumbers
  <2> SUFFICES ASSUME input.rule = "distance"
               PROVE  SameSurfaceSameNumbers
    BY DEF SameSurfaceSameNumbers
  <2> DEFINE law == input.law
             b == Sampled(law, input.baseline)
             c == Sampled(law, input.challenger)
             Dated(view, p) == Alive(view, p) /\ p.expiry <= Last(view.expiries)
             Reads(view, p) == Covers(view, Place(view, p)) /\ p.expiry <= Last(view.expiries)
             Same(x, y) == x[1] * y[2] = y[1] * x[2]
  <2>1. RuleInputs(input)
    BY <1>1, RulesAssumption
  <2>2. /\ law \in Laws /\ input.held \subseteq Position
        /\ IsGrid(input.baseline) /\ IsGrid(input.challenger)
    BY <2>1 DEF RuleInputs
  <2>3. Samples(b, law) /\ Samples(c, law)
    BY <2>2, SampledFacts
  <2> HIDE DEF b, c
  <2>4. \A p \in Points(b, c) : SurfaceDistance(b, c)[p][1] = 0
    BY <2>2, <2>3, NoDistance
  <2>5. ASSUME NEW p \in input.held, Reads(b, p), Reads(c, p)
        PROVE  Same(Revalue(b, p), Revalue(c, p))
    <3> DEFINE U == law.units
               x == Moneyness(law, p)
               e == Time(law, p)
               N == LawOver(law, U, x, e)
    <3>1. p \in Position
      BY <2>2
    <3>2. IsOver(Revalue(b, p), U, N) /\ IsOver(Revalue(c, p), U, N)
      BY <2>2, <2>3, <2>5, <3>1, RevalueReads
    <3>3. U \in Positive /\ N \in Int
      <4>1. /\ law.units \in Positive /\ law.units \in Int /\ law.carry \in Int /\ law.instant \in Int
            /\ p.strike \in Int /\ p.expiry \in Int
        BY <2>2, <3>1 DEF Laws, Positive, Position
      <4>2. e \in Int
        BY <4>1 DEF Time
      <4>3. x \in Int
        BY <4>1, <4>2 DEF Moneyness
      <4> QED BY <2>2, <4>1, <4>2, <4>3, ValueIsWhole
    <3> HIDE DEF U, N
    <3> QED BY <3>2, <3>3, OneNumber
  <2>6. ASSUME NEW p \in input.held, Dated(b, p), Dated(c, p)
        PROVE  Same(TenorOf(b, p.expiry), TenorOf(c, p.expiry))
    <3> DEFINE U == law.units
               e == p.expiry - law.instant
               f == TenorOf(b, p.expiry)
               g == TenorOf(c, p.expiry)
    <3>1. /\ p.expiry \in Int /\ law.instant \in Int /\ U \in Positive
          /\ p.expiry <= Last(b.expiries) /\ p.expiry <= Last(c.expiries)
      BY <2>2, <2>6 DEF Laws, Position
    <3>2. U \in Int /\ e \in Int
      BY <3>1 DEF Positive
    <3>3. f[1] \in Int /\ f[2] \in Positive /\ f[1] * U = f[2] * e
      BY <2>2, <2>3, <3>1, TenorReads
    <3>4. g[1] \in Int /\ g[2] \in Positive /\ g[1] * U = g[2] * e
      BY <2>2, <2>3, <3>1, TenorReads
    <3> HIDE DEF U, e, f, g
    <3>5. ASSUME NEW h, h[1] \in Int, h[2] \in Positive, h[1] * U = h[2] * e
          PROVE  IsOver(h, U, e * U)
      <4>1. h[2] \in Int
        BY <3>5 DEF Positive
      <4>2. h[1] * (U * U) = (h[1] * U) * U /\ h[2] * (e * U) = (h[2] * e) * U
        BY <3>2, <3>5, <4>1
      <4> QED BY <3>5, <4>2 DEF IsOver
    <3>6. e * U \in Int
      BY <3>2
    <3>7. f[1] * g[2] = g[1] * f[2]
      BY <3>1, <3>3, <3>4, <3>5, <3>6, OneNumber
    <3> QED BY <3>7 DEF f, g
  <2> QED BY <2>4, <2>5, <2>6 DEF SameSurfaceSameNumbers, b, c
<1> QED BY <1>1, DrawnOnce, PTL

--------------------------------------------------------------------------------
(* A calibration's searches.                                               *)

\* The results a search has reported: a thin slice's shape is that of one of its starts.
Reported(results, starts) ==
  \A e \in quoted :
    /\ results[e].shape \in Shapes
    /\ e \in thin => results[e].shape \in starts[e]

\* What makes both properties inductive: the cycle reads the memory it was handed; the first
\* search of a thin slice ends at the shape it began from, and its answer at that shape or the
\* heuristic's.
FitInv ==
  /\ stage \in {"idle", "first", "second", "judged"}
  /\ warm \in [Expiries -> Shapes \cup {None}]
  /\ quoted \subseteq Expiries /\ thin \subseteq quoted
  /\ stage # "idle" => started = warm
  /\ stage = "second" => Reported(first, [e \in quoted |-> {Best(e)}])
  /\ stage = "judged" => Reported(answer, [e \in quoted |-> {Best(e), Cold}])
  /\ CalmSliceKeepsItsOptimum
  /\ ShapeNeedsQuotes

\* Search(), Run() and MultiStart() never move the shape of a thin slice from its start's.
LEMMA SearchKeepsShape ==
  ASSUME NEW e, NEW start \in Shapes, NEW a \in Search(e, start)
  PROVE  a.shape \in Shapes /\ (e \in thin => a.shape = start)
<1>1. PICK fit \in Fit : a = Read(e, fit) /\ (Pinned(e) => fit.shape = start)
  BY DEF Search
<1>2. a.shape = fit.shape
  BY <1>1 DEF Read
<1> QED BY <1>1, <1>2 DEF Fit, Pinned

LEMMA RunKeepsShape ==
  ASSUME NEW e, NEW start \in Shapes, NEW a \in Run(e, start)
  PROVE  a.shape \in Shapes /\ (e \in thin => a.shape = start)
<1> DEFINE Searched(shape) == IF Pinned(e) THEN start ELSE shape
<1>1. PICK fit \in Fit : a = Read(e, [fit EXCEPT !.shape = Searched(fit.shape)])
  BY DEF Run
<1>2. [fit EXCEPT !.shape = Searched(fit.shape)].shape = Searched(fit.shape)
  BY <1>1 DEF Fit
<1>3. a.shape = Searched(fit.shape)
  BY <1>1, <1>2 DEF Read
<1> QED BY <1>1, <1>3 DEF Fit, Pinned

LEMMA MultiStartKeepsShape ==
  ASSUME NEW e, NEW a \in MultiStart(e)
  PROVE  a.shape \in Shapes /\ (e \in thin => a.shape = Cold)
<1>1. PICK start \in Restarts(e) : a \in Search(e, start)
  BY DEF MultiStart
<1>2. start \in Shapes /\ (e \in thin => start = Cold)
  BY <1>1 DEF Restarts, Pinned, Shapes, Cold
<1> QED BY <1>1, <1>2, SearchKeepsShape

\* Of two attempts the one preferred is one of the two.
LEMMA PreferredIsOneOfThem ==
  ASSUME NEW one, NEW other
  PROVE  Preferred(one, other) \in {one, other}
BY DEF Preferred, LowerRmse

\* A slice with a place in the results was searched as it says there.
LEMMA AttemptsAreResults ==
  ASSUME NEW results, NEW f \in Attempts(results), NEW e \in Expiries, e \in DOMAIN results
  PROVE  f[e] \in results[e]
BY DEF Attempts

LEMMA BestIsShape ==
  ASSUME FitInv, NEW e \in quoted
  PROVE  Best(e) \in Shapes /\ (Best(e) # Cold => warm[e] = Best(e))
<1>1. warm[e] \in Shapes \cup {None}
  BY DEF FitInv
<1> QED BY <1>1 DEF Best, Cold, Shapes

--------------------------------------------------------------------------------
LEMMA FitInit == Init => FitInv
<1> SUFFICES ASSUME Init PROVE FitInv
  OBVIOUS
<1>1. warm \in [Expiries -> Shapes \cup {None}]
  BY DEF Init
<1>2. stage = "idle" /\ quoted = {} /\ thin = {} /\ rich = {}
  BY DEF Init
<1>3. \A e \in Expiries : warm[e] = None
  BY DEF Init
<1> QED BY <1>1, <1>2, <1>3 DEF FitInv, CalmSliceKeepsItsOptimum, ShapeNeedsQuotes, None

LEMMA BeginKeeps ==
  ASSUME FitInv, NEW task \in SUBSET Expiries, NEW few \in SUBSET Expiries, NEW wide \in BOOLEAN,
         Begin(task, few, wide)
  PROVE  FitInv'
<1>1. stage' = "first" /\ quoted' = task /\ thin' = few /\ started' = warm /\ few \subseteq task
  BY DEF Begin
<1>2. warm' = warm /\ rich' = rich
  BY DEF Begin
<1> QED BY <1>1, <1>2 DEF FitInv, CalmSliceKeepsItsOptimum, ShapeNeedsQuotes

\* The first searches, of either calibrator.
LEMMA FirstKeeps ==
  ASSUME FitInv, ScipyFirst \/ JaxHot
  PROVE  FitInv'
<1>1. /\ stage = "first" /\ stage' = "second"
      /\ UNCHANGED <<warm, quoted, thin, started, rich>>
  BY DEF ScipyFirst, JaxHot
<1>2. \A e \in quoted :
        first'[e].shape \in Shapes /\ (e \in thin => first'[e].shape = Best(e))
  <2> SUFFICES ASSUME NEW e \in quoted
               PROVE  first'[e].shape \in Shapes /\ (e \in thin => first'[e].shape = Best(e))
    OBVIOUS
  <2>1. e \in Expiries /\ Best(e) \in Shapes
    BY BestIsShape DEF FitInv
  <2>2. CASE ScipyFirst
    <3>1. first'[e] \in Run(e, Best(e))
      BY <2>2, <2>1, AttemptsAreResults DEF ScipyFirst
    <3> QED BY <3>1, <2>1, RunKeepsShape
  <2>3. CASE JaxHot
    <3>1. first'[e] \in Search(e, Best(e))
      BY <2>3, <2>1, AttemptsAreResults DEF JaxHot
    <3> QED BY <3>1, <2>1, SearchKeepsShape
  <2> QED BY <2>2, <2>3
<1>3. \A e \in quoted : Best(e)' = Best(e)
  BY <1>1 DEF Best
<1>4. Reported(first, [e \in quoted |-> {Best(e)}])'
  BY <1>1, <1>2, <1>3 DEF Reported
<1> QED BY <1>1, <1>4 DEF FitInv, CalmSliceKeepsItsOptimum, ShapeNeedsQuotes

\* What every step that ends in "judged" owes.
LEMMA AnswerKeeps ==
  ASSUME FitInv, stage # "idle", stage' = "judged",
         UNCHANGED <<warm, quoted, thin, started, rich>>,
         \A e \in quoted : answer'[e].shape \in Shapes
                           /\ (e \in thin => answer'[e].shape \in {Best(e), Cold}),
         \A e \in quoted : started[e] # None /\ Healthy(first'[e]) => answer'[e] = first'[e]
  PROVE  FitInv'
<1>1. \A e \in quoted : Best(e)' = Best(e)
  BY DEF Best
<1>2. Reported(answer, [e \in quoted |-> {Best(e), Cold}])'
  BY <1>1 DEF Reported
<1>3. CalmSliceKeepsItsOptimum'
  BY DEF CalmSliceKeepsItsOptimum, Healthy
<1> QED BY <1>2, <1>3 DEF FitInv, ShapeNeedsQuotes

LEMMA ScipyRetryKeeps ==
  ASSUME FitInv, ScipyRetry
  PROVE  FitInv'
<1>1. /\ stage = "second" /\ stage' = "judged"
      /\ UNCHANGED <<warm, quoted, thin, started, rich, first>>
  BY DEF ScipyRetry
<1>2. Failed \subseteq quoted /\ quoted \subseteq Expiries
  BY DEF Failed, HasWarm, FitInv
<1>3. \A e \in quoted :
        answer'[e] = IF e \in Failed THEN Preferred(first[e], second'[e]) ELSE first[e]
  BY <1>2 DEF ScipyRetry
<1>4. \A e \in quoted : first[e].shape \in Shapes /\ (e \in thin => first[e].shape = Best(e))
  BY <1>1 DEF FitInv, Reported
<1>5. \A e \in Failed : second'[e].shape \in Shapes /\ (e \in thin => second'[e].shape = Cold)
  <2> SUFFICES ASSUME NEW e \in Failed
               PROVE  second'[e].shape \in Shapes /\ (e \in thin => second'[e].shape = Cold)
    OBVIOUS
  <2>1. second'[e] \in Run(e, Cold)
    BY <1>2, AttemptsAreResults DEF ScipyRetry
  <2>2. Cold \in Shapes
    BY DEF Cold, Shapes
  <2> QED BY <2>1, <2>2, RunKeepsShape
<1>6. \A e \in quoted : answer'[e].shape \in Shapes
                        /\ (e \in thin => answer'[e].shape \in {Best(e), Cold})
  <2> SUFFICES ASSUME NEW e \in quoted
               PROVE  answer'[e].shape \in Shapes
                      /\ (e \in thin => answer'[e].shape \in {Best(e), Cold})
    OBVIOUS
  <2>1. answer'[e] = first[e] \/ (e \in Failed /\ answer'[e] = second'[e])
    BY <1>3, PreferredIsOneOfThem
  <2> QED BY <2>1, <1>4, <1>5
<1>7. \A e \in quoted : started[e] # None /\ Healthy(first'[e]) => answer'[e] = first'[e]
  BY <1>1, <1>3 DEF Failed
<1> QED BY <1>1, <1>6, <1>7, AnswerKeeps

LEMMA JaxAllHealthyKeeps ==
  ASSUME FitInv, JaxAllHealthy
  PROVE  FitInv'
<1>1. /\ stage = "second" /\ stage' = "judged" /\ answer' = first
      /\ UNCHANGED <<warm, quoted, thin, started, rich, first>>
  BY DEF JaxAllHealthy
<1>2. \A e \in quoted : first[e].shape \in Shapes /\ (e \in thin => first[e].shape = Best(e))
  BY <1>1 DEF FitInv, Reported
<1> QED BY <1>1, <1>2, AnswerKeeps

LEMMA JaxRetryKeeps ==
  ASSUME FitInv, JaxRetry
  PROVE  FitInv'
<1>1. /\ stage = "second" /\ stage' = "judged"
      /\ UNCHANGED <<warm, quoted, thin, started, rich, first>>
  BY DEF JaxRetry
<1>2. quoted \subseteq Expiries
  BY DEF FitInv
<1>3. \A e \in quoted :
        answer'[e] = IF ~Healthy(first[e]) THEN Preferred(first[e], second'[e]) ELSE first[e]
  BY <1>2 DEF JaxRetry, Kept
<1>4. \A e \in quoted : first[e].shape \in Shapes /\ (e \in thin => first[e].shape = Best(e))
  BY <1>1 DEF FitInv, Reported
<1>5. \A e \in quoted : second'[e].shape \in Shapes /\ (e \in thin => second'[e].shape = Cold)
  BY <1>2, AttemptsAreResults, MultiStartKeepsShape DEF JaxRetry
<1>6. \A e \in quoted : answer'[e].shape \in Shapes
                        /\ (e \in thin => answer'[e].shape \in {Best(e), Cold})
  <2> SUFFICES ASSUME NEW e \in quoted
               PROVE  answer'[e].shape \in Shapes
                      /\ (e \in thin => answer'[e].shape \in {Best(e), Cold})
    OBVIOUS
  <2>1. answer'[e] \in {first[e], second'[e]}
    BY <1>3, PreferredIsOneOfThem
  <2> QED BY <2>1, <1>4, <1>5
<1>7. \A e \in quoted : Healthy(first'[e]) => answer'[e] = first'[e]
  BY <1>1, <1>3
<1> QED BY <1>1, <1>6, <1>7, AnswerKeeps

LEMMA JaxColdKeeps ==
  ASSUME FitInv, JaxCold
  PROVE  FitInv'
<1>1. /\ stage = "first" /\ HasWarm = {} /\ stage' = "judged" /\ answer' = second'
      /\ UNCHANGED <<warm, quoted, thin, started, rich, first>>
  BY DEF JaxCold
<1>2. quoted \subseteq Expiries /\ started = warm
  BY <1>1 DEF FitInv
<1>3. \A e \in quoted : second'[e].shape \in Shapes /\ (e \in thin => second'[e].shape = Cold)
  BY <1>2, AttemptsAreResults, MultiStartKeepsShape DEF JaxCold
<1>4. \A e \in quoted : started[e] = None
  BY <1>1, <1>2 DEF HasWarm
<1> QED BY <1>1, <1>3, <1>4, AnswerKeeps

\* The memory after a cycle: an accepted thin slice ends at a shape it was handed, or the
\* heuristic's.
LEMMA JudgeKeeps ==
  ASSUME FitInv, NEW published \in BOOLEAN, Judge(published)
  PROVE  FitInv'
<1>1. stage = "judged" /\ stage' = "idle" /\ UNCHANGED <<quoted, thin>>
  BY DEF Judge, cycle
<1>2. CASE published /\ Accepted # {}
  <2>1. warm' = Remembered /\ rich' = {e \in quoted : e \in rich \/ e \in Accepted \ thin}
    BY <1>2 DEF Judge
  <2>2. quoted \subseteq Expiries /\ warm \in [Expiries -> Shapes \cup {None}]
    BY DEF FitInv
  <2>3. \A e \in quoted : answer[e].shape \in Shapes
                          /\ (e \in thin => answer[e].shape \in {Best(e), Cold})
    BY <1>1 DEF FitInv, Reported
  <2>4. Accepted \subseteq quoted
    BY DEF Accepted
  <2>5. warm' = [e \in Expiries |-> IF e \in Accepted THEN answer[e].shape
                                    ELSE IF e \in quoted THEN warm[e] ELSE None]
    BY <2>1 DEF Remembered
  <2>6. warm' \in [Expiries -> Shapes \cup {None}]
    BY <2>2, <2>3, <2>4, <2>5
  <2>7. ASSUME NEW e \in Expiries, warm'[e] \in {"offset", "fitted"}
        PROVE  e \in rich'
    <3>1. e \in quoted
      BY <2>4, <2>5, <2>7 DEF None
    <3>2. CASE e \in Accepted /\ e \in thin
      <4>1. warm'[e] \in {Best(e), Cold}
        BY <2>5, <2>3, <3>1, <3>2
      <4>2. warm[e] = warm'[e]
        BY <4>1, <3>1, <2>7, BestIsShape DEF Cold
      <4> QED BY <4>2, <3>1, <2>1, <2>7 DEF FitInv, ShapeNeedsQuotes
    <3>3. CASE e \in Accepted /\ e \notin thin
      BY <3>3, <3>1, <2>1
    <3>4. CASE e \notin Accepted
      <4>1. warm'[e] = warm[e]
        BY <3>4, <3>1, <2>5
      <4> QED BY <4>1, <3>1, <2>1, <2>7 DEF FitInv, ShapeNeedsQuotes
    <3> QED BY <3>2, <3>3, <3>4
  <2> QED BY <1>1, <2>6, <2>7 DEF FitInv, CalmSliceKeepsItsOptimum, ShapeNeedsQuotes
<1>3. CASE ~(published /\ Accepted # {})
  BY <1>1, <1>3 DEF Judge, FitInv, CalmSliceKeepsItsOptimum, ShapeNeedsQuotes
<1> QED BY <1>2, <1>3

LEMMA FitNext == FitInv /\ [Next]_vars => FitInv'
<1> SUFFICES ASSUME FitInv, [Next]_vars PROVE FitInv'
  OBVIOUS
<1>1. CASE \E task, few \in SUBSET Expiries, wide \in BOOLEAN : Begin(task, few, wide)
  BY <1>1, BeginKeeps
<1>2. CASE ScipyFirst \/ JaxHot
  BY <1>2, FirstKeeps
<1>3. CASE ScipyRetry
  BY <1>3, ScipyRetryKeeps
<1>4. CASE JaxAllHealthy
  BY <1>4, JaxAllHealthyKeeps
<1>5. CASE JaxRetry
  BY <1>5, JaxRetryKeeps
<1>6. CASE JaxCold
  BY <1>6, JaxColdKeeps
<1>7. CASE \E published \in BOOLEAN : Judge(published)
  BY <1>7, JudgeKeeps
<1>8. CASE UNCHANGED vars
  <2>1. UNCHANGED <<warm, stage, quoted, thin, first, answer, started, rich>>
    BY <1>8 DEF vars, cycle
  <2>2. \A e \in quoted : Best(e)' = Best(e)
    BY <2>1 DEF Best
  <2> QED BY <2>1, <2>2 DEF FitInv, Reported, CalmSliceKeepsItsOptimum, ShapeNeedsQuotes, Healthy
<1> QED BY <1>1, <1>2, <1>3, <1>4, <1>5, <1>6, <1>7, <1>8 DEF Next

\* The inductive invariant holds in every reachable state, whatever the searches come to.
THEOREM SearchInvariant == Spec => []FitInv
<1>1. Init => FitInv
  BY FitInit
<1>2. FitInv /\ [Next]_vars => FitInv'
  BY FitNext
<1> QED BY <1>1, <1>2, PTL DEF Spec

\* With either calibrator a warm start that leads to a healthy fit decides its slice, however
\* its neighbours fare.
THEOREM NeighboursDoNotReSeat == Spec => []CalmSliceKeepsItsOptimum
<1>1. FitInv => CalmSliceKeepsItsOptimum
  BY DEF FitInv
<1> QED BY <1>1, SearchInvariant, PTL

\* No sequence of cycles, retries and restarts fits the shape of a slice too thin for it.
THEOREM PinningHolds == Spec => []ShapeNeedsQuotes
<1>1. FitInv => ShapeNeedsQuotes
  BY DEF FitInv
<1> QED BY <1>1, SearchInvariant, PTL
================================================================================
