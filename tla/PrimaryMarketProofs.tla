------------------------ MODULE PrimaryMarketProofs ------------------------
(***************************************************************************)
(* Theorems about PrimaryMarket.                                           *)
(***************************************************************************)
EXTENDS PrimaryMarket, SetSums

-----------------------------------------------------------------------------
(* Sums and the allocation loop.                                           *)

\* SumsOf obeys its recursion and stays within the natural numbers.
LEMMA SumsOfNumbers ==
  ASSUME NEW s \in Seq(Nat)
  PROVE  /\ SumsOf(s) \in [0 .. Len(s) -> Nat]
         /\ SumsOf(s)[0] = 0
         /\ \A k \in 1 .. Len(s) : SumsOf(s)[k] = SumsOf(s)[k - 1] + s[k]
<1> DEFINE n == Len(s)
           b == 0
           V == Nat
           G == [p \in (1 .. n) \X V |-> p[2] + s[p[1]]]
           Obeys(f) == f = [k \in 0 .. n |-> IF k = 0 THEN 0 ELSE f[k - 1] + s[k]]
<1>1. b \in V /\ n \in Nat /\ StepsWithin(G, n, V)
  BY DEF StepsWithin
<1>2. PICK f \in [0 .. n -> V] : Solves(f, b, n, G)
  <2> HIDE DEF b, n, V, G
  <2> QED
    BY <1>1, Recursion
<1>3. Obeys(f)
  <2>1. \A k \in 1 .. n : k - 1 \in 0 .. n /\ f[k - 1] \in Nat
    OBVIOUS
  <2>2. \A k \in 1 .. n : f[k] = f[k - 1] + s[k]
    BY <1>2, <2>1 DEF Solves
  <2> HIDE DEF n, G
  <2>3. \A k \in 0 .. n : f[k] = IF k = 0 THEN 0 ELSE f[k - 1] + s[k]
    BY <1>1, <1>2, <2>2 DEF Solves, b
  <2> QED
    BY <2>3
<1>4. Obeys(SumsOf(s))
  BY <1>3 DEF SumsOf
<1>5. /\ SumsOf(s) = [k \in 0 .. n |-> SumsOf(s)[k]]
      /\ SumsOf(s)[0] = 0
      /\ \A k \in 1 .. n : SumsOf(s)[k] = SumsOf(s)[k - 1] + s[k]
  <2> DEFINE h == SumsOf(s)
  <2>1. Obeys(h)
    BY <1>4
  <2> HIDE DEF h, n
  <2>2. \A k \in 0 .. n : h[k] = IF k = 0 THEN 0 ELSE h[k - 1] + s[k]
    BY <2>1
  <2>3. h = [k \in 0 .. n |-> h[k]]
    BY <2>1
  <2>4. h[0] = 0 /\ \A k \in 1 .. n : h[k] = h[k - 1] + s[k]
    BY <1>1, <2>2
  <2> QED
    BY <2>3, <2>4 DEF h
<1>6. Follows(SumsOf(s), b, n, G, V)
  BY <1>5 DEF Follows
<1>7. SumsOf(s) \in [0 .. n -> V]
  <2> HIDE DEF b, n, V, G
  <2> QED
    BY <1>1, <1>6, RecursionType
<1> QED
  BY <1>5, <1>7

\* The allocation loop is well-defined: what is left after each agreement is a
\* number.
LEMMA SharesLeftAreNumbers ==
  ASSUME NEW ags \in Seq(Agreement), NEW b \in Int
  PROVE  /\ SharesLeft(ags, b) \in [0 .. Len(ags) -> Int]
         /\ SharesLeft(ags, b)[0] = b
         /\ \A k \in 1 .. Len(ags) :
              SharesLeft(ags, b)[k] = LeftAfter(ags[k], SharesLeft(ags, b)[k - 1])
<1> DEFINE n == Len(ags)
           V == Int
           G == [p \in (1 .. n) \X V |-> LeftAfter(ags[p[1]], p[2])]
           Obeys(f) == f = [k \in 0 .. n |-> IF k = 0 THEN b ELSE LeftAfter(ags[k], f[k - 1])]
<1>1. b \in V /\ n \in Nat /\ StepsWithin(G, n, V)
  <2>1. ASSUME NEW a \in Agreement, NEW left \in Int
        PROVE  LeftAfter(a, left) \in Int
    BY NumbersAssumption DEF LeftAfter, Agreement, Quantities
  <2>2. \A p \in (1 .. n) \X Int : ags[p[1]] \in Agreement /\ p[2] \in Int
    OBVIOUS
  <2>3. \A p \in (1 .. n) \X Int : LeftAfter(ags[p[1]], p[2]) \in Int
    BY <2>1, <2>2
  <2>4. G \in [(1 .. n) \X Int -> Int]
    BY <2>3
  <2> QED
    BY <2>4 DEF StepsWithin
<1>2. PICK f \in [0 .. n -> V] : Solves(f, b, n, G)
  <2> HIDE DEF n, V, G
  <2> QED
    BY <1>1, Recursion
<1>3. Obeys(f)
  <2>1. \A k \in 1 .. n : k - 1 \in 0 .. n /\ f[k - 1] \in Int
    OBVIOUS
  <2>2. \A k \in 1 .. n : f[k] = LeftAfter(ags[k], f[k - 1])
    BY <1>2, <2>1 DEF Solves
  <2> HIDE DEF n, G
  <2>3. \A k \in 0 .. n : f[k] = IF k = 0 THEN b ELSE LeftAfter(ags[k], f[k - 1])
    BY <1>1, <1>2, <2>2 DEF Solves
  <2> QED
    BY <2>3
<1> DEFINE h == SharesLeft(ags, b)
<1>4. Obeys(h)
  BY <1>3 DEF SharesLeft
<1>5. /\ h = [k \in 0 .. n |-> h[k]]
      /\ h[0] = b
      /\ \A k \in 1 .. n : h[k] = LeftAfter(ags[k], h[k - 1])
  <2> HIDE DEF h
  <2> QED
    BY <1>1, <1>4
<1>6. Follows(h, b, n, G, V)
  <2> HIDE DEF h
  <2> QED
    BY <1>5 DEF Follows
<1>7. h \in [0 .. n -> V]
  <2> HIDE DEF n, V, G, h
  <2> QED
    BY <1>1, <1>6, RecursionType
<1> QED
  BY <1>5, <1>7

\* The loop never overdraws: from no fewer than no shares it leaves no fewer,
\* and fewer than none it leaves alone.
LEMMA LoopNeverOverdraws ==
  ASSUME NEW ags \in Seq(Agreement), NEW b \in Int
  PROVE  \A k \in 0 .. Len(ags) :
           IF b < 0 THEN SharesLeft(ags, b)[k] = b ELSE SharesLeft(ags, b)[k] >= 0
<1> DEFINE n == Len(ags)
           left == SharesLeft(ags, b)
           S == {k \in Nat : k <= n => IF b < 0 THEN left[k] = b ELSE left[k] >= 0}
<1>1. n \in Nat /\ \A k \in 1 .. n : ags[k].shares \in Nat
  <2>1. n \in Nat /\ \A k \in 1 .. n : ags[k] \in Agreement
    OBVIOUS
  <2> QED
    BY <2>1, NumbersAssumption DEF Agreement, Quantities
<1>2. /\ left \in [0 .. n -> Int] /\ left[0] = b
      /\ \A k \in 1 .. n : left[k] = LeftAfter(ags[k], left[k - 1])
  BY SharesLeftAreNumbers
<1> HIDE DEF n, left
<1>3. 0 \in S
  BY <1>2
<1>4. ASSUME NEW m \in Nat, m \in S
      PROVE  m + 1 \in S
  <2> SUFFICES ASSUME m + 1 <= n
               PROVE  IF b < 0 THEN left[m + 1] = b ELSE left[m + 1] >= 0
    OBVIOUS
  <2>1. m + 1 \in 1 .. n /\ (m + 1) - 1 = m /\ m \in 0 .. n
    BY <1>1, m + 1 <= n
  <2>2. left[m] \in Int /\ left[m + 1] = LeftAfter(ags[m + 1], left[m])
    BY <1>2, <2>1
  <2>3. IF b < 0 THEN left[m] = b ELSE left[m] >= 0
    BY <1>1, <1>4, m + 1 <= n
  <2>4. ags[m + 1].shares \in Nat
    BY <1>1, <2>1
  <2> QED
    BY <2>2, <2>3, <2>4 DEF LeftAfter
<1>5. \A k \in 0 .. n : IF b < 0 THEN left[k] = b ELSE left[k] >= 0
  <2>1. Nat \subseteq S
    <3> HIDE DEF S
    <3> QED
      BY <1>3, <1>4, SetInduction
  <2> QED
    BY <1>1, <2>1
<1> QED
  BY <1>5 DEF n, left

\* A sequence without its last number sums to the total less that number.
LEMMA TotalAppend ==
  ASSUME NEW s \in Seq(Nat), NEW x \in Nat
  PROVE  /\ Total(s) \in Nat
         /\ Total(Append(s, x)) = Total(s) + x
<1> DEFINE n == Len(s)
           t == Append(s, x)
           S == {k \in Nat : k <= n => SumsOf(t)[k] = SumsOf(s)[k]}
<1>1. n \in Nat /\ t \in Seq(Nat) /\ Len(t) = n + 1 /\ t[n + 1] = x
  OBVIOUS
<1>2. \A k \in 1 .. n : t[k] = s[k]
  OBVIOUS
<1>3. /\ SumsOf(s) \in [0 .. n -> Nat] /\ SumsOf(s)[0] = 0
      /\ \A k \in 1 .. n : SumsOf(s)[k] = SumsOf(s)[k - 1] + s[k]
  BY SumsOfNumbers
<1> HIDE DEF n, t
<1>4. /\ SumsOf(t) \in [0 .. n + 1 -> Nat] /\ SumsOf(t)[0] = 0
      /\ \A k \in 1 .. n + 1 : SumsOf(t)[k] = SumsOf(t)[k - 1] + t[k]
  BY <1>1, SumsOfNumbers
<1>5. 0 \in S
  BY <1>3, <1>4
<1>6. ASSUME NEW m \in Nat, m \in S
      PROVE  m + 1 \in S
  <2> SUFFICES ASSUME m + 1 <= n
               PROVE  SumsOf(t)[m + 1] = SumsOf(s)[m + 1]
    OBVIOUS
  <2>1. m + 1 \in 1 .. n /\ m + 1 \in 1 .. n + 1 /\ (m + 1) - 1 = m
    BY <1>1, m + 1 <= n
  <2>2. SumsOf(t)[m] = SumsOf(s)[m]
    BY <1>1, <1>6, m + 1 <= n
  <2> QED
    BY <1>2, <1>3, <1>4, <2>1, <2>2
<1>7. SumsOf(t)[n] = SumsOf(s)[n]
  <2>1. Nat \subseteq S
    <3> HIDE DEF S
    <3> QED
      BY <1>5, <1>6, SetInduction
  <2> QED
    BY <1>1, <2>1
<1>8. SumsOf(t)[n + 1] = SumsOf(t)[n] + x
  <2>1. n + 1 \in 1 .. n + 1 /\ (n + 1) - 1 = n
    BY <1>1
  <2> QED
    BY <1>1, <1>4, <2>1
<1>9. Total(t) = SumsOf(t)[n + 1] /\ Total(s) = SumsOf(s)[n]
  BY <1>1 DEF Total, n
<1>10. SumsOf(s)[n] \in Nat
  BY <1>1, <1>3
<1> QED
  BY <1>7, <1>8, <1>9, <1>10 DEF t

\* A token of what is confirmed leaves the rest of the agreement alone.
LEMMA TokenAdded ==
  ASSUME NEW a \in Agreement
  PROVE  /\ WithToken(a) \in Agreement
         /\ WithToken(a).investor = a.investor /\ WithToken(a).shares = a.shares
         /\ WithToken(a).confirmed = a.confirmed /\ WithToken(a).state = a.state
         /\ WithToken(a).tokens = Append(a.tokens, a.confirmed)
<1>1. a.tokens \in Seq(Quantities) /\ a.confirmed \in Quantities
  BY DEF Agreement
<1>2. Append(a.tokens, a.confirmed) \in Seq(Quantities)
  BY <1>1
<1> DEFINE t == Append(a.tokens, a.confirmed)
<1>3. WithToken(a) = [a EXCEPT !.tokens = t]
  BY DEF WithToken
<1> HIDE DEF t
<1> QED
  BY <1>2, <1>3 DEF Agreement, t

\* What the bank decides about an agreement is an agreement again; a decision
\* grants everything, what is left, or nothing.
LEMMA Decision ==
  ASSUME NEW a \in Agreement, NEW left \in Int
  PROVE  /\ Decided(a, left) \in Agreement
         /\ Decided(a, left).investor = a.investor /\ Decided(a, left).shares = a.shares
         /\ a.state # "subscribed" => Decided(a, left) = a
         /\ a.state = "subscribed" /\ left <= 0
              => Decided(a, left) = [a EXCEPT !.state = "notAllocated"]
         /\ a.state = "subscribed" /\ left > 0 /\ a.shares <= left
              => /\ Decided(a, left).state = "fullyAllocated"
                 /\ Decided(a, left).confirmed = a.shares
                 /\ Decided(a, left).tokens = Append(a.tokens, a.shares)
         /\ a.state = "subscribed" /\ left > 0 /\ ~ (a.shares <= left)
              => /\ Decided(a, left).state = "partiallyAllocated"
                 /\ Decided(a, left).confirmed = left
                 /\ Decided(a, left).tokens = Append(a.tokens, left)
<1>1. a.shares \in 0 .. MaxShares /\ a.shares \in Nat /\ MaxShares \in Nat
  BY NumbersAssumption DEF Agreement, Quantities
<1>2. CASE a.state # "subscribed"
  <2>1. Decided(a, left) = a
    BY <1>2 DEF Decided
  <2> QED
    BY <1>2, <2>1
<1>3. CASE a.state = "subscribed" /\ left <= 0
  <2>1. Decided(a, left) = [a EXCEPT !.state = "notAllocated"]
    BY <1>3 DEF Decided
  <2>2. [a EXCEPT !.state = "notAllocated"] \in Agreement
    BY DEF Agreement
  <2> QED
    BY <1>3, <2>1, <2>2 DEF Agreement
<1> DEFINE Allocated(s, n) == [a EXCEPT !.state = s, !.confirmed = n]
<1>4. ASSUME NEW s \in {"fullyAllocated", "partiallyAllocated"}, NEW n \in Quantities,
             Decided(a, left) = WithToken(Allocated(s, n))
      PROVE  /\ Decided(a, left) \in Agreement
             /\ Decided(a, left).investor = a.investor /\ Decided(a, left).shares = a.shares
             /\ Decided(a, left).state = s /\ Decided(a, left).confirmed = n
             /\ Decided(a, left).tokens = Append(a.tokens, n)
  <2> DEFINE d == Allocated(s, n)
  <2>1. /\ d \in Agreement /\ d.investor = a.investor /\ d.shares = a.shares
        /\ d.state = s /\ d.confirmed = n /\ d.tokens = a.tokens
    BY DEF Agreement
  <2> HIDE DEF d
  <2>2. Decided(a, left) = WithToken(d)
    BY <1>4 DEF d
  <2> QED
    BY <2>1, <2>2, TokenAdded
<1>5. CASE a.state = "subscribed" /\ left > 0 /\ a.shares <= left
  <2>1. Decided(a, left) = WithToken(Allocated("fullyAllocated", a.shares))
    BY <1>5 DEF Decided
  <2> HIDE DEF Allocated
  <2> QED
    BY <1>1, <1>4, <1>5, <2>1 DEF Quantities
<1>6. CASE a.state = "subscribed" /\ left > 0 /\ ~ (a.shares <= left)
  <2>1. Decided(a, left) = WithToken(Allocated("partiallyAllocated", left))
    BY <1>6 DEF Decided
  <2> HIDE DEF Allocated
  <2>2. left \in Quantities
    BY <1>1, <1>6 DEF Quantities
  <2> QED
    BY <1>4, <1>6, <2>1, <2>2
<1> QED
  BY <1>2, <1>3, <1>5, <1>6

\* No decision leaves an agreement open, and the shares it grants are those the
\* loop takes away.
LEMMA DecisionTakesShares ==
  ASSUME NEW a \in Agreement, NEW left \in Int
  PROVE  /\ Decided(a, left) \in Agreement
         /\ Decided(a, left).investor = a.investor /\ Decided(a, left).shares = a.shares
         /\ Decided(a, left).state # "subscribed"
         /\ (a.state = "subscribed" => a.confirmed = 0)
              => LeftAfter(a, left) + Decided(a, left).confirmed = left + a.confirmed
<1>1. a.shares \in Nat /\ a.confirmed \in Nat
  BY NumbersAssumption DEF Agreement, Quantities
<1>2. CASE a.state # "subscribed"
  BY <1>1, <1>2, Decision DEF LeftAfter
<1>3. CASE a.state = "subscribed" /\ left <= 0
  <2>1. Decided(a, left) = [a EXCEPT !.state = "notAllocated"] /\ LeftAfter(a, left) = left
    BY <1>3, Decision DEF LeftAfter
  <2>2. Decided(a, left).state = "notAllocated" /\ Decided(a, left).confirmed = a.confirmed
    BY <2>1 DEF Agreement
  <2> QED
    BY <1>1, <1>3, <2>1, <2>2, Decision
<1>4. CASE a.state = "subscribed" /\ left > 0 /\ a.shares <= left
  <2>1. LeftAfter(a, left) = left - a.shares
    BY <1>4 DEF LeftAfter
  <2>2. /\ Decided(a, left) \in Agreement /\ Decided(a, left).investor = a.investor
        /\ Decided(a, left).shares = a.shares
        /\ Decided(a, left).state = "fullyAllocated" /\ Decided(a, left).confirmed = a.shares
    BY <1>4, Decision
  <2> QED
    BY <1>1, <1>4, <2>1, <2>2
<1>5. CASE a.state = "subscribed" /\ left > 0 /\ ~ (a.shares <= left)
  <2>1. LeftAfter(a, left) = 0
    BY <1>5 DEF LeftAfter
  <2>2. /\ Decided(a, left) \in Agreement /\ Decided(a, left).investor = a.investor
        /\ Decided(a, left).shares = a.shares
        /\ Decided(a, left).state = "partiallyAllocated" /\ Decided(a, left).confirmed = left
    BY <1>5, Decision
  <2> QED
    BY <1>1, <1>5, <2>1, <2>2
<1> QED
  BY <1>2, <1>3, <1>4, <1>5

Decisions(ags, b) == [k \in 1 .. Len(ags) |-> Decided(ags[k], SharesLeft(ags, b)[k - 1])]

\* The loop turns agreements into agreements of the same investors.
LEMMA DecisionsAreAgreements ==
  ASSUME NEW ags \in Seq(Agreement), NEW b \in Int
  PROVE  /\ Decisions(ags, b) \in Seq(Agreement)
         /\ Len(Decisions(ags, b)) = Len(ags)
         /\ \A k \in 1 .. Len(ags) : /\ Decisions(ags, b)[k].investor = ags[k].investor
                                     /\ Decisions(ags, b)[k].shares = ags[k].shares
         /\ \A k \in 1 .. Len(ags) : Decisions(ags, b)[k].state # "subscribed"
<1> DEFINE n == Len(ags)
           left == SharesLeft(ags, b)
<1>1. n \in Nat /\ \A k \in 1 .. n : ags[k] \in Agreement
  OBVIOUS
<1>2. \A k \in 1 .. n : left[k - 1] \in Int
  <2>1. left \in [0 .. n -> Int]
    BY SharesLeftAreNumbers
  <2> HIDE DEF left
  <2> QED
    BY <1>1, <2>1
<1>3. \A k \in 1 .. n : /\ Decided(ags[k], left[k - 1]) \in Agreement
                        /\ Decided(ags[k], left[k - 1]).investor = ags[k].investor
                        /\ Decided(ags[k], left[k - 1]).shares = ags[k].shares
                        /\ Decided(ags[k], left[k - 1]).state # "subscribed"
  BY <1>1, <1>2, DecisionTakesShares
<1> HIDE DEF n, left
<1>4. Decisions(ags, b) = [k \in 1 .. n |-> Decided(ags[k], left[k - 1])]
  BY DEF Decisions, n, left
<1> QED
  BY <1>1, <1>3, <1>4 DEF n

ConfirmedIn(ags) == [k \in DOMAIN ags |-> ags[k].confirmed]

\* The confirmed shares of agreements are a sequence of natural numbers.
LEMMA ConfirmedAreNumbers ==
  ASSUME NEW ags \in Seq(Agreement)
  PROVE  /\ ConfirmedIn(ags) \in Seq(Nat)
         /\ Len(ConfirmedIn(ags)) = Len(ags)
         /\ \A k \in 1 .. Len(ags) : ConfirmedIn(ags)[k] = ags[k].confirmed
<1> DEFINE n == Len(ags)
<1>1. n \in Nat /\ DOMAIN ags = 1 .. n /\ \A k \in 1 .. n : ags[k] \in Agreement
  OBVIOUS
<1>2. \A k \in 1 .. n : ags[k].confirmed \in Nat
  BY <1>1, NumbersAssumption DEF Agreement, Quantities
<1>3. ConfirmedIn(ags) = [k \in 1 .. n |-> ags[k].confirmed]
  BY <1>1 DEF ConfirmedIn
<1> HIDE DEF n
<1> QED
  BY <1>1, <1>2, <1>3 DEF n

\* Over the whole loop, what is left and what is confirmed add up to what there
\* was before, provided nothing is confirmed of an undecided agreement.
LEMMA LoopConservesShares ==
  ASSUME NEW ags \in Seq(Agreement), NEW b \in Int,
         \A k \in 1 .. Len(ags) : ags[k].state = "subscribed" => ags[k].confirmed = 0
  PROVE  SharesLeft(ags, b)[Len(ags)] + Total(ConfirmedIn(Decisions(ags, b)))
           = b + Total(ConfirmedIn(ags))
<1> DEFINE n == Len(ags)
           left == SharesLeft(ags, b)
           old == ConfirmedIn(ags)
           new == ConfirmedIn(Decisions(ags, b))
           S == {k \in Nat : k <= n => left[k] + SumsOf(new)[k] = b + SumsOf(old)[k]}
<1>1. n \in Nat /\ \A k \in 1 .. n : ags[k] \in Agreement
  OBVIOUS
<1>2. /\ left \in [0 .. n -> Int] /\ left[0] = b
      /\ \A k \in 1 .. n : left[k] = LeftAfter(ags[k], left[k - 1])
  BY SharesLeftAreNumbers
<1>3. old \in Seq(Nat) /\ Len(old) = n /\ \A k \in 1 .. n : old[k] = ags[k].confirmed
  BY ConfirmedAreNumbers
<1>4. /\ new \in Seq(Nat) /\ Len(new) = n
      /\ \A k \in 1 .. n : new[k] = Decided(ags[k], left[k - 1]).confirmed
  <2>1. /\ Decisions(ags, b) \in Seq(Agreement) /\ Len(Decisions(ags, b)) = n
        /\ \A k \in 1 .. n : Decisions(ags, b)[k] = Decided(ags[k], left[k - 1])
    BY DecisionsAreAgreements DEF Decisions
  <2> QED
    BY <2>1, ConfirmedAreNumbers
<1>5. \A k \in 1 .. n : ags[k].state = "subscribed" => ags[k].confirmed = 0
  OBVIOUS
<1> HIDE DEF n, left, old, new
<1>6. /\ SumsOf(old) \in [0 .. n -> Nat] /\ SumsOf(old)[0] = 0
      /\ \A k \in 1 .. n : SumsOf(old)[k] = SumsOf(old)[k - 1] + old[k]
  BY <1>3, SumsOfNumbers
<1>7. /\ SumsOf(new) \in [0 .. n -> Nat] /\ SumsOf(new)[0] = 0
      /\ \A k \in 1 .. n : SumsOf(new)[k] = SumsOf(new)[k - 1] + new[k]
  BY <1>4, SumsOfNumbers
<1>8. 0 \in S
  BY <1>1, <1>2, <1>6, <1>7
<1>9. ASSUME NEW m \in Nat, m \in S
      PROVE  m + 1 \in S
  <2> SUFFICES ASSUME m + 1 <= n
               PROVE  left[m + 1] + SumsOf(new)[m + 1] = b + SumsOf(old)[m + 1]
    OBVIOUS
  <2>1. m + 1 \in 1 .. n /\ (m + 1) - 1 = m /\ m \in 0 .. n
    BY <1>1, m + 1 <= n
  <2> DEFINE a == ags[m + 1]
             l == left[m]
  <2>2. a \in Agreement /\ l \in Int /\ (a.state = "subscribed" => a.confirmed = 0)
    BY <1>1, <1>2, <1>5, <2>1
  <2>3. left[m + 1] = LeftAfter(a, l) /\ new[m + 1] = Decided(a, l).confirmed
        /\ old[m + 1] = a.confirmed
    BY <1>2, <1>3, <1>4, <2>1
  <2>4. left[m] + SumsOf(new)[m] = b + SumsOf(old)[m]
    BY <1>9, <2>1, m + 1 <= n
  <2>5. /\ SumsOf(new)[m + 1] = SumsOf(new)[m] + new[m + 1]
        /\ SumsOf(old)[m + 1] = SumsOf(old)[m] + old[m + 1]
    BY <1>6, <1>7, <2>1
  <2>6. left[m + 1] + new[m + 1] = left[m] + old[m + 1]
    <3> HIDE DEF a, l
    <3>1. LeftAfter(a, l) + Decided(a, l).confirmed = l + a.confirmed
      BY <2>2, DecisionTakesShares
    <3> QED
      BY <2>3, <3>1 DEF l
  <2>7. /\ left[m] \in Int /\ left[m + 1] \in Int
        /\ SumsOf(new)[m] \in Nat /\ SumsOf(old)[m] \in Nat
    BY <1>1, <1>2, <1>6, <1>7, <2>1
  <2>8. new[m + 1] \in Nat /\ old[m + 1] \in Nat
    BY <1>3, <1>4, <2>1
  <2> DEFINE l1 == left[m + 1]
             s0 == SumsOf(new)[m]
             t0 == SumsOf(old)[m]
             x == new[m + 1]
             y == old[m + 1]
  <2> HIDE DEF S, a, l1, s0, t0, x, y
  <2>9. ASSUME l \in Int, l1 \in Int, s0 \in Nat, t0 \in Nat, x \in Nat, y \in Nat,
               l + s0 = b + t0, l1 + x = l + y
        PROVE  l1 + (s0 + x) = b + (t0 + y)
    <3> HIDE DEF l
    <3> QED
      BY <2>9
  <2> QED
    BY <2>4, <2>5, <2>6, <2>7, <2>8, <2>9 DEF l1, s0, t0, x, y
<1>10. left[n] + SumsOf(new)[n] = b + SumsOf(old)[n]
  <2>1. Nat \subseteq S
    <3> HIDE DEF S
    <3> QED
      BY <1>8, <1>9, SetInduction
  <2> QED
    BY <1>1, <2>1
<1>11. Total(new) = SumsOf(new)[n] /\ Total(old) = SumsOf(old)[n]
  BY <1>3, <1>4 DEF Total
<1> QED
  BY <1>10, <1>11 DEF n, left, old, new

-----------------------------------------------------------------------------
(* Types.                                                                  *)

\* A project starts well-typed.
LEMMA TypeInit == Init => TypeOK
<1> SUFFICES ASSUME Init PROVE TypeOK
  OBVIOUS
<1>1. ndas \in [Investors -> [NdaStates -> Nat]]
  BY DEF Init
<1>2. shareholder_agreements \in [Investors -> [PaperStates -> Nat]]
  BY DEF Init
<1>3. agreements \in [Classes -> Seq(Agreement)]
  BY DEF Init
<1> QED
  BY <1>1, <1>2, <1>3, NumbersAssumption DEF Init, TypeOK, NotOverdrawn

\* A confirmation keeps the types and overdraws no class.
LEMMA TypeOfConfirmation ==
  ASSUME TypeOK, NEW c \in Classes, Confirm(c),
         project_state' \in {"created", "subscribed", "projectClosed"}
  PROVE  TypeOK'
<1> USE DEF TypeOK
<1> DEFINE ags == agreements[c]
           b == available_shares[c]
           l == SharesLeft(ags, b)[Len(ags)]
<1>1. ags \in Seq(Agreement) /\ b \in Int
  OBVIOUS
<1>2. agreements' = [agreements EXCEPT ![c] = Decisions(ags, b)]
  BY DEF Confirm, Decisions
<1>3. available_shares' = [available_shares EXCEPT ![c] = l]
  BY DEF Confirm
<1>4. UNCHANGED <<available_amount, people, whitelisted, papers, class_state, terms,
                  templates, namesakes, overdue, offers>>
  BY DEF Confirm
<1> HIDE DEF ags, b
<1>5. Decisions(ags, b) \in Seq(Agreement)
  BY <1>1, DecisionsAreAgreements
<1>6. l \in Int /\ (l < 0 => b < 0 /\ l = b)
  <2>1. l \in Int
    <3>1. SharesLeft(ags, b) \in [0 .. Len(ags) -> Int] /\ Len(ags) \in 0 .. Len(ags)
      BY <1>1, SharesLeftAreNumbers
    <3> QED
      BY <3>1
  <2>2. IF b < 0 THEN l = b ELSE l >= 0
    <3>1. Len(ags) \in 0 .. Len(ags)
      BY <1>1
    <3> QED
      BY <1>1, <3>1, LoopNeverOverdraws
  <2> HIDE DEF l
  <2> QED
    BY <2>1, <2>2
<1> HIDE DEF l
<1>7. available_shares' \in [Classes -> Int]
  BY <1>3, <1>6
<1>8. NotOverdrawn'
  <2> SUFFICES ASSUME NEW d \in Classes, available_shares'[d] < 0
               PROVE  terms'[d].shares = available_shares'[d]
    BY DEF NotOverdrawn
  <2>1. available_shares'[d] = IF d = c THEN l ELSE available_shares[d]
    BY <1>3
  <2>2. available_shares[d] < 0 /\ available_shares'[d] = available_shares[d]
    BY <1>6, <2>1 DEF b
  <2> QED
    BY <1>4, <2>2 DEF NotOverdrawn
<1>9. agreements' \in [Classes -> Seq(Agreement)]
  BY <1>2, <1>5
<1> QED
  BY <1>4, <1>7, <1>8, <1>9 DEF people, papers, NotOverdrawn

\* So does the creation of a token.
LEMMA TypeOfToken ==
  ASSUME TypeOK, NEW c \in Classes, NEW k \in DOMAIN agreements[c], CreateToken(c, k)
  PROVE  TypeOK'
<1> DEFINE ags == agreements[c]
           a == WithToken(ags[k])
<1>1. agreements \in [Classes -> Seq(Agreement)] /\ ags \in Seq(Agreement)
      /\ k \in 1 .. Len(ags) /\ ags[k] \in Agreement
  BY DEF TypeOK
<1>2. a \in Agreement
  BY <1>1, TokenAdded
<1>3. agreements' = [agreements EXCEPT ![c] = [ags EXCEPT ![k] = a]]
  BY DEF CreateToken
<1> HIDE DEF ags, a
<1>4. [ags EXCEPT ![k] = a] \in Seq(Agreement)
  BY <1>1, <1>2
<1>5. agreements' \in [Classes -> Seq(Agreement)]
  BY <1>1, <1>3, <1>4
<1> QED
  BY <1>5 DEF CreateToken, TypeOK, NotOverdrawn, project, people, papers, classes

\* The permissions on investors, papers and share classes keep the types.
LEMMA TypeOfBank ==
  ASSUME TypeOK, BankStep
  PROVE  TypeOK'
<1> USE NumbersAssumption, SuspectsAssumption, TermsAssumption
    DEF TypeOK, NotOverdrawn, project, people, papers, classes
<1>1. ASSUME CloseProject PROVE TypeOK'
  BY <1>1 DEF CloseProject
<1>2. ASSUME NEW collected \in SUBSET Classes, Collect(collected) PROVE TypeOK'
  BY <1>2 DEF Collect
<1>3. ASSUME NEW investors \in SUBSET Investors, SelectInvestors(investors) PROVE TypeOK'
  BY <1>3 DEF SelectInvestors
<1>4. ASSUME NEW i \in Suspects, AddBlackListedInvestor(i) PROVE TypeOK'
  BY <1>4 DEF AddBlackListedInvestor
<1>5. ASSUME NEW c \in Classes, NEW t \in Terms, CreateShareClass(c, t) PROVE TypeOK'
  <2>1. t \in ClassTerms /\ t.value \in Int /\ t.shares \in Int
    BY DEF ClassTerms
  <2>2. available_amount' \in Int
    BY <1>5, <2>1 DEF CreateShareClass, AmountLeft
  <2>3. class_state' \in [Classes -> {"none", "created", "offersSent", "subscriptionsCollected"}]
    BY <1>5 DEF CreateShareClass
  <2>4. terms' \in [Classes -> ClassTerms \cup {NoTerms}]
    BY <1>5, <2>1 DEF CreateShareClass
  <2>5. available_shares' \in [Classes -> Int]
    BY <1>5, <2>1 DEF CreateShareClass
  <2>6. /\ UNCHANGED <<project_state, people, whitelisted, papers, templates, overdue, offers,
                        agreements>>
        /\ terms' = [terms EXCEPT ![c] = t]
        /\ available_shares' = [available_shares EXCEPT ![c] = t.shares]
    BY <1>5 DEF CreateShareClass
  <2>7. namesakes' \subseteq Classes
    BY <1>5 DEF CreateShareClass
  <2>8. NotOverdrawn'
    BY <2>6
  <2> QED
    BY <2>2, <2>3, <2>4, <2>5, <2>6, <2>7, <2>8
<1>6. ASSUME NEW c \in Classes, SetSATemplate(c) PROVE TypeOK'
  BY <1>6 DEF SetSATemplate
<1>7. ASSUME NEW c \in Classes, SendOriginalOffers(c) PROVE TypeOK'
  <2>1. ndas' \in [Investors -> [NdaStates -> Nat]]
    BY <1>7 DEF SendOriginalOffers
  <2> QED
    BY <1>7, <2>1 DEF SendOriginalOffers
<1>8. ASSUME NEW c \in Classes, ConfirmSubscriptions(c) \/ ConfirmSubscriptionAgreements(c)
      PROVE  TypeOK'
  BY <1>8, TypeOfConfirmation DEF ConfirmSubscriptions, ConfirmSubscriptionAgreements
<1>9. ASSUME NEW i \in Investors, NEW status \in BOOLEAN, SetCompliant(i, status) PROVE TypeOK'
  BY <1>9 DEF SetCompliant
<1>10. ASSUME NEW i \in Investors, NEW amount \in Liquidities, SetLiquidity(i, amount)
       PROVE  TypeOK'
  BY <1>10 DEF SetLiquidity
<1>11. ASSUME NEW i \in Investors, AddWhitelistedInvestor(i) PROVE TypeOK'
  BY <1>11 DEF AddWhitelistedInvestor
<1>12. ASSUME NEW i \in Investors, RemoveWhitelistedInvestor(i) PROVE TypeOK'
  BY <1>12 DEF RemoveWhitelistedInvestor
<1>13. ASSUME NEW c \in Classes, NEW i \in Investors, Expire(c, i) PROVE TypeOK'
  BY <1>13 DEF Expire
<1>14. ASSUME NEW c \in Classes, NEW k \in DOMAIN agreements[c], CreateToken(c, k) PROVE TypeOK'
  BY <1>14, TypeOfToken
<1>15. ASSUME CollectSubscriptions \/ \E c \in Classes : CollectSubscriptionsOf(c) PROVE TypeOK'
  <2>1. {c \in Classes : Exists(c)} \in SUBSET Classes /\ \A c \in Classes : {c} \in SUBSET Classes
    OBVIOUS
  <2> QED
    BY <1>2, <1>15, <2>1 DEF CollectSubscriptions, CollectSubscriptionsOf
<1> HIDE DEF TypeOK
<1> QED
  BY <1>1, <1>3, <1>4, <1>5, <1>6, <1>7, <1>8, <1>9, <1>10, <1>11, <1>12, <1>13, <1>14, <1>15
     DEF BankStep

\* So does what the engine's clock triggers.
LEMMA TypeOfClock ==
  ASSUME TypeOK, ClockStep
  PROVE  TypeOK'
<1> USE DEF TypeOK, NotOverdrawn, project, people, papers, classes
<1>1. ASSUME NEW c \in Classes, DeadlinePasses(c) PROVE TypeOK'
  BY <1>1 DEF DeadlinePasses
<1>2. ASSUME NEW c \in Classes, NEW i \in Investors, ExpireOffer(c, i) PROVE TypeOK'
  BY <1>2 DEF ExpireOffer, Expire
<1> QED
  BY <1>1, <1>2 DEF ClockStep

\* A paper that exists can be moved to another state.
LEMMA PaperMoves ==
  ASSUME NEW States, NEW count \in [States -> Nat],
         NEW from \in States, NEW to \in States, count[from] > 0
  PROVE  Moved(count, from, to) \in [States -> Nat]
BY DEF Moved

\* What investors sign, decline, revoke and accept keeps the types.
LEMMA TypeOfInvestor ==
  ASSUME TypeOK, NEW i \in Investors, InvestorStep(i)
  PROVE  TypeOK'
<1> USE DEF TypeOK, NotOverdrawn, project, people, papers, classes
<1>1. ASSUME NEW from \in NdaStates, NEW to \in NdaStates, MoveNda(i, from, to)
      PROVE  ndas' \in [Investors -> [NdaStates -> Nat]]
  BY <1>1, PaperMoves DEF MoveNda
<1>2. ASSUME NEW s \in NdaStates, SignNdaAndLegReq(i, s) PROVE TypeOK'
  BY <1>2, <1>1 DEF SignNdaAndLegReq, NdaStates
<1>3. ASSUME NEW s \in NdaStates, DeclineNdaAndLegReq(i, s) PROVE TypeOK'
  BY <1>3, <1>1 DEF DeclineNdaAndLegReq, NdaStates
<1>4. ASSUME SignNDA(i) PROVE TypeOK'
  BY <1>4 DEF SignNDA, NdaStates
<1>5. ASSUME RevokeSignature(i) PROVE TypeOK'
  <2>1. shareholder_agreements' \in [Investors -> [PaperStates -> Nat]]
    BY <1>5, PaperMoves DEF RevokeSignature, PaperStates
  <2> QED
    BY <1>5, <2>1 DEF RevokeSignature
<1>6. ASSUME NEW c \in Classes, Whitelisting(c, i)
      PROVE  /\ shareholder_agreements' \in [Investors -> [PaperStates -> Nat]]
             /\ whitelisted' \subseteq Investors
  BY <1>6 DEF Whitelisting, PaperStates
<1>7. ASSUME NEW c \in Classes, SignShareholderAgreement(c, i) PROVE TypeOK'
  BY <1>7, <1>6 DEF SignShareholderAgreement
<1>8. ASSUME NEW c \in Classes, DeclineOffer(c, i) PROVE TypeOK'
  BY <1>8 DEF DeclineOffer
<1>9. ASSUME NEW c \in Classes, NEW n \in Quantities, AcceptOffer(c, i, n) PROVE TypeOK'
  <2> DEFINE a == [investor |-> i, shares |-> n, confirmed |-> 0, state |-> "subscribed",
                 tokens |-> <<>>]
  <2>1. a \in Agreement
    BY NumbersAssumption DEF Agreement, Quantities
  <2>2. agreements' = [agreements EXCEPT ![c] = Append(agreements[c], a)]
    BY <1>9 DEF AcceptOffer
  <2> HIDE DEF a
  <2>3. agreements' \in [Classes -> Seq(Agreement)]
    BY <2>1, <2>2
  <2> QED
    BY <1>6, <1>9, <2>3 DEF AcceptOffer
<1> QED
  BY <1>2, <1>3, <1>4, <1>5, <1>7, <1>8, <1>9 DEF InvestorStep

\* Every step keeps the types.
LEMMA TypeStep == TypeOK /\ [Next]_vars => TypeOK'
<1> SUFFICES ASSUME TypeOK, [Next]_vars PROVE TypeOK'
  OBVIOUS
<1>1. CASE UNCHANGED vars
  BY <1>1 DEF TypeOK, NotOverdrawn, vars, project, people, papers, classes
<1>2. CASE Next
  BY <1>2, TypeOfBank, TypeOfClock, TypeOfInvestor DEF Next
<1> QED
  BY <1>1, <1>2

\* The protocols keep their types, and no sequence of permissions overdraws a
\* class.
THEOREM TypeCorrect == Spec => []TypeOK
BY TypeInit, TypeStep, PTL DEF Spec

-----------------------------------------------------------------------------
(* Shares are conserved.  The invariant that carries the proof adds to it  *)
(* that a class without offers has no agreements, and that nothing is      *)
(* confirmed of an undecided agreement.                                    *)

NoAgreementsBeforeOffers ==
  \A c \in Classes :
    class_state[c] \in {"none", "created"} =>
      agreements[c] = <<>> /\ \A i \in Investors : offers[c][i] = "none"

UndecidedUnconfirmed ==
  \A c \in Classes : \A k \in DOMAIN agreements[c] :
    agreements[c][k].state = "subscribed" => agreements[c][k].confirmed = 0

SharesInv == TypeOK /\ NoAgreementsBeforeOffers /\ UndecidedUnconfirmed /\ SharesConserved

book == <<class_state, terms, available_shares, offers, agreements>>

\* A class without agreements has confirmed nothing.
LEMMA TotalOfNothing == Total(ConfirmedIn(<<>>)) = 0
<1> DEFINE none == ConfirmedIn(<<>>)
<1>1. none = <<>> /\ none \in Seq(Nat) /\ Len(none) = 0
  BY DEF ConfirmedIn
<1> HIDE DEF none
<1>2. SumsOf(none)[0] = 0
  BY <1>1, SumsOfNumbers
<1> QED
  BY <1>1, <1>2 DEF Total, none

\* Steps that do not touch what the classes keep.
LEMMA BookUnchanged ==
  ASSUME SharesInv, TypeOK', UNCHANGED book
  PROVE  SharesInv'
BY DEF SharesInv, NoAgreementsBeforeOffers, UndecidedUnconfirmed, SharesConserved, Exists,
       Confirmed, book

\* A new class has all its shares left.
LEMMA ConservedByCreation ==
  ASSUME SharesInv, TypeOK', NEW c \in Classes, NEW t \in Terms, CreateShareClass(c, t)
  PROVE  SharesInv'
<1> USE DEF SharesInv, TypeOK, CreateShareClass
<1>1. /\ ~ Exists(c)
      /\ class_state' = [class_state EXCEPT ![c] = "created"]
      /\ terms' = [terms EXCEPT ![c] = t]
      /\ available_shares' = [available_shares EXCEPT ![c] = t.shares]
      /\ agreements' = agreements /\ offers' = offers
  OBVIOUS
<1>2. agreements[c] = <<>> /\ \A i \in Investors : offers[c][i] = "none"
  BY <1>1 DEF Exists, NoAgreementsBeforeOffers
<1>3. NoAgreementsBeforeOffers'
  BY <1>1, <1>2 DEF NoAgreementsBeforeOffers
<1>4. UndecidedUnconfirmed'
  BY <1>1 DEF UndecidedUnconfirmed
<1>5. ASSUME NEW d \in Classes, Exists(d)'
      PROVE  available_shares'[d] + Total(Confirmed(d))' = terms'[d].shares
  <2>1. Total(Confirmed(d))' = Total(ConfirmedIn(agreements[d]))
    BY <1>1 DEF Confirmed, ConfirmedIn
  <2>2. CASE d = c
    <3>1. t.shares \in Int
      BY TermsAssumption DEF ClassTerms
    <3> QED
      BY <1>1, <1>2, <2>1, <2>2, <3>1, TotalOfNothing
  <2>3. CASE d # c
    <3>1. Exists(d)
      BY <1>1, <1>5, <2>3 DEF Exists
    <3> QED
      BY <1>1, <2>1, <2>3, <3>1 DEF SharesConserved, Confirmed, ConfirmedIn
  <2> QED
    BY <2>2, <2>3
<1> QED
  BY <1>3, <1>4, <1>5 DEF SharesConserved

\* Offers come, go and are answered without an effect on shares.
LEMMA ConservedByOffers ==
  ASSUME SharesInv, TypeOK',
         UNCHANGED <<terms, available_shares, agreements>>,
         \A c \in Classes : class_state'[c] \in {"none", "created"} =>
           class_state'[c] = class_state[c] /\ offers'[c] = offers[c],
         \A c \in Classes : class_state'[c] # "none" => class_state[c] # "none"
  PROVE  SharesInv'
<1> USE DEF SharesInv
<1>1. NoAgreementsBeforeOffers'
  BY DEF NoAgreementsBeforeOffers
<1>2. UndecidedUnconfirmed'
  BY DEF UndecidedUnconfirmed
<1>3. SharesConserved'
  BY DEF SharesConserved, Exists, Confirmed
<1> QED
  BY <1>1, <1>2, <1>3

\* An accepted offer appends an undecided agreement, which sums to nothing.
LEMMA ConservedByAcceptance ==
  ASSUME SharesInv, TypeOK', NEW c \in Classes, NEW i \in Investors, NEW n \in Quantities,
         AcceptOffer(c, i, n)
  PROVE  SharesInv'
<1> USE DEF SharesInv
<1> DEFINE a == [investor |-> i, shares |-> n, confirmed |-> 0, state |-> "subscribed",
               tokens |-> <<>>]
<1>1. /\ UNCHANGED <<class_state, terms, available_shares>>
      /\ agreements' = [agreements EXCEPT ![c] = Append(agreements[c], a)]
      /\ offers' = [offers EXCEPT ![c][i] = "customerAccepted"]
      /\ offers[c][i] = "created"
  BY DEF AcceptOffer, classes, Undecided
<1>2. a.state = "subscribed" /\ a.confirmed = 0
  OBVIOUS
<1> HIDE DEF a
<1>3. class_state[c] \notin {"none", "created"}
  BY <1>1 DEF NoAgreementsBeforeOffers
<1>4. NoAgreementsBeforeOffers'
  BY <1>1, <1>3 DEF NoAgreementsBeforeOffers, TypeOK
<1>5. agreements \in [Classes -> Seq(Agreement)] /\ agreements' \in [Classes -> Seq(Agreement)]
  BY DEF TypeOK
<1>6. UndecidedUnconfirmed'
  <2> SUFFICES ASSUME NEW d \in Classes, NEW k \in DOMAIN agreements'[d],
                      agreements'[d][k].state = "subscribed"
               PROVE  agreements'[d][k].confirmed = 0
    BY DEF UndecidedUnconfirmed
  <2>1. CASE d # c
    BY <1>1, <1>5, <2>1 DEF UndecidedUnconfirmed
  <2>2. CASE d = c
    <3>1. agreements'[c] = Append(agreements[c], a) /\ agreements[c] \in Seq(Agreement)
      BY <1>1, <1>5
    <3>2. CASE k = Len(agreements[c]) + 1
      BY <1>2, <2>2, <3>1, <3>2
    <3>3. CASE k # Len(agreements[c]) + 1
      <4>1. k \in DOMAIN agreements[c] /\ agreements'[c][k] = agreements[c][k]
        BY <2>2, <3>1, <3>3
      <4> QED
        BY <2>2, <4>1 DEF UndecidedUnconfirmed
    <3> QED
      BY <3>2, <3>3
  <2> QED
    BY <2>1, <2>2
<1>7. SharesConserved'
  <2> SUFFICES ASSUME NEW d \in Classes, Exists(d)'
               PROVE  available_shares'[d] + Total(Confirmed(d))' = terms'[d].shares
    BY DEF SharesConserved
  <2>1. available_shares[d] + Total(ConfirmedIn(agreements[d])) = terms[d].shares
    BY <1>1 DEF SharesConserved, Exists, Confirmed, ConfirmedIn
  <2>2. Total(Confirmed(d))' = Total(ConfirmedIn(agreements'[d]))
    BY DEF Confirmed, ConfirmedIn
  <2>3. CASE d # c
    BY <1>1, <1>5, <2>1, <2>2, <2>3
  <2>4. CASE d = c
    <3> DEFINE ags == agreements[c]
               old == ConfirmedIn(ags)
    <3>1. ags \in Seq(Agreement) /\ agreements'[c] = Append(ags, a) /\ a \in Agreement
      BY <1>1, <1>5, NumbersAssumption DEF a, Agreement, Quantities
    <3>2. old \in Seq(Nat) /\ Len(old) = Len(ags)
          /\ \A k \in 1 .. Len(ags) : old[k] = ags[k].confirmed
      BY <3>1, ConfirmedAreNumbers
    <3> HIDE DEF ags, old
    <3>3. ConfirmedIn(Append(ags, a)) = Append(old, 0)
      <4> DEFINE m == Len(ags)
                 new == ConfirmedIn(Append(ags, a))
      <4>1. Append(ags, a) \in Seq(Agreement) /\ Len(Append(ags, a)) = m + 1 /\ m \in Nat
            /\ \A k \in 1 .. m : Append(ags, a)[k] = ags[k]
            /\ Append(ags, a)[m + 1] = a
        BY <3>1
      <4>2. /\ new \in Seq(Nat) /\ Len(new) = m + 1
            /\ \A k \in 1 .. m + 1 : new[k] = Append(ags, a)[k].confirmed
        BY <4>1, ConfirmedAreNumbers
      <4>3. Append(old, 0) \in Seq(Nat) /\ Len(Append(old, 0)) = m + 1
            /\ \A k \in 1 .. m : Append(old, 0)[k] = old[k]
            /\ Append(old, 0)[m + 1] = 0
        BY <3>2
      <4> HIDE DEF m, new
      <4>4. \A k \in 1 .. m + 1 : new[k] = Append(old, 0)[k]
        BY <1>2, <3>2, <4>1, <4>2, <4>3 DEF m
      <4> QED
        BY <4>2, <4>3, <4>4 DEF new
    <3>4. Total(Append(old, 0)) = Total(old) + 0 /\ Total(old) \in Nat
      BY <3>2, TotalAppend
    <3>5. Total(ConfirmedIn(agreements'[c])) = Total(old)
      BY <3>1, <3>3, <3>4
    <3>6. old = ConfirmedIn(agreements[c])
      BY DEF ags, old
    <3> QED
      BY <1>1, <2>1, <2>2, <2>4, <3>5, <3>6
  <2> QED
    BY <2>3, <2>4
<1> QED
  BY <1>4, <1>6, <1>7

\* confirmSubscriptions moves shares from the class to the agreements.
LEMMA ConservedByConfirmation ==
  ASSUME SharesInv, TypeOK', NEW c \in Classes, Confirm(c)
  PROVE  SharesInv'
<1> DEFINE ags == agreements[c]
           b == available_shares[c]
           l == SharesLeft(ags, b)[Len(ags)]
           new == Decisions(ags, b)
<1>1. /\ UNCHANGED <<class_state, terms, offers>> /\ Exists(c)
      /\ agreements' = [agreements EXCEPT ![c] = new]
      /\ available_shares' = [available_shares EXCEPT ![c] = l]
  BY DEF Confirm, classes, Decisions
<1>2. ags \in Seq(Agreement) /\ b \in Int
  BY DEF SharesInv, TypeOK
<1>3. /\ agreements' \in [Classes -> Seq(Agreement)]
      /\ agreements \in [Classes -> Seq(Agreement)]
      /\ available_shares \in [Classes -> Int]
  BY DEF SharesInv, TypeOK
<1>4. \A k \in 1 .. Len(ags) : ags[k].state = "subscribed" => ags[k].confirmed = 0
  BY <1>2 DEF SharesInv, UndecidedUnconfirmed
<1>5. b + Total(ConfirmedIn(ags)) = terms[c].shares
  BY <1>1 DEF SharesInv, SharesConserved, Confirmed, ConfirmedIn
<1> HIDE DEF ags
<1>6. /\ new \in Seq(Agreement) /\ Len(new) = Len(ags)
      /\ \A k \in 1 .. Len(ags) : new[k].state # "subscribed"
  BY <1>2, DecisionsAreAgreements
<1>7. l + Total(ConfirmedIn(new)) = b + Total(ConfirmedIn(ags))
  BY <1>2, <1>4, LoopConservesShares
<1> HIDE DEF b, l, new
<1>8. NoAgreementsBeforeOffers'
  <2> SUFFICES ASSUME NEW d \in Classes, class_state[d] \in {"none", "created"}
               PROVE  agreements'[d] = <<>> /\ \A i \in Investors : offers[d][i] = "none"
    BY <1>1 DEF NoAgreementsBeforeOffers
  <2>1. agreements[d] = <<>> /\ \A i \in Investors : offers[d][i] = "none"
    BY DEF SharesInv, NoAgreementsBeforeOffers
  <2>2. CASE d = c
    <3>1. Len(ags) = 0
      BY <2>1, <2>2 DEF ags
    <3> QED
      BY <1>1, <1>3, <1>6, <2>1, <2>2, <3>1
  <2> QED
    BY <1>1, <1>3, <2>1, <2>2
<1>9. UndecidedUnconfirmed'
  <2> SUFFICES ASSUME NEW d \in Classes, NEW k \in DOMAIN agreements'[d],
                      agreements'[d][k].state = "subscribed"
               PROVE  agreements'[d][k].confirmed = 0
    BY DEF UndecidedUnconfirmed
  <2>1. d # c
    BY <1>1, <1>3, <1>6
  <2> QED
    BY <1>1, <1>3, <2>1 DEF SharesInv, UndecidedUnconfirmed
<1>10. SharesConserved'
  <2> SUFFICES ASSUME NEW d \in Classes, Exists(d)'
               PROVE  available_shares'[d] + Total(ConfirmedIn(agreements'[d])) = terms[d].shares
    BY <1>1 DEF SharesConserved, Confirmed, ConfirmedIn
  <2>1. CASE d = c
    BY <1>1, <1>3, <1>5, <1>7, <2>1
  <2>2. CASE d # c
    BY <1>1, <1>3, <2>2 DEF SharesInv, SharesConserved, Exists, Confirmed, ConfirmedIn
  <2> QED
    BY <2>1, <2>2
<1> QED
  BY <1>8, <1>9, <1>10 DEF SharesInv

SameButTokens(new, old) ==
  /\ old \in Seq(Agreement) /\ new \in Seq(Agreement) /\ Len(new) = Len(old)
  /\ \A j \in 1 .. Len(old) :
       /\ new[j].investor = old[j].investor /\ new[j].shares = old[j].shares
       /\ new[j].confirmed = old[j].confirmed /\ new[j].state = old[j].state

\* A token leaves everything but the tokens of its agreement as it was.
LEMMA TokenTouchesNothing ==
  ASSUME TypeOK, TypeOK', NEW c \in Classes, NEW k \in DOMAIN agreements[c], CreateToken(c, k)
  PROVE  /\ \A d \in Classes : SameButTokens(agreements'[d], agreements[d])
         /\ UNCHANGED <<project, people, whitelisted, papers, classes, overdue, offers>>
<1>1. /\ agreements' = [agreements EXCEPT ![c] = [agreements[c] EXCEPT ![k] = WithToken(agreements[c][k])]]
      /\ UNCHANGED <<project, people, whitelisted, papers, classes, overdue, offers>>
  BY DEF CreateToken
<1>2. agreements \in [Classes -> Seq(Agreement)] /\ agreements' \in [Classes -> Seq(Agreement)]
  BY DEF TypeOK
<1>3. ASSUME NEW d \in Classes
      PROVE  SameButTokens(agreements'[d], agreements[d])
  <2>1. CASE d # c
    BY <1>1, <1>2, <2>1 DEF SameButTokens
  <2>2. CASE d = c
    <3> DEFINE old == agreements[c]
               new == agreements'[c]
    <3>1. /\ new = [old EXCEPT ![k] = WithToken(old[k])]
          /\ old \in Seq(Agreement) /\ new \in Seq(Agreement) /\ k \in DOMAIN old
      BY <1>1, <1>2
    <3> HIDE DEF old, new
    <3>2. old[k] \in Agreement /\ k \in 1 .. Len(old) /\ Len(new) = Len(old)
      BY <3>1
    <3>3. /\ WithToken(old[k]).investor = old[k].investor
          /\ WithToken(old[k]).shares = old[k].shares
          /\ WithToken(old[k]).confirmed = old[k].confirmed
          /\ WithToken(old[k]).state = old[k].state
      BY <3>2, TokenAdded
    <3>4. \A j \in 1 .. Len(old) : new[j] = IF j = k THEN WithToken(old[k]) ELSE old[j]
      BY <3>1
    <3>5. SameButTokens(new, old)
      BY <3>1, <3>2, <3>3, <3>4 DEF SameButTokens
    <3> QED
      BY <2>2, <3>5 DEF old, new
  <2> QED
    BY <2>1, <2>2
<1> QED
  BY <1>1, <1>3

\* The shares that are confirmed do not depend on the tokens.
LEMMA SameConfirmed ==
  ASSUME NEW new, NEW old, SameButTokens(new, old)
  PROVE  ConfirmedIn(new) = ConfirmedIn(old)
<1>1. /\ ConfirmedIn(new) \in Seq(Nat) /\ ConfirmedIn(old) \in Seq(Nat)
      /\ Len(ConfirmedIn(new)) = Len(old) /\ Len(ConfirmedIn(old)) = Len(old)
      /\ \A j \in 1 .. Len(old) : ConfirmedIn(new)[j] = ConfirmedIn(old)[j]
  BY ConfirmedAreNumbers DEF SameButTokens
<1> DEFINE x == ConfirmedIn(new)
           y == ConfirmedIn(old)
<1> HIDE DEF x, y
<1>2. x = y
  BY <1>1 DEF x, y
<1> QED
  BY <1>2 DEF x, y

\* Tokens are created without an effect on shares.
LEMMA ConservedByTokens ==
  ASSUME SharesInv, TypeOK', NEW c \in Classes, NEW k \in DOMAIN agreements[c],
         CreateToken(c, k)
  PROVE  SharesInv'
<1>1. /\ \A d \in Classes : SameButTokens(agreements'[d], agreements[d])
      /\ UNCHANGED <<class_state, terms, available_shares, offers>>
  BY TokenTouchesNothing DEF SharesInv, classes
<1>2. NoAgreementsBeforeOffers'
  <2> SUFFICES ASSUME NEW d \in Classes, class_state[d] \in {"none", "created"}
               PROVE  agreements'[d] = <<>> /\ \A i \in Investors : offers[d][i] = "none"
    BY <1>1 DEF NoAgreementsBeforeOffers
  <2>1. agreements[d] = <<>> /\ \A i \in Investors : offers[d][i] = "none"
    BY DEF SharesInv, NoAgreementsBeforeOffers
  <2> QED
    BY <1>1, <2>1 DEF SameButTokens
<1>3. UndecidedUnconfirmed'
  <2> SUFFICES ASSUME NEW d \in Classes, NEW j \in DOMAIN agreements'[d],
                      agreements'[d][j].state = "subscribed"
               PROVE  agreements'[d][j].confirmed = 0
    BY DEF UndecidedUnconfirmed
  <2>1. j \in DOMAIN agreements[d] /\ agreements[d][j].state = "subscribed"
        /\ agreements'[d][j].confirmed = agreements[d][j].confirmed
    BY <1>1 DEF SameButTokens
  <2> QED
    BY <2>1 DEF SharesInv, UndecidedUnconfirmed
<1>4. SharesConserved'
  <2> SUFFICES ASSUME NEW d \in Classes, Exists(d)'
               PROVE  available_shares'[d] + Total(ConfirmedIn(agreements'[d])) = terms'[d].shares
    BY DEF SharesConserved, Confirmed, ConfirmedIn
  <2>1. ConfirmedIn(agreements'[d]) = ConfirmedIn(agreements[d])
    BY <1>1, SameConfirmed
  <2> QED
    BY <1>1, <2>1 DEF SharesInv, SharesConserved, Exists, Confirmed, ConfirmedIn
<1> QED
  BY <1>2, <1>3, <1>4 DEF SharesInv

\* Before anything happens there are no classes.
LEMMA SharesInit == Init => SharesInv
<1> SUFFICES ASSUME Init PROVE SharesInv
  OBVIOUS
<1>1. NoAgreementsBeforeOffers /\ UndecidedUnconfirmed /\ SharesConserved
  BY DEF Init, NoAgreementsBeforeOffers, UndecidedUnconfirmed, SharesConserved, Exists
<1> QED
  BY <1>1, TypeInit DEF SharesInv

\* Every step conserves the shares.
LEMMA SharesStep == SharesInv /\ [Next]_vars => SharesInv'
<1> SUFFICES ASSUME SharesInv, [Next]_vars PROVE SharesInv'
  OBVIOUS
<1>1. TypeOK'
  BY TypeStep DEF SharesInv
<1>2. CASE UNCHANGED vars
  BY <1>1, <1>2, BookUnchanged DEF vars, classes, book
<1>3. ASSUME NEW c \in Classes, NEW i \in Investors, offers[c][i] # "none",
             \E s : offers' = [offers EXCEPT ![c][i] = s],
             UNCHANGED <<class_state, terms, available_shares, agreements>>
      PROVE  SharesInv'
  <2>1. class_state[c] \notin {"none", "created"}
    BY <1>3 DEF SharesInv, NoAgreementsBeforeOffers
  <2>2. \A d \in Classes : d # c => offers'[d] = offers[d]
    BY <1>3 DEF SharesInv, TypeOK
  <2> QED
    BY <1>1, <1>3, <2>1, <2>2, ConservedByOffers
<1>4. ASSUME BankStep PROVE SharesInv'
  <2> USE DEF classes, book
  <2>1. CASE CloseProject
    BY <1>1, <2>1, BookUnchanged DEF CloseProject
  <2>2. ASSUME NEW collected \in SUBSET Classes, Collect(collected),
               \A c \in collected : Exists(c)
        PROVE  SharesInv'
    <3>1. UNCHANGED <<terms, available_shares, agreements>>
      BY <2>2 DEF Collect
    <3>2. \A c \in Classes :
            class_state'[c] = IF c \in collected THEN "subscriptionsCollected" ELSE class_state[c]
      BY <2>2 DEF Collect
    <3>3. \A c \in Classes : c \notin collected => offers'[c] = offers[c]
      <4> SUFFICES ASSUME NEW c \in Classes, c \notin collected
                   PROVE  offers'[c] = offers[c]
        OBVIOUS
      <4>1. offers'[c] = [i \in Investors |-> offers[c][i]]
        BY <2>2 DEF Collect
      <4> QED
        BY <4>1 DEF SharesInv, TypeOK
    <3> QED
      BY <1>1, <2>2, <3>1, <3>2, <3>3, ConservedByOffers DEF Exists
  <2>3. CASE \E investors \in SUBSET Investors : SelectInvestors(investors)
    BY <1>1, <2>3, BookUnchanged DEF SelectInvestors
  <2>4. CASE \E i \in Suspects : AddBlackListedInvestor(i)
    BY <1>1, <2>4, BookUnchanged DEF AddBlackListedInvestor
  <2>5. CASE \E c \in Classes, t \in Terms : CreateShareClass(c, t)
    BY <1>1, <2>5, ConservedByCreation
  <2>6. CASE \E c \in Classes : SetSATemplate(c)
    BY <1>1, <2>6, BookUnchanged DEF SetSATemplate
  <2>7. ASSUME NEW c \in Classes, SendOriginalOffers(c) PROVE SharesInv'
    <3>1. UNCHANGED <<terms, available_shares, agreements>>
      BY <2>7 DEF SendOriginalOffers
    <3>2. class_state[c] = "created"
          /\ class_state' = [class_state EXCEPT ![c] = "offersSent"]
      BY <2>7 DEF SendOriginalOffers
    <3>3. \A d \in Classes : d # c => offers'[d] = offers[d]
      BY <2>7 DEF SendOriginalOffers, SharesInv, TypeOK
    <3>4. class_state \in [Classes -> {"none", "created", "offersSent", "subscriptionsCollected"}]
      BY DEF SharesInv, TypeOK
    <3>5. \A d \in Classes : class_state'[d] \in {"none", "created"} =>
            class_state'[d] = class_state[d] /\ offers'[d] = offers[d]
      BY <3>2, <3>3, <3>4
    <3>6. \A d \in Classes : class_state'[d] # "none" => class_state[d] # "none"
      BY <3>2, <3>4
    <3> QED
      BY <1>1, <3>1, <3>5, <3>6, ConservedByOffers
  <2>8. CASE \E c \in Classes : ConfirmSubscriptions(c) \/ ConfirmSubscriptionAgreements(c)
    BY <1>1, <2>8, ConservedByConfirmation DEF ConfirmSubscriptions, ConfirmSubscriptionAgreements
  <2>9. CASE \E i \in Investors, status \in BOOLEAN : SetCompliant(i, status)
    BY <1>1, <2>9, BookUnchanged DEF SetCompliant
  <2>10. CASE \E i \in Investors, amount \in Liquidities : SetLiquidity(i, amount)
    BY <1>1, <2>10, BookUnchanged DEF SetLiquidity
  <2>11. CASE \E i \in Investors : AddWhitelistedInvestor(i)
    BY <1>1, <2>11, BookUnchanged DEF AddWhitelistedInvestor
  <2>12. CASE \E i \in Investors : RemoveWhitelistedInvestor(i)
    BY <1>1, <2>12, BookUnchanged DEF RemoveWhitelistedInvestor
  <2>13. CASE \E c \in Classes, i \in Investors : Expire(c, i)
    BY <1>3, <2>13 DEF Expire, Undecided
  <2>14. CASE \E c \in Classes : \E k \in DOMAIN agreements[c] : CreateToken(c, k)
    BY <1>1, <2>14, ConservedByTokens
  <2>15. CASE CollectSubscriptions
    <3>1. /\ {c \in Classes : Exists(c)} \in SUBSET Classes
          /\ \A c \in {d \in Classes : Exists(d)} : Exists(c)
      OBVIOUS
    <3> QED
      BY <2>2, <2>15, <3>1 DEF CollectSubscriptions
  <2>16. CASE \E c \in Classes : CollectSubscriptionsOf(c)
    <3>1. \A c \in Classes : {c} \in SUBSET Classes /\ \A d \in {c} : d = c
      OBVIOUS
    <3> QED
      BY <2>2, <2>16, <3>1 DEF CollectSubscriptionsOf
  <2> QED
    BY <1>4, <2>1, <2>3, <2>4, <2>5, <2>6, <2>7, <2>8, <2>9, <2>10, <2>11, <2>12, <2>13,
       <2>14, <2>15, <2>16
       DEF BankStep
<1>5. ASSUME ClockStep PROVE SharesInv'
  <2>1. CASE \E c \in Classes : DeadlinePasses(c)
    BY <1>1, <2>1, BookUnchanged DEF DeadlinePasses, classes, book
  <2>2. CASE \E c \in Classes, i \in Investors : ExpireOffer(c, i)
    BY <1>3, <2>2 DEF ExpireOffer, Expire, Undecided, classes
  <2> QED
    BY <1>5, <2>1, <2>2 DEF ClockStep
<1>6. ASSUME NEW i \in Investors, InvestorStep(i) PROVE SharesInv'
  <2> USE DEF classes, book
  <2>1. CASE \E s \in NdaStates : SignNdaAndLegReq(i, s)
    BY <1>1, <2>1, BookUnchanged DEF SignNdaAndLegReq
  <2>2. CASE \E s \in NdaStates : DeclineNdaAndLegReq(i, s)
    BY <1>1, <2>2, BookUnchanged DEF DeclineNdaAndLegReq
  <2>3. CASE SignNDA(i)
    BY <1>1, <2>3, BookUnchanged DEF SignNDA
  <2>4. CASE RevokeSignature(i)
    BY <1>1, <2>4, BookUnchanged DEF RevokeSignature
  <2>5. CASE \E c \in Classes : SignShareholderAgreement(c, i)
    BY <1>1, <2>5, BookUnchanged DEF SignShareholderAgreement
  <2>6. CASE \E c \in Classes : DeclineOffer(c, i)
    BY <1>3, <2>6 DEF DeclineOffer, Undecided
  <2>7. CASE \E c \in Classes, n \in Quantities : AcceptOffer(c, i, n)
    BY <1>1, <2>7, ConservedByAcceptance
  <2> QED
    BY <1>6, <2>1, <2>2, <2>3, <2>4, <2>5, <2>6, <2>7 DEF InvestorStep
<1> QED
  BY <1>2, <1>4, <1>5, <1>6 DEF Next

\* However often a class is confirmed, and whatever happens in between, the
\* shares left and the shares confirmed add up to those it was created with.
THEOREM SharesAreConserved == Spec => []SharesConserved
<1>1. SharesInv => SharesConserved
  BY DEF SharesInv
<1> QED
  BY SharesInit, SharesStep, <1>1, PTL DEF Spec

-----------------------------------------------------------------------------
(* The value of the classes, for finitely many of them.                    *)

\* A class that exists was created with terms that fit.
TermsFit ==
  \A c \in Classes : Exists(c) => terms[c] \in ClassTerms /\ terms[c].shares <= terms[c].total

ValuesFit == available_amount + SumOver(ClassValues, Classes)[Classes] = ProjectValue

NothingOverspent == (\E c \in Classes : Exists(c)) => available_amount >= 0

BackedInv == SharesInv /\ TermsFit /\ ValuesFit /\ NothingOverspent

\* The value of a class is an integer.
LEMMA ValuesAreNumbers ==
  ASSUME TermsFit
  PROVE  ClassValues \in [Classes -> Int]
BY DEF TermsFit, ClassValues, ClassTerms

\* The sum of the values by the recursion of SetSums.
LEMMA ValueBySums ==
  ValuesFit <=> available_amount + MapThenSumSet(ValueOf, Classes) = ProjectValue
BY DEF ValuesFit, ValueOf, MapThenSumSet, MapThenFoldSet, SumOver, NextOf

\* What makes classes backed: their terms and their conserved shares.
LEMMA BackedFollows ==
  ASSUME BackedInv
  PROVE  ClassesAreBacked
<1>1. ASSUME NEW c \in Classes, Total(Confirmed(c)) > 0
      PROVE  Exists(c) /\ Total(Confirmed(c)) <= terms[c].total
  <2>1. Confirmed(c) = ConfirmedIn(agreements[c]) /\ agreements[c] \in Seq(Agreement)
    BY DEF BackedInv, SharesInv, TypeOK, Confirmed, ConfirmedIn
  <2>2. Total(Confirmed(c)) \in Nat
    <3>1. Confirmed(c) \in Seq(Nat)
      BY <2>1, ConfirmedAreNumbers
    <3> QED
      BY <3>1, SumsOfNumbers DEF Total
  <2>3. Exists(c)
    <3> SUFFICES ASSUME ~ Exists(c) PROVE FALSE
      OBVIOUS
    <3>1. agreements[c] = <<>>
      BY DEF Exists, BackedInv, SharesInv, NoAgreementsBeforeOffers
    <3>2. Total(Confirmed(c)) = 0
      BY <2>1, <3>1, TotalOfNothing
    <3> QED
      BY <1>1, <3>2
  <2>4. /\ terms[c] \in ClassTerms /\ terms[c].shares <= terms[c].total
        /\ available_shares[c] + Total(Confirmed(c)) = terms[c].shares
        /\ available_shares[c] \in Int
        /\ available_shares[c] < 0 => terms[c].shares = available_shares[c]
    BY <2>3 DEF BackedInv, TermsFit, SharesInv, SharesConserved, TypeOK, NotOverdrawn
  <2>5. terms[c].shares \in Int /\ terms[c].total \in Int
    BY <2>4 DEF ClassTerms
  <2> QED
    BY <1>1, <2>2, <2>3, <2>4, <2>5
<1> QED
  BY <1>1, ValueBySums DEF ClassesAreBacked, BackedInv, NothingOverspent

\* Only createShareClass touches the project's amount, the terms of a class or
\* which classes there are.
LEMMA ClassSteps ==
  ASSUME TypeOK, [Next]_vars
  PROVE  \/ \E c \in Classes, t \in Terms : CreateShareClass(c, t)
         \/ /\ UNCHANGED <<available_amount, terms>>
            /\ \A c \in Classes : class_state'[c] = "none" <=> class_state[c] = "none"
<1> DEFINE Same == /\ UNCHANGED <<available_amount, terms>>
                   /\ \A c \in Classes : class_state'[c] = "none" <=> class_state[c] = "none"
<1> USE DEF project, people, papers, classes
<1>1. CASE UNCHANGED vars
  BY <1>1 DEF vars
<1>2. ASSUME BankStep, \A c \in Classes, t \in Terms : ~ CreateShareClass(c, t) PROVE Same
  <2>1. CASE CollectSubscriptions \/ \E c \in Classes : CollectSubscriptionsOf(c)
    BY <2>1 DEF CollectSubscriptions, CollectSubscriptionsOf, Collect, Exists
  <2>2. CASE \E c \in Classes : SendOriginalOffers(c)
    BY <2>2 DEF SendOriginalOffers, TypeOK
  <2>3. CASE \E c \in Classes : ConfirmSubscriptions(c) \/ ConfirmSubscriptionAgreements(c)
    BY <2>3 DEF ConfirmSubscriptions, ConfirmSubscriptionAgreements, Confirm
  <2>4. CASE \E c \in Classes : \/ \E i \in Investors : Expire(c, i)
                               \/ \E k \in DOMAIN agreements[c] : CreateToken(c, k)
    BY <2>4 DEF Expire, CreateToken
  <2> QED
    BY <1>2, <2>1, <2>2, <2>3, <2>4 DEF BankStep, CloseProject, SelectInvestors,
       AddBlackListedInvestor, SetSATemplate, SetCompliant,
       SetLiquidity, AddWhitelistedInvestor, RemoveWhitelistedInvestor
<1>3. ASSUME ClockStep PROVE Same
  BY <1>3 DEF ClockStep, DeadlinePasses, ExpireOffer, Expire
<1>4. ASSUME NEW i \in Investors, InvestorStep(i) PROVE Same
  BY <1>4 DEF InvestorStep, SignNdaAndLegReq, DeclineNdaAndLegReq, SignNDA,
     RevokeSignature, SignShareholderAgreement, DeclineOffer, AcceptOffer, Whitelisting
<1> QED
  BY <1>1, <1>2, <1>3, <1>4 DEF Next

\* A project starts with all of its value and no classes.
LEMMA BackedInit ==
  ASSUME IsFiniteSet(Classes), Init
  PROVE  BackedInv
<1>1. \A c \in Classes : ~ Exists(c)
  BY DEF Init, Exists
<1>2. ClassValues = [c \in Classes |-> 0]
  BY <1>1 DEF ClassValues
<1>3. SumOver(ClassValues, Classes)[Classes] = 0
  BY <1>2, SumOfZeros
<1> QED
  BY <1>1, <1>3, SharesInit, NumbersAssumption
  DEF BackedInv, TermsFit, ValuesFit, NothingOverspent, Init

\* A new class takes its value from the project, a negative one adds to it.
LEMMA BackedByCreation ==
  ASSUME IsFiniteSet(Classes), BackedInv, NEW c \in Classes, NEW t \in Terms,
         CreateShareClass(c, t)
  PROVE  TermsFit' /\ ValuesFit' /\ NothingOverspent'
<1> DEFINE f == ClassValues
           e == ClassValues'
<1>1. /\ t \in ClassTerms /\ t.value \in Int /\ t.shares <= t.total
      /\ available_amount' = available_amount - t.value
      /\ available_amount \in Int /\ t.value <= available_amount /\ ProjectValue \in Int
  BY TermsAssumption, NumbersAssumption
  DEF CreateShareClass, AmountLeft, ClassTerms, BackedInv, SharesInv, TypeOK
<1>2. TermsFit /\ available_amount + SumOver(f, Classes)[Classes] = ProjectValue
  BY DEF BackedInv, ValuesFit
<1>3. /\ ~ Exists(c)
      /\ class_state' = [class_state EXCEPT ![c] = "created"]
      /\ terms' = [terms EXCEPT ![c] = t]
  BY DEF CreateShareClass
<1>4. /\ class_state \in [Classes ->
           {"none", "created", "offersSent", "subscriptionsCollected"}]
      /\ terms \in [Classes -> ClassTerms \cup {NoTerms}]
  BY DEF BackedInv, SharesInv, TypeOK
<1>5. TermsFit'
  BY <1>1, <1>2, <1>3, <1>4 DEF TermsFit, Exists
<1>6. f[c] = 0 /\ e[c] = t.value /\ DifferAt(c, f, e, Classes)
  BY <1>3, <1>4 DEF ClassValues, Exists, DifferAt
<1>7. f \in [Classes -> Int]
  BY <1>2, ValuesAreNumbers
<1>8. e \in [Classes -> Int]
  BY <1>5 DEF TermsFit, ClassValues, ClassTerms
<1> HIDE DEF f, e
<1>9. /\ SumOver(f, Classes)[Classes] \in Int
      /\ SumOver(e, Classes)[Classes] = SumOver(f, Classes)[Classes] + e[c] - f[c]
  BY <1>6, <1>7, <1>8, IntegerSumChanges
<1>10. available_amount' + SumOver(e, Classes)[Classes] = ProjectValue
  BY <1>1, <1>2, <1>6, <1>9
<1>11. available_amount' >= 0
  BY <1>1
<1> QED
  BY <1>5, <1>10, <1>11 DEF ValuesFit, NothingOverspent, e

\* For any finite set of classes, of whatever value: the values of the classes
\* and what is left are the project's value, and no sequence of confirmations
\* grants more shares of a class than it is divided into.
THEOREM ClassesStayBacked ==
  ASSUME IsFiniteSet(Classes)
  PROVE  Spec => []ClassesAreBacked
<1>1. Init => BackedInv
  BY BackedInit
<1>2. BackedInv /\ [Next]_vars => BackedInv'
  <2> SUFFICES ASSUME BackedInv, [Next]_vars PROVE BackedInv'
    OBVIOUS
  <2>1. SharesInv'
    BY SharesStep DEF BackedInv
  <2>2. CASE \E c \in Classes, t \in Terms : CreateShareClass(c, t)
    BY <2>1, <2>2, BackedByCreation DEF BackedInv
  <2>3. ASSUME UNCHANGED <<available_amount, terms>>,
               \A c \in Classes : class_state'[c] = "none" <=> class_state[c] = "none"
        PROVE  BackedInv'
    <3>1. \A c \in Classes : Exists(c)' <=> Exists(c)
      BY <2>3 DEF Exists
    <3>2. TermsFit' /\ NothingOverspent'
      BY <2>3, <3>1 DEF BackedInv, TermsFit, NothingOverspent
    <3>3. ClassValues' = ClassValues
      BY <2>3, <3>1 DEF ClassValues
    <3>4. ValuesFit'
      BY <2>3, <3>3 DEF BackedInv, ValuesFit
    <3> QED
      BY <2>1, <3>2, <3>4 DEF BackedInv
  <2> QED
    BY <2>2, <2>3, ClassSteps DEF BackedInv, SharesInv
<1>3. BackedInv => ClassesAreBacked
  BY BackedFollows
<1> QED
  BY <1>1, <1>2, <1>3, PTL DEF Spec

-----------------------------------------------------------------------------
(* What steps do to the agreements there are.                              *)

\* Confirmations and tokens leave investors, requests and offers alone.
LEMMA RequestsStand ==
  ASSUME TypeOK, TypeOK', NEW c \in Classes,
         Confirm(c) \/ \E k \in DOMAIN agreements[c] : CreateToken(c, k)
  PROVE  /\ \A d \in Classes :
              /\ DOMAIN agreements'[d] = DOMAIN agreements[d]
              /\ \A k \in DOMAIN agreements[d] :
                   /\ agreements'[d][k].investor = agreements[d][k].investor
                   /\ agreements'[d][k].shares = agreements[d][k].shares
         /\ UNCHANGED <<available_amount, people, whitelisted, papers, class_state, terms,
                        templates, namesakes, overdue, offers>>
<1>1. CASE \E k \in DOMAIN agreements[c] : CreateToken(c, k)
  <2>1. /\ \A d \in Classes : SameButTokens(agreements'[d], agreements[d])
        /\ UNCHANGED <<project, people, whitelisted, papers, classes, overdue, offers>>
    BY <1>1, TokenTouchesNothing
  <2>2. ASSUME NEW d \in Classes
        PROVE  /\ DOMAIN agreements'[d] = DOMAIN agreements[d]
               /\ \A k \in DOMAIN agreements[d] :
                    /\ agreements'[d][k].investor = agreements[d][k].investor
                    /\ agreements'[d][k].shares = agreements[d][k].shares
    BY <2>1 DEF SameButTokens
  <2> QED
    BY <2>1, <2>2 DEF project, classes
<1>2. CASE Confirm(c)
  <2> DEFINE ags == agreements[c]
             new == Decisions(ags, available_shares[c])
  <2>1. /\ agreements' = [agreements EXCEPT ![c] = new]
        /\ UNCHANGED <<available_amount, people, whitelisted, papers, class_state, terms,
                       templates, namesakes, overdue, offers>>
    BY <1>2 DEF Confirm, Decisions
  <2>2. ags \in Seq(Agreement) /\ available_shares[c] \in Int
        /\ agreements \in [Classes -> Seq(Agreement)]
    BY DEF TypeOK
  <2> HIDE DEF ags
  <2>3. /\ new \in Seq(Agreement) /\ Len(new) = Len(ags)
        /\ \A k \in 1 .. Len(ags) :
             new[k].investor = ags[k].investor /\ new[k].shares = ags[k].shares
    BY <2>2, DecisionsAreAgreements
  <2> HIDE DEF new
  <2>4. \A d \in Classes :
          /\ DOMAIN agreements'[d] = DOMAIN agreements[d]
          /\ \A k \in DOMAIN agreements[d] :
               /\ agreements'[d][k].investor = agreements[d][k].investor
               /\ agreements'[d][k].shares = agreements[d][k].shares
    BY <2>1, <2>2, <2>3 DEF ags
  <2> QED
    BY <2>1, <2>4
<1> QED
  BY <1>1, <1>2

\* In one step an agreement stays as it is, gets a token or is decided, or it
\* is a new one, with nothing confirmed and no tokens.
LEMMA AgreementSteps ==
  ASSUME TypeOK, [Next]_vars, NEW d \in Classes, NEW j \in DOMAIN agreements'[d]
  PROVE  \/ /\ j \in DOMAIN agreements[d]
            /\ \/ agreements'[d][j] = agreements[d][j]
               \/ agreements'[d][j] = WithToken(agreements[d][j])
               \/ \E left \in Int : agreements'[d][j] = Decided(agreements[d][j], left)
         \/ /\ agreements'[d][j].state = "subscribed"
            /\ agreements'[d][j].confirmed = 0 /\ agreements'[d][j].tokens = <<>>
<1> DEFINE Fine == \/ /\ j \in DOMAIN agreements[d]
                      /\ \/ agreements'[d][j] = agreements[d][j]
                         \/ agreements'[d][j] = WithToken(agreements[d][j])
                         \/ \E left \in Int : agreements'[d][j] = Decided(agreements[d][j], left)
                   \/ /\ agreements'[d][j].state = "subscribed"
                      /\ agreements'[d][j].confirmed = 0 /\ agreements'[d][j].tokens = <<>>
<1>1. agreements \in [Classes -> Seq(Agreement)] /\ available_shares \in [Classes -> Int]
  BY DEF TypeOK
<1>2. CASE UNCHANGED agreements
  BY <1>2
<1>3. ASSUME NEW c \in Classes, Confirm(c) PROVE Fine
  <2> DEFINE ags == agreements[c]
             b == available_shares[c]
             new == Decisions(ags, b)
             left == SharesLeft(ags, b)
  <2>1. agreements' = [agreements EXCEPT ![c] = new]
    BY <1>3 DEF Confirm, Decisions
  <2>2. ags \in Seq(Agreement) /\ b \in Int
    BY <1>1
  <2> HIDE DEF ags, b
  <2>3. \A k \in 1 .. Len(ags) : left[k - 1] \in Int
    <3>1. left \in [0 .. Len(ags) -> Int] /\ Len(ags) \in Nat
      BY <2>2, SharesLeftAreNumbers
    <3> HIDE DEF left
    <3> QED
      BY <3>1
  <2>4. new = [k \in 1 .. Len(ags) |-> Decided(ags[k], left[k - 1])]
    BY DEF Decisions
  <2> HIDE DEF new, left
  <2>5. CASE d = c
    <3>1. agreements'[d] = new /\ agreements[d] = ags
      BY <1>1, <2>1, <2>5 DEF ags
    <3>2. j \in 1 .. Len(ags) /\ DOMAIN ags = 1 .. Len(ags)
      BY <2>2, <2>4, <3>1
    <3>3. left[j - 1] \in Int /\ agreements'[d][j] = Decided(agreements[d][j], left[j - 1])
      BY <2>3, <2>4, <3>1, <3>2
    <3> QED
      BY <3>1, <3>2, <3>3
  <2>6. CASE d # c
    BY <1>1, <2>1, <2>6
  <2> QED
    BY <2>5, <2>6
<1>4. ASSUME NEW c \in Classes, NEW k \in DOMAIN agreements[c], CreateToken(c, k) PROVE Fine
  <2>1. agreements' = [agreements EXCEPT ![c] =
                         [agreements[c] EXCEPT ![k] = WithToken(agreements[c][k])]]
    BY <1>4 DEF CreateToken
  <2>2. /\ DOMAIN agreements'[d] = DOMAIN agreements[d]
        /\ agreements'[d][j] = agreements[d][j] \/ agreements'[d][j] = WithToken(agreements[d][j])
    BY <1>1, <2>1
  <2> QED
    BY <2>2
<1>5. ASSUME NEW c \in Classes, NEW i \in Investors, NEW n \in Quantities, AcceptOffer(c, i, n)
      PROVE  Fine
  <2> DEFINE a == [investor |-> i, shares |-> n, confirmed |-> 0, state |-> "subscribed",
                   tokens |-> <<>>]
  <2>1. agreements' = [agreements EXCEPT ![c] = Append(agreements[c], a)]
    BY <1>5 DEF AcceptOffer
  <2>2. a.state = "subscribed" /\ a.confirmed = 0 /\ a.tokens = <<>>
    OBVIOUS
  <2> HIDE DEF a
  <2>3. CASE d = c
    <3>1. agreements'[d] = Append(agreements[d], a) /\ agreements[d] \in Seq(Agreement)
      BY <1>1, <2>1, <2>3
    <3>2. \/ j \in DOMAIN agreements[d] /\ agreements'[d][j] = agreements[d][j]
          \/ agreements'[d][j] = a
      BY <3>1
    <3> QED
      BY <2>2, <3>2
  <2>4. CASE d # c
    BY <1>1, <2>1, <2>4
  <2> QED
    BY <2>3, <2>4
<1> HIDE DEF Fine
<1>6. CASE UNCHANGED vars
  BY <1>2, <1>6 DEF vars, Fine
<1>7. CASE BankStep
  <2>1. CASE \E c \in Classes : ConfirmSubscriptions(c) \/ ConfirmSubscriptionAgreements(c)
    BY <1>3, <2>1 DEF ConfirmSubscriptions, ConfirmSubscriptionAgreements, Fine
  <2>2. CASE \E c \in Classes : \E k \in DOMAIN agreements[c] : CreateToken(c, k)
    BY <1>4, <2>2 DEF Fine
  <2>3. ASSUME ~ \E c \in Classes : ConfirmSubscriptions(c) \/ ConfirmSubscriptionAgreements(c),
               ~ \E c \in Classes : \E k \in DOMAIN agreements[c] : CreateToken(c, k)
        PROVE  UNCHANGED agreements
    BY <1>7, <2>3 DEF BankStep, CloseProject, CollectSubscriptions, CollectSubscriptionsOf,
       Collect, SelectInvestors, AddBlackListedInvestor, CreateShareClass, SetSATemplate,
       SendOriginalOffers, Expire, SetCompliant, SetLiquidity, AddWhitelistedInvestor,
       RemoveWhitelistedInvestor
  <2> QED
    BY <1>2, <2>1, <2>2, <2>3 DEF Fine
<1>8. CASE ClockStep
  <2>1. UNCHANGED agreements
    BY <1>8 DEF ClockStep, DeadlinePasses, ExpireOffer, Expire
  <2> QED
    BY <1>2, <2>1 DEF Fine
<1>9. ASSUME NEW i \in Investors, InvestorStep(i) PROVE Fine
  <2>1. CASE \E c \in Classes, n \in Quantities : AcceptOffer(c, i, n)
    BY <1>5, <2>1 DEF Fine
  <2>2. ASSUME ~ \E c \in Classes, n \in Quantities : AcceptOffer(c, i, n)
        PROVE  UNCHANGED agreements
    BY <1>9, <2>2 DEF InvestorStep, SignNdaAndLegReq, DeclineNdaAndLegReq, SignNDA,
       RevokeSignature, SignShareholderAgreement, DeclineOffer
  <2> QED
    BY <1>2, <2>1, <2>2 DEF Fine
<1> QED
  BY <1>6, <1>7, <1>8, <1>9 DEF Next, Fine

-----------------------------------------------------------------------------
(* What tokens carry.  The invariant adds that nothing is confirmed unless *)
(* shares are allocated.                                                   *)

Allocated(a) == a.state \in {"fullyAllocated", "partiallyAllocated"}

Carried(a) == {a.tokens[j] : j \in DOMAIN a.tokens}

CarriesGrant(a) ==
  /\ Carried(a) \subseteq (IF Allocated(a) THEN {0, a.confirmed} ELSE {0})
  /\ IF Allocated(a) THEN a.confirmed \in Carried(a) ELSE a.confirmed = 0

GrantsInv ==
  TypeOK /\ \A c \in Classes : \A k \in DOMAIN agreements[c] : CarriesGrant(agreements[c][k])

\* One more token carries one more number.
LEMMA CarriedByOneMore ==
  ASSUME NEW a \in Agreement, NEW b \in Agreement, NEW n, b.tokens = Append(a.tokens, n)
  PROVE  Carried(b) = Carried(a) \cup {n}
<1> DEFINE s == a.tokens
           t == b.tokens
           m == Len(s)
<1>1. s \in Seq(Quantities) /\ t = Append(s, n)
  BY DEF Agreement
<1> HIDE DEF s, t
<1>2. /\ m \in Nat /\ DOMAIN s = 1 .. m /\ DOMAIN t = 1 .. m + 1 /\ t[m + 1] = n
      /\ \A j \in 1 .. m : t[j] = s[j]
  BY <1>1
<1> HIDE DEF m
<1>3. \A j \in 1 .. m + 1 : j \in 1 .. m \/ j = m + 1
  BY <1>2
<1>4. \A j \in 1 .. m : j \in 1 .. m + 1
  BY <1>2
<1>5. m + 1 \in 1 .. m + 1
  BY <1>2
<1>6. {t[j] : j \in DOMAIN t} = {s[j] : j \in DOMAIN s} \cup {n}
  BY <1>2, <1>3, <1>4, <1>5
<1> QED
  BY <1>6 DEF Carried, s, t

\* A token of an agreement carries its grant, and a decision creates the token
\* that carries what is granted.
LEMMA GrantsCarried ==
  ASSUME NEW a \in Agreement, CarriesGrant(a), NEW left \in Int
  PROVE  CarriesGrant(WithToken(a)) /\ CarriesGrant(Decided(a, left))
<1>1. CarriesGrant(WithToken(a))
  <2> DEFINE b == WithToken(a)
  <2>1. /\ b \in Agreement /\ b.tokens = Append(a.tokens, a.confirmed)
        /\ b.confirmed = a.confirmed /\ b.state = a.state
    BY TokenAdded
  <2> HIDE DEF b
  <2>2. Carried(b) = Carried(a) \cup {a.confirmed}
    BY <2>1, CarriedByOneMore
  <2>3. CarriesGrant(b)
    BY <2>1, <2>2 DEF CarriesGrant, Allocated
  <2> QED
    BY <2>3 DEF b
<1>2. CarriesGrant(Decided(a, left))
  <2> DEFINE b == Decided(a, left)
  <2>1. CASE a.state # "subscribed"
    BY <2>1, Decision
  <2>2. CASE a.state = "subscribed" /\ left <= 0
    <3>1. b = [a EXCEPT !.state = "notAllocated"]
      BY <2>2, Decision
    <3>2. b.state = "notAllocated" /\ b.confirmed = a.confirmed /\ b.tokens = a.tokens
      BY <3>1 DEF Agreement
    <3> HIDE DEF b
    <3>3. Carried(b) = Carried(a)
      BY <3>2 DEF Carried
    <3>4. CarriesGrant(b)
      BY <2>2, <3>2, <3>3 DEF CarriesGrant, Allocated
    <3> QED
      BY <3>4 DEF b
  <2>3. CASE a.state = "subscribed" /\ left > 0
    <3>1. \E n : /\ b \in Agreement /\ b.tokens = Append(a.tokens, n) /\ b.confirmed = n
                 /\ Allocated(b)
      <4>1. CASE a.shares <= left
        BY <2>3, <4>1, Decision DEF Allocated
      <4>2. CASE ~ (a.shares <= left)
        BY <2>3, <4>2, Decision DEF Allocated
      <4> QED
        BY <4>1, <4>2
    <3> HIDE DEF b
    <3>2. PICK n : /\ b \in Agreement /\ b.tokens = Append(a.tokens, n) /\ b.confirmed = n
                   /\ Allocated(b)
      BY <3>1
    <3>3. Carried(b) = Carried(a) \cup {n}
      BY <3>2, CarriedByOneMore
    <3>4. Carried(a) \subseteq {0}
      BY <2>3 DEF CarriesGrant, Allocated
    <3>5. CarriesGrant(b)
      BY <3>2, <3>3, <3>4 DEF CarriesGrant
    <3> QED
      BY <3>5 DEF b
  <2> QED
    BY <2>1, <2>2, <2>3
<1> QED
  BY <1>1, <1>2

\* However often a class is confirmed and however many tokens the bank and the
\* investors create in between, a token carries nothing or the whole grant of
\* its agreement, and no grant is without a token.
THEOREM TokensAlwaysCarryGrants == Spec => []TokensCarryGrants
<1>1. Init => GrantsInv
  BY TypeInit DEF Init, GrantsInv
<1>2. GrantsInv /\ [Next]_vars => GrantsInv'
  <2> SUFFICES ASSUME TypeOK, [Next]_vars, NEW d \in Classes, NEW j \in DOMAIN agreements'[d],
                      \A c \in Classes : \A k \in DOMAIN agreements[c] :
                        CarriesGrant(agreements[c][k])
               PROVE  CarriesGrant(agreements'[d][j])
    BY TypeStep DEF GrantsInv
  <2>1. CASE j \in DOMAIN agreements[d]
             /\ \/ agreements'[d][j] = agreements[d][j]
                \/ agreements'[d][j] = WithToken(agreements[d][j])
                \/ \E left \in Int : agreements'[d][j] = Decided(agreements[d][j], left)
    <3>1. agreements[d][j] \in Agreement /\ CarriesGrant(agreements[d][j])
      BY <2>1 DEF TypeOK
    <3> QED
      BY <2>1, <3>1, GrantsCarried
  <2>2. ASSUME NEW a, a.state = "subscribed", a.confirmed = 0, a.tokens = <<>>
        PROVE  CarriesGrant(a)
    BY <2>2 DEF CarriesGrant, Carried, Allocated
  <2> QED
    BY <2>1, <2>2, AgreementSteps
<1>3. GrantsInv => TokensCarryGrants
  BY DEF GrantsInv, TokensCarryGrants, CarriesGrant, Carried, Allocated
<1> QED
  BY <1>1, <1>2, <1>3, PTL DEF Spec

-----------------------------------------------------------------------------
(* The whitelist.                                                          *)

GroundedInv == TypeOK /\ WhitelistIsGrounded

\* Selections and signed papers are never taken back, so whoever was grounded
\* stays so; only the new entries need a reason.
LEMMA GroundedStays ==
  ASSUME WhitelistIsGrounded,
         selected \subseteq selected',
         Signatories \subseteq Signatories',
         \A i \in whitelisted' : i \in whitelisted \/ i \in selected' \cap Signatories',
         \A c \in Classes : \A k \in DOMAIN agreements'[c] :
           \/ k \in DOMAIN agreements[c]
              /\ agreements'[c][k].investor = agreements[c][k].investor
           \/ agreements'[c][k].investor \in selected' \cap Signatories'
  PROVE  WhitelistIsGrounded'
BY DEF WhitelistIsGrounded

\* Signing a shareholder agreement makes a signatory, and revoking one does not
\* unmake any.
LEMMA SignatoriesGrow ==
  ASSUME TypeOK, NEW i \in Investors,
         RevokeSignature(i) \/ \E c \in Classes : Whitelisting(c, i)
  PROVE  Signatories \subseteq Signatories'
<1>1. shareholder_agreements \in [Investors -> [PaperStates -> Nat]]
  BY DEF TypeOK
<1>2. CASE RevokeSignature(i)
  <2> DEFINE m == Moved(shareholder_agreements[i], "signed", "revoked")
  <2>1. shareholder_agreements' = [shareholder_agreements EXCEPT ![i] = m]
    BY <1>2 DEF RevokeSignature
  <2>2. m["revoked"] = shareholder_agreements[i]["revoked"] + 1
    BY <1>1 DEF Moved, PaperStates
  <2>3. m["revoked"] > 0
    BY <1>1, <2>2 DEF PaperStates
  <2> HIDE DEF m
  <2> QED
    BY <1>1, <2>1, <2>3 DEF Signatories, PaperStates
<1>3. CASE \E c \in Classes : Whitelisting(c, i)
  <2>1. shareholder_agreements' =
          [shareholder_agreements EXCEPT ![i]["signed"] = shareholder_agreements[i]["signed"] + 1]
    BY <1>3 DEF Whitelisting
  <2>2. shareholder_agreements'[i]["signed"] > 0
    BY <1>1, <2>1 DEF PaperStates
  <2> QED
    BY <1>1, <2>1, <2>2 DEF Signatories, PaperStates
<1> QED
  BY <1>2, <1>3

\* Who enters the whitelist through a shareholder agreement has just signed it.
LEMMA WhitelistingIsGrounded ==
  ASSUME TypeOK, NEW c \in Classes, NEW i \in Investors, Whitelisting(c, i),
         selected' = selected
  PROVE  /\ i \in selected' \cap Signatories'
         /\ whitelisted' = whitelisted \cup {i}
<1>1. shareholder_agreements'[i]["signed"] = shareholder_agreements[i]["signed"] + 1
      /\ shareholder_agreements[i]["signed"] \in Nat
  BY DEF Whitelisting, TypeOK, PaperStates
<1>2. i \in Signatories'
  BY <1>1 DEF Signatories, PaperStates
<1> QED
  BY <1>2 DEF Whitelisting, MayWhitelist

\* Every step keeps the whitelist grounded.
LEMMA GroundedStep == GroundedInv /\ [Next]_vars => GroundedInv'
<1> SUFFICES ASSUME TypeOK, WhitelistIsGrounded, [Next]_vars PROVE WhitelistIsGrounded'
  BY TypeStep DEF GroundedInv
<1> USE DEF project, people, papers, classes
<1>1. ASSUME UNCHANGED <<shareholder_agreements, agreements>>, selected \subseteq selected',
             \A i \in whitelisted' : i \in whitelisted \/ i \in selected \cap Signatories
      PROVE  WhitelistIsGrounded'
  BY <1>1, GroundedStays DEF Signatories
<1>2. CASE UNCHANGED vars
  BY <1>1, <1>2 DEF vars
<1>3. ASSUME BankStep PROVE WhitelistIsGrounded'
  <2>1. CASE CloseProject
    BY <1>1, <2>1 DEF CloseProject
  <2>2. CASE CollectSubscriptions \/ \E c \in Classes : CollectSubscriptionsOf(c)
    BY <1>1, <2>2 DEF CollectSubscriptions, CollectSubscriptionsOf, Collect
  <2>3. CASE \E investors \in SUBSET Investors : SelectInvestors(investors)
    BY <1>1, <2>3 DEF SelectInvestors
  <2>4. CASE \E i \in Suspects : AddBlackListedInvestor(i)
    BY <1>1, <2>4 DEF AddBlackListedInvestor
  <2>5. CASE \E c \in Classes, t \in Terms : CreateShareClass(c, t)
    BY <1>1, <2>5 DEF CreateShareClass
  <2>6. CASE \E c \in Classes : SetSATemplate(c)
    BY <1>1, <2>6 DEF SetSATemplate
  <2>7. CASE \E c \in Classes : SendOriginalOffers(c)
    BY <1>1, <2>7 DEF SendOriginalOffers
  <2>8. ASSUME NEW c \in Classes,
               Confirm(c) \/ \E k \in DOMAIN agreements[c] : CreateToken(c, k)
        PROVE  WhitelistIsGrounded'
    <3>1. /\ \A d \in Classes :
               /\ DOMAIN agreements'[d] = DOMAIN agreements[d]
               /\ \A k \in DOMAIN agreements[d] :
                    agreements'[d][k].investor = agreements[d][k].investor
          /\ UNCHANGED <<selected, whitelisted, shareholder_agreements>>
      BY <2>8, TypeStep, RequestsStand
    <3>2. Signatories' = Signatories
      BY <3>1 DEF Signatories
    <3> QED
      BY <3>1, <3>2, GroundedStays
  <2>9. CASE \E i \in Investors, status \in BOOLEAN : SetCompliant(i, status)
    BY <1>1, <2>9 DEF SetCompliant
  <2>10. CASE \E i \in Investors, amount \in Liquidities : SetLiquidity(i, amount)
    BY <1>1, <2>10 DEF SetLiquidity
  <2>11. CASE \E i \in Investors : AddWhitelistedInvestor(i)
    BY <1>1, <2>11 DEF AddWhitelistedInvestor, MayWhitelist
  <2>12. CASE \E i \in Investors : RemoveWhitelistedInvestor(i)
    BY <1>1, <2>12 DEF RemoveWhitelistedInvestor
  <2>13. CASE \E c \in Classes, i \in Investors : Expire(c, i)
    BY <1>1, <2>13 DEF Expire
  <2> QED
    BY <1>3, <2>1, <2>2, <2>3, <2>4, <2>5, <2>6, <2>7, <2>8, <2>9, <2>10, <2>11, <2>12, <2>13
       DEF BankStep, ConfirmSubscriptions, ConfirmSubscriptionAgreements
<1>4. ASSUME ClockStep PROVE WhitelistIsGrounded'
  BY <1>1, <1>4 DEF ClockStep, DeadlinePasses, ExpireOffer, Expire
<1>5. ASSUME NEW i \in Investors, InvestorStep(i) PROVE WhitelistIsGrounded'
  <2>1. CASE \E s \in NdaStates : SignNdaAndLegReq(i, s)
    BY <1>1, <2>1 DEF SignNdaAndLegReq
  <2>2. CASE \E s \in NdaStates : DeclineNdaAndLegReq(i, s)
    BY <1>1, <2>2 DEF DeclineNdaAndLegReq
  <2>3. CASE SignNDA(i)
    BY <1>1, <2>3 DEF SignNDA
  <2>4. CASE RevokeSignature(i)
    <3>1. Signatories \subseteq Signatories'
      BY <2>4, SignatoriesGrow
    <3>2. UNCHANGED <<selected, whitelisted, agreements>>
      BY <2>4 DEF RevokeSignature
    <3> QED
      BY <3>1, <3>2, GroundedStays
  <2>5. ASSUME NEW c \in Classes, Whitelisting(c, i), selected' = selected
        PROVE  /\ Signatories \subseteq Signatories'
               /\ i \in selected' \cap Signatories'
               /\ whitelisted' = whitelisted \cup {i}
    BY <2>5, SignatoriesGrow, WhitelistingIsGrounded
  <2>6. ASSUME NEW c \in Classes, SignShareholderAgreement(c, i) PROVE WhitelistIsGrounded'
    BY <2>5, <2>6, GroundedStays DEF SignShareholderAgreement
  <2>7. CASE \E c \in Classes : DeclineOffer(c, i)
    BY <1>1, <2>7 DEF DeclineOffer
  <2>8. ASSUME NEW c \in Classes, NEW n \in Quantities, AcceptOffer(c, i, n)
        PROVE  WhitelistIsGrounded'
    <3> DEFINE a == [investor |-> i, shares |-> n, confirmed |-> 0, state |-> "subscribed",
                     tokens |-> <<>>]
    <3>1. agreements' = [agreements EXCEPT ![c] = Append(agreements[c], a)]
          /\ selected' = selected /\ a.investor = i
      BY <2>8 DEF AcceptOffer
    <3> HIDE DEF a
    <3>2. agreements \in [Classes -> Seq(Agreement)]
      BY DEF TypeOK
    <3>3. \A k \in DOMAIN agreements'[c] :
            \/ k \in DOMAIN agreements[c] /\ agreements'[c][k] = agreements[c][k]
            \/ agreements'[c][k] = a
      BY <3>1, <3>2
    <3>4. \A d \in Classes : d # c => agreements'[d] = agreements[d]
      BY <3>1, <3>2
    <3>5. /\ Signatories \subseteq Signatories'
          /\ i \in selected' \cap Signatories'
          /\ whitelisted' = whitelisted \cup {i}
      BY <2>5, <2>8, <3>1 DEF AcceptOffer
    <3>6. \A d \in Classes : \A k \in DOMAIN agreements'[d] :
            \/ k \in DOMAIN agreements[d]
               /\ agreements'[d][k].investor = agreements[d][k].investor
            \/ agreements'[d][k].investor \in selected' \cap Signatories'
      BY <3>1, <3>3, <3>4, <3>5
    <3> QED
      BY <3>1, <3>5, <3>6, GroundedStays
  <2> QED
    BY <1>5, <2>1, <2>2, <2>3, <2>4, <2>6, <2>7, <2>8 DEF InvestorStep
<1> QED
  BY <1>2, <1>3, <1>4, <1>5 DEF Next

\* Whichever way an investor came onto the whitelist or to an agreement, he had
\* been selected and had signed a shareholder agreement.
THEOREM WhitelistStaysGrounded == Spec => []WhitelistIsGrounded
<1>1. Init => GroundedInv
  BY TypeInit DEF Init, GroundedInv, WhitelistIsGrounded
<1>2. GroundedInv => WhitelistIsGrounded
  BY DEF GroundedInv
<1> QED
  BY <1>1, <1>2, GroundedStep, PTL DEF Spec

-----------------------------------------------------------------------------
(* Closed projects.                                                        *)

\* What a step does to a closed project.
StandsStill ==
  /\ UNCHANGED <<project, whitelisted, terms>>
  /\ \A c \in Classes :
       /\ UNCHANGED Requests(c)
       /\ \A i \in Investors :
            offers'[c][i] = "customerAccepted" => offers[c][i] = "customerAccepted"

\* For an investor, every permission that leads to a new commitment or to the
\* whitelist meets the guard of the project somewhere along its chain of calls;
\* what is left to the bank commits nobody to anything.
THEOREM ClosedStaysClosedToInvestors == Spec => ClosedToInvestors
<1>1. ASSUME TypeOK, project_state = "projectClosed", [Next]_vars
      PROVE  StandsStill
  <2> USE <1>1 DEF project, people, papers, classes
  <2>1. ASSUME UNCHANGED <<project_state, available_amount, whitelisted, terms, agreements>>,
               \A c \in Classes, i \in Investors :
                 offers'[c][i] = "customerAccepted" => offers[c][i] = "customerAccepted"
        PROVE  StandsStill
    BY <2>1 DEF StandsStill, Requests
  <2>2. ASSUME UNCHANGED <<project_state, available_amount, whitelisted, terms, agreements, offers>>
        PROVE  StandsStill
    BY <2>1, <2>2
  <2>3. ASSUME NEW c \in Classes, NEW i \in Investors, NEW s, s # "customerAccepted",
               offers' = [offers EXCEPT ![c][i] = s],
               UNCHANGED <<project_state, available_amount, whitelisted, terms, agreements>>
        PROVE  StandsStill
    BY <2>1, <2>3 DEF TypeOK
  <2>4. CASE UNCHANGED vars
    BY <2>2, <2>4 DEF vars
  <2>5. ASSUME BankStep PROVE StandsStill
    <3>1. CASE \E c \in Classes : CollectSubscriptionsOf(c)
      BY <2>1, <3>1 DEF CollectSubscriptionsOf, Collect
    <3>2. CASE \E c \in Classes : SendOriginalOffers(c)
      BY <2>1, <3>2 DEF SendOriginalOffers, TypeOK
    <3>3. ASSUME NEW c \in Classes,
                 (Confirm(c) /\ UNCHANGED project_state)
                   \/ \E k \in DOMAIN agreements[c] : CreateToken(c, k)
          PROVE  StandsStill
      <4>1. /\ \A d \in Classes :
                 /\ DOMAIN agreements'[d] = DOMAIN agreements[d]
                 /\ \A k \in DOMAIN agreements[d] :
                      agreements'[d][k].shares = agreements[d][k].shares
            /\ UNCHANGED <<available_amount, whitelisted, terms, offers>>
        BY <3>3, TypeStep, RequestsStand
      <4>2. \A d \in Classes : Requests(d)' = Requests(d)
        BY <4>1 DEF Requests
      <4>3. UNCHANGED project_state
        BY <3>3 DEF CreateToken
      <4> QED
        BY <4>1, <4>2, <4>3 DEF StandsStill
    <3>4. CASE \E c \in Classes, i \in Investors : Expire(c, i)
      BY <2>3, <3>4 DEF Expire
    <3>5. ASSUME \/ CloseProject
                 \/ CollectSubscriptions
                 \/ \E c \in Classes, t \in Terms : CreateShareClass(c, t)
                 \/ \E c \in Classes : ConfirmSubscriptionAgreements(c)
                 \/ \E i \in Investors : AddWhitelistedInvestor(i)
                 \/ \E i \in Investors : RemoveWhitelistedInvestor(i)
          PROVE  FALSE
      <4>1. ~ ProjectOpen
        BY DEF ProjectOpen
      <4> QED
        BY <3>5, <4>1 DEF CloseProject, CollectSubscriptions, CreateShareClass,
           ConfirmSubscriptionAgreements, AddWhitelistedInvestor, RemoveWhitelistedInvestor,
           MayWhitelist
    <3>6. ASSUME \/ \E investors \in SUBSET Investors : SelectInvestors(investors)
                 \/ \E i \in Suspects : AddBlackListedInvestor(i)
                 \/ \E c \in Classes : SetSATemplate(c)
                 \/ \E i \in Investors, status \in BOOLEAN : SetCompliant(i, status)
                 \/ \E i \in Investors, amount \in Liquidities : SetLiquidity(i, amount)
          PROVE  StandsStill
      BY <2>2, <3>6 DEF SelectInvestors, AddBlackListedInvestor, SetSATemplate,
         SetCompliant, SetLiquidity
    <3> QED
      BY <2>5, <3>1, <3>2, <3>3, <3>4, <3>5, <3>6 DEF BankStep, ConfirmSubscriptions
  <2>6. ASSUME ClockStep PROVE StandsStill
    <3>1. CASE \E c \in Classes : DeadlinePasses(c)
      BY <2>2, <3>1 DEF DeadlinePasses
    <3>2. CASE \E c \in Classes, i \in Investors : ExpireOffer(c, i)
      BY <2>3, <3>2 DEF ExpireOffer, Expire
    <3> QED
      BY <2>6, <3>1, <3>2 DEF ClockStep
  <2>7. ASSUME NEW i \in Investors, InvestorStep(i) PROVE StandsStill
    <3>1. CASE \E c \in Classes : DeclineOffer(c, i)
      BY <2>3, <3>1 DEF DeclineOffer
    <3>2. ASSUME ~ \E c \in Classes : DeclineOffer(c, i)
          PROVE  StandsStill
      BY <2>2, <2>7, <3>2 DEF InvestorStep, SignNdaAndLegReq, DeclineNdaAndLegReq, SignNDA,
         RevokeSignature, SignShareholderAgreement, AcceptOffer, Whitelisting,
         MayWhitelist, ProjectOpen
    <3> QED
      BY <3>1, <3>2
  <2> QED
    BY <2>4, <2>5, <2>6, <2>7 DEF Next
<1>2. TypeOK /\ [Next]_vars => (project_state = "projectClosed" => StandsStill)
  BY <1>1
<1> QED
  BY <1>2, TypeCorrect, PTL DEF Spec, ClosedToInvestors, StandsStill

-----------------------------------------------------------------------------
(* Offers and agreements.                                                  *)

OneInv == SharesInv /\ OneAgreementPerOffer

\* Steps that accept nothing and leave every agreement with its investor.
LEMMA CorrespondenceStays ==
  ASSUME OneAgreementPerOffer,
         \A c \in Classes :
           /\ DOMAIN agreements'[c] = DOMAIN agreements[c]
           /\ \A k \in DOMAIN agreements[c] :
                agreements'[c][k].investor = agreements[c][k].investor
           /\ \A i \in Investors :
                offers'[c][i] = "customerAccepted" <=> offers[c][i] = "customerAccepted"
  PROVE  OneAgreementPerOffer'
BY DEF OneAgreementPerOffer

\* Accepting an offer appends the one agreement of its investor.
LEMMA CorrespondenceByAcceptance ==
  ASSUME OneInv, NEW c \in Classes, NEW i \in Investors, NEW n \in Quantities,
         AcceptOffer(c, i, n)
  PROVE  OneAgreementPerOffer'
<1> DEFINE a == [investor |-> i, shares |-> n, confirmed |-> 0, state |-> "subscribed",
                 tokens |-> <<>>]
           Own(d, j) == {k \in DOMAIN agreements[d] : agreements[d][k].investor = j}
           NewOwn(d, j) == {k \in DOMAIN agreements'[d] : agreements'[d][k].investor = j}
           m == Len(agreements[c]) + 1
<1>1. /\ agreements' = [agreements EXCEPT ![c] = Append(agreements[c], a)]
      /\ offers' = [offers EXCEPT ![c][i] = "customerAccepted"]
      /\ offers[c][i] = "created"
      /\ a.investor = i
  BY DEF AcceptOffer, Undecided
<1> HIDE DEF a
<1>2. /\ agreements \in [Classes -> Seq(Agreement)]
      /\ offers \in [Classes -> [Investors ->
           {"none", "created", "expired", "customerAccepted", "customerDeclined"}]]
  BY DEF OneInv, SharesInv, TypeOK
<1>3. \A d \in Classes, j \in Investors :
        /\ offers[d][j] = "customerAccepted" <=> Own(d, j) # {}
        /\ \A x, y \in Own(d, j) : x = y
  BY DEF OneInv, OneAgreementPerOffer
<1>4. agreements'[c] = Append(agreements[c], a) /\ agreements[c] \in Seq(Agreement)
  BY <1>1, <1>2
<1>5. /\ DOMAIN agreements'[c] = DOMAIN agreements[c] \cup {m}
      /\ agreements'[c][m] = a
      /\ \A k \in DOMAIN agreements[c] : agreements'[c][k] = agreements[c][k] /\ k # m
  BY <1>4
<1>6. Own(c, i) = {}
  <2>1. offers[c][i] # "customerAccepted"
    BY <1>1
  <2> QED
    BY <1>3, <2>1
<1> HIDE DEF m
<1>7. \A j \in Investors : NewOwn(c, j) = IF j = i THEN {m} ELSE Own(c, j)
  BY <1>1, <1>5, <1>6
<1>8. \A d \in Classes, j \in Investors : d # c => NewOwn(d, j) = Own(d, j)
  BY <1>1, <1>2
<1>9. \A d \in Classes, j \in Investors :
        offers'[d][j] = IF d = c /\ j = i THEN "customerAccepted" ELSE offers[d][j]
  BY <1>1, <1>2
<1> HIDE DEF Own, NewOwn
<1>10. \A d \in Classes, j \in Investors :
         /\ offers'[d][j] = "customerAccepted" <=> NewOwn(d, j) # {}
         /\ \A x, y \in NewOwn(d, j) : x = y
  <2> SUFFICES ASSUME NEW d \in Classes, NEW j \in Investors
               PROVE  /\ offers'[d][j] = "customerAccepted" <=> NewOwn(d, j) # {}
                      /\ \A x, y \in NewOwn(d, j) : x = y
    OBVIOUS
  <2>1. CASE d = c /\ j = i
    BY <1>7, <1>9, <2>1
  <2>2. CASE ~ (d = c /\ j = i)
    <3>1. NewOwn(d, j) = Own(d, j)
      BY <1>7, <1>8, <2>2
    <3> QED
      BY <1>3, <1>9, <2>2, <3>1
  <2> QED
    BY <2>1, <2>2
<1> QED
  BY <1>10 DEF OneAgreementPerOffer, NewOwn

\* Every step keeps the correspondence.
LEMMA OneStep == OneInv /\ [Next]_vars => OneInv'
<1> SUFFICES ASSUME SharesInv, OneAgreementPerOffer, [Next]_vars PROVE OneAgreementPerOffer'
  BY SharesStep DEF OneInv
<1> USE DEF papers, classes
<1>1. ASSUME agreements' = agreements,
             \A c \in Classes, i \in Investors :
               offers'[c][i] = "customerAccepted" <=> offers[c][i] = "customerAccepted"
      PROVE  OneAgreementPerOffer'
  BY <1>1, CorrespondenceStays
<1>2. ASSUME UNCHANGED <<offers, agreements>> PROVE OneAgreementPerOffer'
  BY <1>1, <1>2
<1>3. ASSUME NEW c \in Classes, NEW i \in Investors, offers[c][i] = "created",
             NEW s, s # "customerAccepted", offers' = [offers EXCEPT ![c][i] = s],
             agreements' = agreements
      PROVE  OneAgreementPerOffer'
  BY <1>1, <1>3 DEF SharesInv, TypeOK
<1>4. CASE UNCHANGED vars
  BY <1>2, <1>4 DEF vars
<1>5. ASSUME BankStep PROVE OneAgreementPerOffer'
  <2>1. ASSUME CollectSubscriptions \/ \E c \in Classes : CollectSubscriptionsOf(c)
        PROVE  OneAgreementPerOffer'
    BY <1>1, <2>1 DEF CollectSubscriptions, CollectSubscriptionsOf, Collect, Undecided
  <2>2. ASSUME NEW c \in Classes, SendOriginalOffers(c) PROVE OneAgreementPerOffer'
    <3>1. \A i \in Investors : offers[c][i] = "none"
      BY <2>2 DEF SendOriginalOffers, SharesInv, NoAgreementsBeforeOffers
    <3>2. \A i \in Investors : offers'[c][i] # "customerAccepted"
      BY <2>2 DEF SendOriginalOffers, SharesInv, TypeOK
    <3>3. \A d \in Classes : d # c => offers'[d] = offers[d]
      BY <2>2 DEF SendOriginalOffers, SharesInv, TypeOK
    <3> QED
      BY <1>1, <2>2, <3>1, <3>2, <3>3 DEF SendOriginalOffers
  <2>3. ASSUME NEW c \in Classes,
               Confirm(c) \/ \E k \in DOMAIN agreements[c] : CreateToken(c, k)
        PROVE  OneAgreementPerOffer'
    <3>1. TypeOK /\ TypeOK'
      BY TypeStep DEF SharesInv
    <3>2. /\ \A d \in Classes :
               /\ DOMAIN agreements'[d] = DOMAIN agreements[d]
               /\ \A k \in DOMAIN agreements[d] :
                    agreements'[d][k].investor = agreements[d][k].investor
          /\ UNCHANGED offers
      BY <2>3, <3>1, RequestsStand
    <3> QED
      BY <3>2, CorrespondenceStays
  <2>4. ASSUME \/ CloseProject
               \/ \E investors \in SUBSET Investors : SelectInvestors(investors)
               \/ \E i \in Suspects : AddBlackListedInvestor(i)
               \/ \E c \in Classes, t \in Terms : CreateShareClass(c, t)
               \/ \E c \in Classes : SetSATemplate(c)
               \/ \E i \in Investors, status \in BOOLEAN : SetCompliant(i, status)
               \/ \E i \in Investors, amount \in Liquidities : SetLiquidity(i, amount)
               \/ \E i \in Investors : AddWhitelistedInvestor(i)
               \/ \E i \in Investors : RemoveWhitelistedInvestor(i)
        PROVE  UNCHANGED <<offers, agreements>>
    BY <2>4 DEF CloseProject, SelectInvestors, AddBlackListedInvestor, CreateShareClass,
       SetSATemplate, SetCompliant, SetLiquidity, AddWhitelistedInvestor,
       RemoveWhitelistedInvestor
  <2>5. CASE \E c \in Classes, i \in Investors : Expire(c, i)
    BY <1>3, <2>5 DEF Expire, Undecided
  <2> QED
    BY <1>2, <1>5, <2>1, <2>2, <2>3, <2>4, <2>5
    DEF BankStep, ConfirmSubscriptions, ConfirmSubscriptionAgreements
<1>6. ASSUME ClockStep PROVE OneAgreementPerOffer'
  <2>1. CASE \E c \in Classes : DeadlinePasses(c)
    BY <1>2, <2>1 DEF DeadlinePasses
  <2>2. CASE \E c \in Classes, i \in Investors : ExpireOffer(c, i)
    BY <1>3, <2>2 DEF ExpireOffer, Expire, Undecided
  <2> QED
    BY <1>6, <2>1, <2>2 DEF ClockStep
<1>7. ASSUME NEW i \in Investors, InvestorStep(i) PROVE OneAgreementPerOffer'
  <2>1. CASE \E c \in Classes : DeclineOffer(c, i)
    BY <1>3, <2>1 DEF DeclineOffer, Undecided
  <2>2. CASE \E c \in Classes, n \in Quantities : AcceptOffer(c, i, n)
    BY <2>2, CorrespondenceByAcceptance DEF OneInv
  <2>3. ASSUME \/ \E s \in NdaStates : SignNdaAndLegReq(i, s) \/ DeclineNdaAndLegReq(i, s)
               \/ SignNDA(i)
               \/ RevokeSignature(i)
               \/ \E c \in Classes : SignShareholderAgreement(c, i)
        PROVE  UNCHANGED <<offers, agreements>>
    BY <2>3 DEF SignNdaAndLegReq, DeclineNdaAndLegReq, SignNDA, RevokeSignature,
       SignShareholderAgreement
  <2> QED
    BY <1>2, <1>7, <2>1, <2>2, <2>3 DEF InvestorStep
<1> QED
  BY <1>4, <1>5, <1>6, <1>7 DEF Next

\* An investor has one agreement in each class whose offer he accepted, and
\* none elsewhere: no offer is accepted twice, and no agreement is lost.
THEOREM OneAgreementEach == Spec => []OneAgreementPerOffer
<1>1. Init => OneInv
  <2> SUFFICES ASSUME Init PROVE OneAgreementPerOffer
    BY SharesInit DEF OneInv
  <2>1. \A c \in Classes : DOMAIN agreements[c] = {} /\ \A i \in Investors : offers[c][i] = "none"
    BY DEF Init
  <2> QED
    BY <2>1 DEF OneAgreementPerOffer
<1>2. OneInv => OneAgreementPerOffer
  BY DEF OneInv
<1> QED
  BY <1>1, <1>2, OneStep, PTL DEF Spec
=============================================================================
