-------------------------- MODULE AlgorithmProofs --------------------------
(***************************************************************************)
(* What is proved of the pure algorithms: the arithmetic of a swap         *)
(* (AmmMath) and broadcast verification (CeremonyStages), for every input. *)
(***************************************************************************)
EXTENDS AmmMath, CeremonyStages, TLAPS

-----------------------------------------------------------------------------
(* Swaps.  The arithmetic cannot go below zero or past its target, for     *)
(* every amount, price, liquidity and fee: what amm/src/limit_orders.rs    *)
(* and amm/src/range_orders.rs claim in comments ("Cannot underflow ...",  *)
(* "Will not underflow due to rounding ...") or leave open ("TODO: Prove   *)
(* this does not underflow").                                              *)

\* Multiplication by a natural number keeps an order.
LEMMA TimesMonotonic ==
  ASSUME NEW a \in Int, NEW b \in Int, NEW c \in Nat, a <= b
  PROVE  a * c <= b * c
OBVIOUS

LEMMA TimesStrict ==
  ASSUME NEW a \in Int, NEW b \in Int, NEW c \in Nat \ {0}, a * c < b * c
  PROVE  a < b
OBVIOUS

\* A quotient of natural numbers, by its defining inequalities.
LEMMA DivBounds ==
  ASSUME NEW n \in Nat, NEW c \in Nat \ {0}
  PROVE  /\ n \div c \in Nat
         /\ n % c \in Nat
         /\ n = c * (n \div c) + (n % c)
         /\ n % c < c
OBVIOUS

\* Rounding down: the largest natural number within the fraction.
LEMMA FloorBounds ==
  ASSUME NEW a \in Nat, NEW b \in Nat, NEW c \in Nat \ {0}
  PROVE  /\ mul_div_floor(a, b, c) \in Nat
         /\ mul_div_floor(a, b, c) * c <= a * b
         /\ a * b < (mul_div_floor(a, b, c) + 1) * c
<1>1. a * b \in Nat
  OBVIOUS
<1> DEFINE n == a * b
<1> HIDE DEF n
<1>2. /\ n \div c \in Nat /\ n % c \in Nat
      /\ n = c * (n \div c) + (n % c) /\ n % c < c
  BY <1>1, DivBounds DEF n
<1>3. (n \div c) * c <= n /\ n < (n \div c + 1) * c
  BY <1>2
<1> QED BY <1>2, <1>3 DEF mul_div_floor, n

\* Rounding up: the least natural number not below the fraction.
LEMMA CeilBounds ==
  ASSUME NEW a \in Nat, NEW b \in Nat, NEW c \in Nat \ {0}
  PROVE  /\ mul_div_ceil(a, b, c) \in Nat
         /\ a * b <= mul_div_ceil(a, b, c) * c
         /\ (mul_div_ceil(a, b, c) - 1) * c < a * b
<1>1. a * b \in Nat
  OBVIOUS
<1> DEFINE n == a * b
<1> HIDE DEF n
<1>2. /\ n \div c \in Nat /\ n % c \in Nat
      /\ n = c * (n \div c) + (n % c) /\ n % c < c
  BY <1>1, DivBounds DEF n
<1>3. CASE n % c = 0
  <2>1. n \div c \in Nat /\ n <= (n \div c) * c /\ (n \div c - 1) * c < n
    BY <1>2, <1>3
  <2> QED BY <1>3, <2>1 DEF mul_div_ceil, n
<1>4. CASE n % c # 0
  <2> DEFINE d == n \div c
             r == n % c
  <2>1. d \in Nat /\ r \in Nat \ {0} /\ n = c * d + r /\ r < c
    BY <1>2, <1>4
  <2> HIDE DEF d, r
  <2>2. (d + 1) * c = c * d + c /\ (d + 1 - 1) * c = c * d
    BY <2>1
  <2>3. c * d \in Nat
    BY <2>1
  <2>4. d + 1 \in Nat /\ n <= (d + 1) * c /\ (d + 1 - 1) * c < n
    BY <2>1, <2>2, <2>3
  <2> QED BY <1>4, <2>4 DEF mul_div_ceil, n, d
<1> QED BY <1>3, <1>4

\* A natural number not below the fraction is not below the fraction rounded up.
LEMMA CeilLeast ==
  ASSUME NEW a \in Nat, NEW b \in Nat, NEW c \in Nat \ {0}, NEW m \in Nat, a * b <= m * c
  PROVE  mul_div_ceil(a, b, c) <= m
<1> DEFINE q == mul_div_ceil(a, b, c)
<1>1. q \in Nat /\ (q - 1) * c < a * b
  BY CeilBounds
<1> HIDE DEF q
<1>2. (q - 1) * c < m * c
  BY <1>1
<1>3. q - 1 < m
  BY <1>1, <1>2, TimesStrict
<1> QED BY <1>1, <1>3 DEF q

\* A natural number below the fraction rounded up is below the fraction.
LEMMA BelowCeil ==
  ASSUME NEW a \in Nat, NEW b \in Nat, NEW c \in Nat \ {0}, NEW m \in Nat,
         m < mul_div_ceil(a, b, c)
  PROVE  m * c < a * b
<1> DEFINE q == mul_div_ceil(a, b, c)
<1>1. q \in Nat /\ (q - 1) * c < a * b
  BY CeilBounds
<1> HIDE DEF q
<1>2. m <= q - 1
  BY <1>1 DEF q
<1>3. m * c <= (q - 1) * c
  BY <1>1, <1>2, TimesMonotonic
<1> QED BY <1>1, <1>3

-----------------------------------------------------------------------------

\* "TODO: Prove this does not underflow" (range_orders.rs, swap) and "Cannot
\* underflow as amount_minus_fees >= amount_required_to_consume_pool"
\* (limit_orders.rs, swap): what is swapped and the fee charged on it are
\* within the input whenever what is swapped is within the input less its
\* fees, for every fee a pool can have.
THEOREM FeesWithinInput ==
  ASSUME NEW amount \in Nat, NEW required \in Nat, NEW fee \in Nat,
         validate_fees(fee), required <= amount_minus_fees(amount, fee)
  PROVE  required + fees_on(required, fee) <= amount
<1> DEFINE D == OneInHundredthPips
           k == D - fee
           q == amount_minus_fees(amount, fee)
<1>1. D \in Nat \ {0}
  BY ScalesAssumption
<1>2. k \in Nat \ {0} /\ fee \in Nat /\ k + fee = D
  <2>1. D \div 2 \in Nat /\ D = 2 * (D \div 2) + (D % 2) /\ D % 2 \in Nat
    BY <1>1, DivBounds
  <2>2. fee <= D \div 2
    BY DEF validate_fees, MAX_LP_FEE
  <2> QED BY <1>1, <2>1, <2>2
<1>3. q \in Nat /\ q * D <= amount * k
  BY <1>1, <1>2, FloorBounds DEF amount_minus_fees
<1> HIDE DEF D, k, q
<1>4. required <= q
  BY DEF q
<1>5. required * D <= amount * k
  <2>1. required * D <= q * D
    BY <1>1, <1>3, <1>4, TimesMonotonic
  <2> QED BY <1>1, <1>2, <1>3, <2>1
<1>6. required <= amount
  <2>1. required * k <= required * D
    <3>1. k * required <= D * required
      BY <1>1, <1>2, TimesMonotonic
    <3> QED BY <1>1, <1>2, <3>1
  <2>2. required * k <= amount * k
    BY <1>1, <1>2, <1>5, <2>1
  <2>3. CASE amount < required
    <3>1. amount + 1 <= required
      BY <2>3
    <3>2. (amount + 1) * k <= required * k
      BY <1>2, <3>1, TimesMonotonic
    <3>3. (amount + 1) * k = amount * k + k
      BY <1>2
    <3> QED BY <1>2, <2>2, <3>2, <3>3
  <2> QED BY <2>3
<1>7. required * fee <= (amount - required) * k
  <2>1. required * D = required * k + required * fee
    BY <1>2
  <2>2. (amount - required) * k = amount * k - required * k
    BY <1>2
  <2> QED BY <1>2, <1>5, <2>1, <2>2
<1>8. mul_div_ceil(required, fee, k) <= amount - required
  BY <1>2, <1>6, <1>7, CeilLeast
<1>9. mul_div_ceil(required, fee, k) \in Nat
  BY Zenon, <1>2, CeilBounds
<1> QED BY <1>6, <1>8, <1>9 DEF fees_on, k, D

\* The input that moves the price up to the next price of a partial swap, and
\* the one that moves it down, are not more than the input given.
LEMMA UpwardWithinInput ==
  ASSUME NEW current \in Nat, NEW liquidity \in Nat \ {0}, NEW input \in Nat
  PROVE  LET next == next_sqrt_price_from_input_amount("Quote", current, liquidity, input)
         IN  /\ next \in Nat /\ current <= next
             /\ input_amount_delta_ceil("Quote", current, next, liquidity) <= input
<1> DEFINE S == SqrtPriceOne
           d == mul_div_floor(input, S, liquidity)
<1>1. S \in Nat \ {0}
  BY ScalesAssumption
<1>2. d \in Nat /\ d * liquidity <= input * S
  BY <1>1, FloorBounds
<1>3. next_sqrt_price_from_input_amount("Quote", current, liquidity, input) = current + d
  BY DEF next_sqrt_price_from_input_amount
<1> HIDE DEF S, d
<1>4. (current + d) - current = d /\ liquidity * d <= input * S
  BY <1>1, <1>2
<1>5. mul_div_ceil(liquidity, d, S) <= input
  BY <1>1, <1>2, <1>4, CeilLeast
<1>6. input_amount_delta_ceil("Quote", current, current + d, liquidity) <= input
  BY <1>4, <1>5 DEF input_amount_delta_ceil, one_amount_delta_ceil, S
<1> QED BY <1>2, <1>3, <1>6

LEMMA DownwardWithinInput ==
  ASSUME NEW current \in Nat \ {0}, NEW liquidity \in Nat \ {0}, NEW input \in Nat
  PROVE  LET next == next_sqrt_price_from_input_amount("Base", current, liquidity, input)
         IN  /\ next \in Nat \ {0} /\ next <= current
             /\ input_amount_delta_ceil("Base", current, next, liquidity) <= input
<1> DEFINE L == liquidity * SqrtPriceOne
           c == L + input * current
           next == mul_div_ceil(L, current, c)
<1>1. L \in Nat \ {0} /\ c \in Nat \ {0} /\ L <= c
  <2>1. SqrtPriceOne \in Nat \ {0}
    BY ScalesAssumption
  <2>2. L \in Nat \ {0}
    BY <2>1
  <2>3. input * current \in Nat
    OBVIOUS
  <2> HIDE DEF L
  <2> QED BY <2>2, <2>3
<1>2. next_sqrt_price_from_input_amount("Base", current, liquidity, input) = next
  BY DEF next_sqrt_price_from_input_amount
<1>3. next \in Nat /\ L * current <= next * c
  BY Zenon, <1>1, CeilBounds
<1>4. next <= current
  <2>1. L * current <= c * current
    BY <1>1, TimesMonotonic
  <2>2. L * current <= current * c
    BY <1>1, <2>1
  <2> QED BY <1>1, <2>2, CeilLeast
<1>5. next # 0
  <2>1. L * current \in Nat \ {0}
    BY <1>1
  <2> QED BY <1>1, <1>3, <2>1
<1> HIDE DEF next
<1>6. next * c = next * L + next * (input * current)
  BY <1>1, <1>3
<1>7. L * (current - next) <= input * (current * next)
  <2>1. L * (current - next) = L * current - L * next
    BY <1>1, <1>3
  <2>2. next * (input * current) = input * (current * next)
    BY <1>3
  <2>3. L * next = next * L /\ L * next \in Nat /\ L * current \in Nat
    BY <1>1, <1>3
  <2> QED BY <1>3, <1>6, <2>1, <2>2, <2>3
<1>8. current * next \in Nat \ {0} /\ current - next \in Nat
  BY <1>3, <1>4, <1>5
<1>9. mul_div_ceil(L, current - next, current * next) <= input
  BY <1>1, <1>7, <1>8, CeilLeast
<1>10. input_amount_delta_ceil("Base", current, next, liquidity) <= input
  BY <1>9 DEF input_amount_delta_ceil, zero_amount_delta_ceil
<1> QED BY <1>2, <1>3, <1>4, <1>5, <1>10

\* "Will not underflow due to rounding in flavor of the pool of
\* sqrt_price_next" (range_orders.rs, swap): where a swap ends between two
\* ticks, it is charged no more than its input less fees.
THEOREM PartialSwapWithinInput ==
  ASSUME NEW in \in Pairs, NEW current \in Nat \ {0}, NEW liquidity \in Nat \ {0}, NEW input \in Nat
  PROVE  input_amount_delta_ceil(in, current,
           next_sqrt_price_from_input_amount(in, current, liquidity, input), liquidity) <= input
BY Zenon, UpwardWithinInput, DownwardWithinInput DEF Pairs

\* A fraction below a natural number is below it when rounded down, and one
\* above it is above it when rounded up.
LEMMA FloorBelow ==
  ASSUME NEW a \in Nat, NEW b \in Nat, NEW c \in Nat \ {0}, NEW m \in Nat, a * b < m * c
  PROVE  mul_div_floor(a, b, c) < m
<1> DEFINE q == mul_div_floor(a, b, c)
<1>1. q \in Nat /\ q * c <= a * b
  BY FloorBounds
<1> HIDE DEF q
<1>2. q * c < m * c
  BY <1>1
<1> QED BY <1>1, <1>2, TimesStrict DEF q

LEMMA CeilAbove ==
  ASSUME NEW a \in Nat, NEW b \in Nat, NEW c \in Nat \ {0}, NEW m \in Nat, m * c < a * b
  PROVE  m < mul_div_ceil(a, b, c)
<1> DEFINE q == mul_div_ceil(a, b, c)
<1>1. q \in Nat /\ a * b <= q * c
  BY CeilBounds
<1> HIDE DEF q
<1>2. m * c < q * c
  BY <1>1
<1> QED BY <1>1, <1>2, TimesStrict DEF q

\* A swap whose input does not reach the target price stops before it, in
\* either direction: the assertion on sqrt_price_next in range_orders.rs,
\* swap, holds, and next_sqrt_price_from_input_amount stays within the prices
\* of the ticks ("Will not overflow as function is not called if amount >=
\* amount_required_to_reach_target").
THEOREM PartialSwapStopsBeforeTarget ==
  ASSUME NEW in \in Pairs, NEW current \in Nat \ {0}, NEW target \in Nat \ {0},
         NEW liquidity \in Nat \ {0}, NEW input \in Nat,
         ~sqrt_price_op_more_than(in, current, target),
         input < input_amount_delta_ceil(in, current, target, liquidity)
  PROVE  sqrt_price_op_more_than(in, target,
           next_sqrt_price_from_input_amount(in, current, liquidity, input))
<1>1. SqrtPriceOne \in Nat \ {0}
  BY ScalesAssumption
<1>2. CASE in = "Quote"
  <2>1. target - current \in Nat
    BY <1>2 DEF sqrt_price_op_more_than
  <2>2. input < mul_div_ceil(liquidity, target - current, SqrtPriceOne)
    BY <1>2 DEF input_amount_delta_ceil, one_amount_delta_ceil
  <2>3. input * SqrtPriceOne < liquidity * (target - current)
    BY <1>1, <2>1, <2>2, BelowCeil
  <2>4. liquidity * (target - current) = (target - current) * liquidity
    BY <2>1
  <2>5. mul_div_floor(input, SqrtPriceOne, liquidity) < target - current
    BY <1>1, <2>1, <2>3, <2>4, FloorBelow
  <2>6. mul_div_floor(input, SqrtPriceOne, liquidity) \in Nat
    BY Zenon, <1>1, FloorBounds
  <2>7. current + mul_div_floor(input, SqrtPriceOne, liquidity) < target
    BY <2>5, <2>6
  <2> QED BY <1>2, <2>7 DEF sqrt_price_op_more_than, next_sqrt_price_from_input_amount
<1>3. CASE in = "Base"
  <2> DEFINE L == liquidity * SqrtPriceOne
  <2>1. L \in Nat \ {0}
    BY <1>1
  <2>2. current - target \in Nat
    BY <1>3 DEF sqrt_price_op_more_than
  <2>3. input < mul_div_ceil(L, current - target, current * target)
    BY <1>3 DEF input_amount_delta_ceil, zero_amount_delta_ceil
  <2> HIDE DEF L
  <2>4. current * target \in Nat \ {0}
    OBVIOUS
  <2>5. input * (current * target) < L * (current - target)
    BY <2>1, <2>2, <2>3, <2>4, BelowCeil
  <2>6. /\ L * (current - target) = L * current - L * target
        /\ input * (current * target) = target * (input * current)
        /\ L * current \in Nat /\ L * target \in Nat /\ L * target = target * L
        /\ input * current \in Nat
    BY <2>1
  <2>7. target * (L + input * current) = target * L + target * (input * current)
    BY <2>1, <2>6
  <2>8. target * (L + input * current) < L * current
    BY <2>5, <2>6, <2>7
  <2>9. L + input * current \in Nat \ {0}
    BY <2>1, <2>6
  <2>10. target < mul_div_ceil(L, current, L + input * current)
    BY <2>1, <2>8, <2>9, CeilAbove
  <2> QED BY <1>3, <2>10 DEF sqrt_price_op_more_than, next_sqrt_price_from_input_amount, L
<1> QED BY <1>2, <1>3 DEF Pairs

\* "Cannot underflow as amount_required_to_consume_pool is ceiled, but
\* amount_minus_fees < amount_required_to_consume_pool" (limit_orders.rs,
\* swap): a fixed pool that a swap does not use up keeps something, so that
\* the share that is left is never zero, which mul_div_ceil asserts.
THEOREM PartialFillLeavesSome ==
  ASSUME NEW in \in Pairs, NEW available \in Nat, NEW price \in Nat \ {0}, NEW input \in Nat,
         input < input_amount_ceil(in, available, price)
  PROVE  output_amount_floor(in, input, price) < available
<1>1. PriceOne \in Nat \ {0}
  BY ScalesAssumption
<1>2. CASE in = "Base"
  <2>1. input * price < available * PriceOne
    BY <1>1, <1>2, BelowCeil DEF input_amount_ceil
  <2> QED BY <1>1, <1>2, <2>1, FloorBelow DEF output_amount_floor
<1>3. CASE in = "Quote"
  <2>1. input * PriceOne < available * price
    BY <1>1, <1>3, BelowCeil DEF input_amount_ceil
  <2> QED BY <1>1, <1>3, <2>1, FloorBelow DEF output_amount_floor
<1> QED BY <1>2, <1>3 DEF Pairs

-----------------------------------------------------------------------------
(* Broadcast verification, for every number of parties.                    *)
INSTANCE FiniteSetTheorems

\* Two subsets that hold more than half of a finite set have a common element.
LEMMA MajoritiesMeet ==
    ASSUME NEW S, IsFiniteSet(S), NEW A \in SUBSET S, NEW B \in SUBSET S,
           NEW t \in Nat, Cardinality(S) <= 2 * t + 1,
           Cardinality(A) > t, Cardinality(B) > t
    PROVE  A \cap B # {}
<1>1. IsFiniteSet(A) /\ IsFiniteSet(B) /\ IsFiniteSet(A \cup B)
  BY FS_Subset, FS_Union
<1>2. Cardinality(A \cup B) <= Cardinality(S)
  BY FS_Subset, <1>1
<1>3. Cardinality(A \cup B) = Cardinality(A) + Cardinality(B) - Cardinality(A \cap B)
  BY FS_Union, <1>1
<1>4. /\ Cardinality(A) \in Nat /\ Cardinality(B) \in Nat
      /\ Cardinality(S) \in Nat /\ Cardinality(A \cap B) \in Nat
  BY Zenon, <1>1, FS_CardinalityType, FS_Intersection
<1>5. Cardinality(A \cap B) > 0
  BY <1>2, <1>3, <1>4
<1> QED BY <1>5, FS_EmptySet

\* find_frequent_element has at most one result when its threshold is half of
\* the number of its values, whatever order it looks at them in.
THEOREM FrequentElementUnique ==
    ASSUME NEW S, IsFiniteSet(S), NEW f, DOMAIN f = S,
           NEW t \in Nat, Cardinality(S) <= 2 * t + 1,
           NEW v \in find_frequent_element(f, t),
           NEW w \in find_frequent_element(f, t)
    PROVE  v = w
<1> DEFINE A == {i \in S : f[i] = v}
           B == {i \in S : f[i] = w}
<1>1. Cardinality(A) > t /\ Cardinality(B) > t
  BY DEF find_frequent_element
<1>2. A \cap B # {}
  <2> HIDE DEF A, B
  <2>1. A \in SUBSET S /\ B \in SUBSET S
    BY DEF A, B
  <2> QED BY <2>1, <1>1, MajoritiesMeet
<1> QED BY <1>2

\* The threshold is a natural number, and more than half of the parties is
\* more than the threshold.
LEMMA ThresholdIsHalf ==
    ASSUME NEW n \in Nat
    PROVE  /\ threshold_for_broadcast_verification(n) \in Nat
           /\ n <= 2 * threshold_for_broadcast_verification(n) + 1
           /\ \A k \in Nat : 2 * k > n => k > threshold_for_broadcast_verification(n)
BY DEF threshold_for_broadcast_verification

\* When a majority of the reports carries the same optional value x for a
\* party, that value is what is agreed on.
LEMMA AgreedIsFrequent ==
    ASSUME NEW messages, IsFiniteSet(DOMAIN messages), NEW idx,
           NEW x \in find_frequent_element(Heard(messages, idx),
                        threshold_for_broadcast_verification(
                            Cardinality(DOMAIN messages)))
    PROVE  Agreed(messages, idx) = x
<1> DEFINE n == Cardinality(DOMAIN messages)
           t == threshold_for_broadcast_verification(n)
           h == Heard(messages, idx)
<1>1. n \in Nat
  BY FS_CardinalityType
<1>2. t \in Nat /\ n <= 2 * t + 1
  BY <1>1, ThresholdIsHalf
<1>3. DOMAIN h = Reporters(messages) /\ DOMAIN h \subseteq DOMAIN messages
  BY DEF Heard, Reporters
<1>4. IsFiniteSet(DOMAIN h) /\ Cardinality(DOMAIN h) <= n
  BY <1>3, FS_Subset
<1>5. Cardinality(DOMAIN h) \in Nat
  BY <1>4, FS_CardinalityType
<1>6. Cardinality(DOMAIN h) <= 2 * t + 1
  BY <1>1, <1>2, <1>4, <1>5
<1>7. \A y \in find_frequent_element(h, t) : y = x
  <2> HIDE DEF h, t, n
  <2>1. x \in find_frequent_element(h, t)
    BY DEF h, t, n
  <2> QED BY <2>1, <1>2, <1>4, <1>6, FrequentElementUnique
<1>8. find_frequent_element(h, t) = {x}
  BY <1>7
<1> QED BY <1>8 DEF Agreed

\* A party whose value reached a majority H of the parties, all of which report
\* it, is never reported: the agreed value is its value, whatever the others
\* report (case (c) of the comment on verify_broadcasts cannot arise).
THEOREM HonestBroadcastAgreed ==
    ASSUME NEW messages, IsFiniteSet(DOMAIN messages),
           NEW idx \in DOMAIN messages, NEW v,
           NEW H \in SUBSET DOMAIN messages,
           2 * Cardinality(H) > Cardinality(DOMAIN messages),
           \A s \in H : \E m : /\ messages[s] = {m}
                               /\ DOMAIN m = DOMAIN messages
                               /\ m[idx] = {v}
    PROVE  Agreed(messages, idx) = {v}
<1> DEFINE n == Cardinality(DOMAIN messages)
           t == threshold_for_broadcast_verification(n)
           h == Heard(messages, idx)
           A == {s \in DOMAIN h : h[s] = {v}}
<1>1. \A s \in H : s \in Reporters(messages) /\ h[s] = {v}
  <2> SUFFICES ASSUME NEW s \in H
               PROVE  s \in Reporters(messages) /\ h[s] = {v}
    OBVIOUS
  <2>1. PICK m : messages[s] = {m} /\ DOMAIN m = DOMAIN messages /\ m[idx] = {v}
    OBVIOUS
  <2>2. s \in Reporters(messages)
    BY <2>1 DEF Reporters, check_verification_message_indexes
  <2>3. (CHOOSE y \in messages[s] : TRUE) = m
    BY <2>1
  <2> QED BY <2>1, <2>2, <2>3 DEF Heard
<1>2. DOMAIN h = Reporters(messages) /\ DOMAIN h \subseteq DOMAIN messages
  BY DEF Heard, Reporters
<1>3. H \subseteq A
  BY <1>1, <1>2
<1>4. IsFiniteSet(A) /\ IsFiniteSet(H)
  BY <1>2, FS_Subset
<1>5. Cardinality(H) <= Cardinality(A)
  <2> HIDE DEF A
  <2> QED BY <1>3, <1>4, FS_Subset
<1>6. n \in Nat /\ Cardinality(H) \in Nat /\ Cardinality(A) \in Nat
  BY <1>4, FS_CardinalityType
<1>7. t \in Nat /\ Cardinality(H) > t
  BY <1>6, ThresholdIsHalf
<1>8. Cardinality(A) > t
  <2> HIDE DEF A, t, n
  <2> QED BY <1>5, <1>6, <1>7
<1>9. H # {}
  <2>1. Cardinality(H) # 0
    <3> HIDE DEF t
    <3> QED BY <1>6, <1>7
  <2> QED BY <2>1, FS_EmptySet
<1>10. {v} \in find_frequent_element(h, t)
  BY Zenon, <1>3, <1>8, <1>9 DEF find_frequent_element
<1> QED BY <1>10, AgreedIsFrequent
=============================================================================
