------------------------------- MODULE Pools --------------------------------
(***************************************************************************)
(* A pool of the cf-pools pallet with its limit and range orders, the free *)
(* balances of the liquidity providers (cf-lp) and the swaps that cross    *)
(* both kinds of order (amm/src/lib.rs). Every call either takes effect as *)
(* a whole or is rolled back; a call that fails is a step that does not    *)
(* happen, except for a scheduled one, which is dropped.                   *)
(***************************************************************************)
EXTENDS AmmMath, Sequences, FiniteSets, Functions, FiniteSetsExt, TLC, SequencesExt

(***************************************************************************)
(* The orders of one pool of the exchange: limit orders and range orders.  *)
(***************************************************************************)

(***************************************************************************)
(* The limit orders of one pool: amm/src/limit_orders.rs. Orders that sell *)
(* an asset at one price share a fixed pool; how much of each is left is   *)
(* derived from the product of the shares left by every swap, a floating   *)
(* point number below one whose mantissa has Width bits (256 in the code). *)
(* The operators take and return the pool; "in" is the asset a swap takes. *)
(***************************************************************************)

CONSTANTS Width,                \* bits of a mantissa
          MaxFixedPoolLiquidity

\* The value an operation leaves when an assertion or checked arithmetic panics.
NoPanic == ""
Panic(reason, value) == [value EXCEPT !.panic = reason]

TheOnly(set) == CHOOSE x \in set : TRUE

Without(f, key) == Restrict(f, DOMAIN f \ {key})

-----------------------------------------------------------------------------
(* FloatBetweenZeroAndOne *)

bits(n) == CHOOSE b \in 0..(2 * Width) : n < 2^b /\ \A c \in 0..(b - 1) : n >= 2^c

float_max == [mantissa |-> 2^Width - 1, exponent |-> 0]

\* f * numerator / denominator, rounded up to Width significant bits. A
\* mantissa of Width ones that is rounded up does not fit any more.
float_mul_div_ceil(f, numerator, denominator) ==
  LET normalise(d, exponent) == [mantissa |-> mul_div_ceil(d, 1, 2^(bits(d) - Width)),
                                 exponent |-> exponent + Width - bits(d)]
      divide(product, n) == normalise(mul_div_ceil(product, 2^(2 * Width - n), denominator),
                                      f.exponent + 2 * Width - n)
  IN  divide(f.mantissa * numerator, bits(f.mantissa * numerator))

mantissa_fits(f) == f.mantissa < 2^Width

\* The floor and the ceiling of x * numerator / denominator.
integer_mul_div(x, numerator, denominator) ==
  LET rounded(quotient, exact) ==
        [floor |-> quotient, ceil |-> IF exact THEN quotient ELSE quotient + 1]
      divide(product, unit) ==
        rounded((product \div denominator.mantissa) \div unit,
                product % (denominator.mantissa * unit) = 0)
  IN  divide(x * numerator.mantissa, 2^(numerator.exponent - denominator.exponent))

-----------------------------------------------------------------------------
(* The pool *)

new_limit_orders ==
  [next_pool_instance |-> 0,
   fixed_pools |-> [pair \in Pairs |-> <<>>],
   positions |-> [pair \in Pairs |-> <<>>]]

best_priced_fixed_pool(in, prices) == IF in = "Base" THEN Max(prices) ELSE Min(prices)

\* The best price on offer: a set of at most one price.
limit_current_sqrt_price(pool, in) ==
  LET prices == DOMAIN pool.fixed_pools[Other(in)]
  IN  IF prices = {} THEN {} ELSE {best_priced_fixed_pool(in, prices)}

\* The part of a swap that one fixed pool cannot fill: the share left is
\* over-estimated and the output follows from it.
swap_part(pool, in, price, input) ==
  LET sold == Other(in)
      fixed == pool.fixed_pools[sold][price]
      result(output, panic) == [pool |-> pool, output |-> output, remaining |-> 0, panic |-> panic]
      leave(initial_output, next, left) ==
        IF fixed.available - left > initial_output THEN result(0, "accounting")
        ELSE [result(fixed.available - left, NoPanic) EXCEPT
                !.pool.fixed_pools[sold][price].available = left,
                !.pool.fixed_pools[sold][price].percent_remaining = next]
      use(initial_output, next) ==
        IF ~mantissa_fits(next) THEN result(0, "mantissa")
        ELSE leave(initial_output, next,
                   integer_mul_div(fixed.available, next, fixed.percent_remaining).ceil)
      take(initial_output) ==
        IF initial_output >= fixed.available THEN result(0, "accounting")
        ELSE use(initial_output, float_mul_div_ceil(fixed.percent_remaining,
                                   fixed.available - initial_output, fixed.available))
  IN  take(output_amount_floor(in, input, sqrt_price_to_price(price)))

AddOutput(result, output) == [result EXCEPT !.output = @ + output]

\* Fills fixed pools from the best price on, up to a limit (inclusive).
RECURSIVE limit_swap(_, _, _, _, _)
limit_swap(pool, fee, in, amount, limit) ==
  LET sold == Other(in)
      fill(price, available, required) ==
        IF amount_minus_fees(amount, fee) >= required
          THEN AddOutput(limit_swap([pool EXCEPT !.fixed_pools[sold] = Without(@, price)], fee, in,
                                    amount - required - fees_on(required, fee), limit), available)
          ELSE swap_part(pool, in, price, amount_minus_fees(amount, fee))
      fill_at(price, available) ==
        fill(price, available, input_amount_ceil(in, available, sqrt_price_to_price(price)))
      swap_at(allowed) ==
        IF amount <= 0 \/ allowed = {}
          THEN [pool |-> pool, output |-> 0, remaining |-> amount,
                panic |-> IF amount < 0 THEN "accounting" ELSE NoPanic]
          ELSE fill_at(TheOnly(allowed), pool.fixed_pools[sold][TheOnly(allowed)].available)
  IN  swap_at({p \in limit_current_sqrt_price(pool, in) :
                 \A l \in limit : ~sqrt_price_op_more_than(in, p, l)})

\* faulty variant: what is used is rounded up
collect_rounding_up(pool, fee, in, key) ==
  LET position == pool.positions[Other(in)][key]
      collected(bought, rest) == [bought |-> bought, fees |-> fees_earned(bought, fee), position |-> rest]
      sell(used, rest) == collected(input_amount_floor(in, used, sqrt_price_to_price(key[1])), rest)
      share(percent, left) ==
        sell(position.amount - left.floor,
             IF left.floor > 0 THEN {[position EXCEPT !.amount = left.floor,
                                                      !.last_percent_remaining = percent]} ELSE {})
      from(percent) ==
        share(percent, integer_mul_div(position.amount, percent, position.last_percent_remaining))
  IN  IF /\ key[1] \in DOMAIN pool.fixed_pools[Other(in)]
         /\ pool.fixed_pools[Other(in)][key[1]].pool_instance = position.pool_instance
        THEN from(pool.fixed_pools[Other(in)][key[1]].percent_remaining)
        ELSE sell(position.amount, {})

\* What a position has bought and earned, and what is left of it (a set of
\* at most one position). Both the used and the remaining amount are
\* under-estimated. A fixed pool that is gone, or a later instance of it,
\* means the position was used up.
collect_from_position(pool, fee, in, key) ==
  LET position == pool.positions[Other(in)][key]
      collected(bought, rest) == [bought |-> bought, fees |-> fees_earned(bought, fee), position |-> rest]
      sell(used, rest) == collected(input_amount_floor(in, used, sqrt_price_to_price(key[1])), rest)
      share(percent, left) ==
        sell(position.amount - left.ceil,
             IF left.floor > 0 THEN {[position EXCEPT !.amount = left.floor,
                                                      !.last_percent_remaining = percent]} ELSE {})
      from(percent) ==
        share(percent, integer_mul_div(position.amount, percent, position.last_percent_remaining))
  IN  IF /\ key[1] \in DOMAIN pool.fixed_pools[Other(in)]
         /\ pool.fixed_pools[Other(in)][key[1]].pool_instance = position.pool_instance
        THEN from(pool.fixed_pools[Other(in)][key[1]].percent_remaining)
        ELSE sell(position.amount, {})

\* The outcome of an operation on one order: the pool, the amounts due to
\* its owner, the amount the order holds and the amount taken out of it.
Outcome(pool, collected, amount, burnt) ==
  [ok |-> TRUE, pool |-> pool, bought |-> collected.bought, fees |-> collected.fees,
   amount |-> amount, burnt |-> burnt, panic |-> NoPanic]

Failure(pool) ==
  [ok |-> FALSE, pool |-> pool, bought |-> 0, fees |-> 0, amount |-> 0, burnt |-> 0,
   panic |-> NoPanic]

SetPosition(pool, sold, key, positions) ==
  [pool EXCEPT !.positions[sold] =
     IF positions = {} THEN Without(@, key) ELSE (key :> TheOnly(positions)) @@ @]

limit_collect(pool, fee, in, key) ==
  LET outcome(collected) ==
        Outcome(SetPosition(pool, Other(in), key, collected.position), collected,
                SumSet({p.amount : p \in collected.position}), 0)
  IN  IF key \in DOMAIN pool.positions[Other(in)]
        THEN outcome(collect_from_position(pool, fee, in, key))
        ELSE Failure(pool)

limit_collect_and_mint(pool, fee, in, key, amount) ==
  LET sold == Other(in)
      price == key[1]
      fresh == price \notin DOMAIN pool.fixed_pools[sold]
      mint_in(collected, fixed, minted) ==
        Outcome([SetPosition(pool, sold, key, {minted}) EXCEPT
                   !.next_pool_instance = IF fresh THEN @ + 1 ELSE @,
                   !.fixed_pools[sold] = (price :> [fixed EXCEPT !.available = @ + amount]) @@ @],
                collected, minted.amount, 0)
      position(collected, fixed) ==
        IF collected.position = {}
          THEN [pool_instance |-> fixed.pool_instance, amount |-> 0,
                last_percent_remaining |-> fixed.percent_remaining]
          ELSE TheOnly(collected.position)
      mint(collected, fixed) ==
        IF fixed.available + amount > MaxFixedPoolLiquidity THEN Failure(pool)
        ELSE mint_in(collected, fixed, [position(collected, fixed) EXCEPT !.amount = @ + amount])
  IN  IF amount = 0 THEN limit_collect(pool, fee, in, key)
      ELSE mint(IF key \in DOMAIN pool.positions[sold]
                  THEN collect_from_position(pool, fee, in, key)
                  ELSE [bought |-> 0, fees |-> 0, position |-> {}],
                IF fresh THEN [pool_instance |-> pool.next_pool_instance, available |-> 0,
                               percent_remaining |-> float_max]
                         ELSE pool.fixed_pools[sold][price])

limit_collect_and_burn(pool, fee, in, key, amount) ==
  LET sold == Other(in)
      price == key[1]
      leave(collected, position, burnt, available) ==
        IF available < 0 \/ (available = 0 /\ position.amount > burnt)
          THEN Panic("accounting", Failure(pool))
          ELSE Outcome([SetPosition(pool, sold, key,
                          {p \in {[position EXCEPT !.amount = @ - burnt]} : p.amount > 0}) EXCEPT
                          !.fixed_pools[sold] = IF available = 0 THEN Without(@, price)
                                                ELSE [@ EXCEPT ![price].available = available]],
                       collected, position.amount - burnt, burnt)
      burn_part(collected, position, burnt) ==
        leave(collected, position, burnt, pool.fixed_pools[sold][price].available - burnt)
      burn(collected) ==
        IF collected.position = {}
          THEN Outcome(SetPosition(pool, sold, key, {}), collected, 0, 0)
          ELSE burn_part(collected, TheOnly(collected.position),
                         Min({TheOnly(collected.position).amount, amount}))
  IN  IF amount = 0 \/ key \notin DOMAIN pool.positions[sold]
        THEN limit_collect(pool, fee, in, key)
        ELSE burn(collect_from_position(pool, fee, in, key))

(***************************************************************************)
(* The range orders of one pool: amm/src/range_orders.rs. An order holds   *)
(* liquidity between two ticks; the map of ticks records where the total   *)
(* changes and the fees earned on the other side of each tick. Numbers are *)
(* unsigned in the code: a difference below zero panics.                   *)
(***************************************************************************)

CONSTANTS MinTick, MaxTick,
          SqrtPriceAtTick(_),  \* the square root of the price of a tick
          MaxTickGrossLiquidity

Ticks == MinTick..MaxTick
PairsMap(base, quote) == [pair \in Pairs |-> IF pair = "Base" THEN base ELSE quote]
Zero == PairsMap(0, 0)

tick_at_sqrt_price(sqrt_price) == Max({t \in Ticks : SqrtPriceAtTick(t) <= sqrt_price})

new_range_orders(sqrt_price) ==
  [sqrt_price |-> sqrt_price, tick |-> tick_at_sqrt_price(sqrt_price), liquidity |-> 0,
   growth |-> Zero,
   map |-> [t \in {MinTick, MaxTick} |-> [delta |-> 0, gross |-> 0, outside |-> Zero]],
   positions |-> <<>>]

\* Whether the price can still move, and the price while it can.
further_liquidity(in, tick) == IF in = "Base" THEN tick >= MinTick ELSE tick < MaxTick

range_current_sqrt_price(pool, in) ==
  IF further_liquidity(in, pool.tick) THEN {pool.sqrt_price} ELSE {}

\* The next tick at which liquidity may change.
next_liquidity_delta(in, tick, map) ==
  IF in = "Base" THEN Max({t \in DOMAIN map : t <= tick}) ELSE Min({t \in DOMAIN map : t > tick})

liquidity_delta_on_crossing_tick(in, delta) == IF in = "Base" THEN -delta ELSE delta
current_tick_after_crossing_tick(in, tick) == IF in = "Base" THEN tick - 1 ELSE tick

-----------------------------------------------------------------------------
(* Swapping *)

cross_tick(pool, in, tick) ==
  [pool EXCEPT !.map[tick].outside = [pair \in Pairs |-> pool.growth[pair] - @[pair]],
               !.sqrt_price = SqrtPriceAtTick(tick),
               !.tick = current_tick_after_crossing_tick(in, tick),
               !.liquidity = @ + liquidity_delta_on_crossing_tick(in, pool.map[tick].delta)]

\* One stretch of a swap on constant liquidity: where the price goes, what
\* comes out, what is swapped and what is kept as fees.
swap_stretch(pool, fee, in, amount, target) ==
  LET stretch(next, swapped) ==
        [next |-> next,
         output |-> output_amount_delta_floor(in, pool.sqrt_price, next, pool.liquidity),
         swapped |-> swapped,
         fees |-> IF next = target THEN fees_on(swapped, fee) ELSE amount - swapped]
      to(next) ==
        stretch(next, input_amount_delta_ceil(in, pool.sqrt_price, next, pool.liquidity))
      towards(input, required) ==
        to(IF input >= required THEN target
           ELSE next_sqrt_price_from_input_amount(in, pool.sqrt_price, pool.liquidity, input))
  IN  IF pool.liquidity = 0 THEN [next |-> target, output |-> 0, swapped |-> 0, fees |-> 0]
      ELSE towards(amount_minus_fees(amount, fee),
                   input_amount_delta_ceil(in, pool.sqrt_price, target, pool.liquidity))

\* Moves the price tick by tick, up to a limit.
RECURSIVE range_swap(_, _, _, _, _)
range_swap(pool, fee, in, amount, limit) ==
  LET stop == [pool |-> pool, output |-> 0, remaining |-> amount, panic |-> NoPanic]
      paid(stretch) ==
        IF pool.liquidity = 0 THEN pool
        ELSE [pool EXCEPT !.growth[in] =
                @ + mul_div_floor(stretch.fees, FeeGrowthOne, pool.liquidity)]
      moved(stretch, tick) ==
        IF stretch.next = SqrtPriceAtTick(tick) THEN cross_tick(paid(stretch), in, tick)
        ELSE IF stretch.next # pool.sqrt_price
          THEN [paid(stretch) EXCEPT !.sqrt_price = stretch.next,
                                     !.tick = tick_at_sqrt_price(stretch.next)]
        ELSE paid(stretch)
      continue(stretch, tick, next, left) ==
        IF \/ left < 0 \/ next.liquidity < 0
           \/ sqrt_price_op_more_than(in, stretch.next, SqrtPriceAtTick(tick))
           \/ \E pair \in Pairs : next.map[tick].outside[pair] < 0
          THEN Panic("accounting", stop)
          ELSE AddOutput(range_swap(next, fee, in, left, limit), stretch.output)
      move(stretch, tick) ==
        continue(stretch, tick, moved(stretch, tick), amount - (stretch.swapped + stretch.fees))
      swap_to(tick) ==
        move(swap_stretch(pool, fee, in, amount,
               IF \E l \in limit : sqrt_price_op_more_than(in, SqrtPriceAtTick(tick), l)
                 THEN TheOnly(limit) ELSE SqrtPriceAtTick(tick)), tick)
  IN  IF \/ amount = 0
         \/ ~further_liquidity(in, pool.tick)
         \/ \E l \in limit : ~sqrt_price_op_more_than(in, l, pool.sqrt_price)
        THEN stop
        ELSE swap_to(next_liquidity_delta(in, pool.tick, pool.map))

-----------------------------------------------------------------------------
(* Amounts and liquidity *)

validate_position_range(lower, upper) == lower < upper /\ MinTick <= lower /\ upper <= MaxTick

\* What liquidity in a range is worth, rounded up or down.
inner_liquidity_to_amounts(pool, round_up, liquidity, lower, upper) ==
  LET zero(from, to) == IF round_up THEN zero_amount_delta_ceil(from, to, liquidity)
                                    ELSE zero_amount_delta_floor(from, to, liquidity)
      one(from, to) == IF round_up THEN one_amount_delta_ceil(from, to, liquidity)
                                   ELSE one_amount_delta_floor(from, to, liquidity)
  IN  IF pool.tick < lower THEN PairsMap(zero(SqrtPriceAtTick(lower), SqrtPriceAtTick(upper)), 0)
      ELSE IF pool.tick < upper
        THEN PairsMap(zero(pool.sqrt_price, SqrtPriceAtTick(upper)),
                      one(SqrtPriceAtTick(lower), pool.sqrt_price))
      ELSE PairsMap(0, one(SqrtPriceAtTick(lower), SqrtPriceAtTick(upper)))

\* How much of that liquidity is active now.
current_liquidity_delta(pool, liquidity, lower, upper) ==
  IF lower <= pool.tick /\ pool.tick < upper THEN liquidity ELSE 0

inner_amounts_to_liquidity(pool, lower, upper, amounts) ==
  LET low == SqrtPriceAtTick(lower)
      high == SqrtPriceAtTick(upper)
      zero(from, to) == ((amounts["Base"] * from * to) \div (to - from)) \div SqrtPriceOne
      one(from, to) == (amounts["Quote"] * SqrtPriceOne) \div (to - from)
      exact == IF pool.sqrt_price <= low THEN zero(low, high)
               ELSE IF pool.sqrt_price < high
                 THEN Min({zero(pool.sqrt_price, high), one(low, pool.sqrt_price)})
               ELSE one(low, high)
  IN  Min({exact, MaxTickGrossLiquidity})

\* A size is an amount of liquidity or the bounds of the two amounts: a set
\* of at most one liquidity.
size_as_liquidity(pool, lower, upper, size) ==
  IF size.kind = "Liquidity" THEN {size.liquidity}
  ELSE {liquidity \in {inner_amounts_to_liquidity(pool, lower, upper, size.maximum)} :
          \A pair \in Pairs :
            inner_liquidity_to_amounts(pool, FALSE, liquidity, lower, upper)[pair] >= size.minimum[pair]}

-----------------------------------------------------------------------------
(* Orders *)

\* The fees per unit of liquidity earned between two ticks.
fee_growth_inside(pool, lower, lower_delta, upper, upper_delta) ==
  [pair \in Pairs |->
     LET below == IF pool.tick < lower THEN pool.growth[pair] - lower_delta.outside[pair]
                                       ELSE lower_delta.outside[pair]
         above == IF pool.tick < upper THEN upper_delta.outside[pair]
                                       ELSE pool.growth[pair] - upper_delta.outside[pair]
     IN  pool.growth[pair] - below - above]

collect_fees(pool, position, inside) ==
  [fees |-> [pair \in Pairs |->
               mul_div_floor(inside[pair] - position.last[pair], position.liquidity, FeeGrowthOne)],
   position |-> [position EXCEPT !.last = inside]]

\* The subtractions of collect_fees that would go below zero.
collect_fees_panics(position, inside) ==
  \E pair \in Pairs : inside[pair] < 0 \/ inside[pair] < position.last[pair]

RangeOutcome(pool, amounts, liquidity_change, fees, liquidity) ==
  [ok |-> TRUE, pool |-> pool, amounts |-> amounts, change |-> liquidity_change, fees |-> fees,
   liquidity |-> liquidity, panic |-> NoPanic]

RangeFailure(pool, error) ==
  [ok |-> FALSE, pool |-> pool, amounts |-> Zero, change |-> 0, fees |-> Zero, liquidity |-> 0,
   error |-> error, panic |-> NoPanic]

\* The tick of an order that starts or ends there. By convention all fees
\* earned before a tick was first used were earned below it.
initial_tick_delta(pool, tick) ==
  IF tick \in DOMAIN pool.map THEN pool.map[tick]
  ELSE [delta |-> 0, gross |-> 0, outside |-> IF tick <= pool.tick THEN pool.growth ELSE Zero]

\* The map of ticks after the liquidity of a range has changed.
with_range(map, lower, lower_delta, upper, upper_delta, change) ==
  (lower :> [lower_delta EXCEPT !.gross = @ + change, !.delta = @ + change]) @@
  (upper :> [upper_delta EXCEPT !.gross = @ + change, !.delta = @ - change]) @@ map

range_collect_and_mint(pool, lp, lower, upper, size) ==
  LET key == <<lp, lower, upper>>
      exists == key \in DOMAIN pool.positions
      finish(minted, map, collected, total) ==
        RangeOutcome(
          [pool EXCEPT !.liquidity = @ + current_liquidity_delta(pool, minted, lower, upper),
                       !.positions = (key :> [collected.position EXCEPT !.liquidity = total]) @@ @,
                       !.map = map],
          inner_liquidity_to_amounts(pool, TRUE, minted, lower, upper), minted, collected.fees, total)
      collect(minted, map, position, inside) ==
        IF collect_fees_panics(position, inside) THEN Panic("fee growth", RangeFailure(pool, ""))
        ELSE finish(minted, map, collect_fees(pool, position, inside), position.liquidity + minted)
      mint(minted, low, high) ==
        IF minted > MaxTickGrossLiquidity - Max({low.gross, high.gross})
          THEN RangeFailure(pool, "MaximumGrossLiquidity")
        ELSE IF ~exists /\ minted = 0 THEN RangeFailure(pool, "NonExistent")
        ELSE collect(minted, with_range(pool.map, lower, low, upper, high, minted),
                     IF exists THEN pool.positions[key] ELSE [liquidity |-> 0, last |-> Zero],
                     fee_growth_inside(pool, lower, low, upper, high))
      mint_one(liquidities) ==
        IF liquidities = {} THEN RangeFailure(pool, "AssetRatioUnachieveable")
        ELSE mint(TheOnly(liquidities), initial_tick_delta(pool, lower), initial_tick_delta(pool, upper))
  IN  IF ~validate_position_range(lower, upper) THEN RangeFailure(pool, "InvalidTickRange")
      ELSE mint_one(size_as_liquidity(pool, lower, upper, size))

range_collect_and_burn(pool, lp, lower, upper, size) ==
  LET key == <<lp, lower, upper>>
      position == pool.positions[key]
      finish(burnt, map, collected, total, unused, active) ==
        IF \/ position.liquidity = 0 \/ active > pool.liquidity
           \/ map[lower].gross < 0 \/ map[upper].gross < 0
           \/ unused # {} /\ total # 0
          THEN Panic("accounting", RangeFailure(pool, ""))
          ELSE RangeOutcome(
                 [pool EXCEPT !.liquidity = @ - active,
                              !.positions = IF total = 0 THEN Without(@, key)
                                            ELSE [@ EXCEPT ![key] =
                                                    [collected.position EXCEPT !.liquidity = total]],
                              !.map = Restrict(map, DOMAIN map \ unused)],
                 inner_liquidity_to_amounts(pool, FALSE, burnt, lower, upper),
                 burnt, collected.fees, total)
      collect(burnt, map, inside) ==
        IF collect_fees_panics(position, inside) THEN Panic("fee growth", RangeFailure(pool, ""))
        ELSE finish(burnt, map, collect_fees(pool, position, inside), position.liquidity - burnt,
                    {t \in {lower, upper} \ {MinTick, MaxTick} : map[t].gross = 0},
                    current_liquidity_delta(pool, burnt, lower, upper))
      burn(burnt, low, high) ==
        collect(burnt, with_range(pool.map, lower, low, upper, high, -burnt),
                fee_growth_inside(pool, lower, low, upper, high))
      burn_one(liquidities) ==
        IF liquidities = {} THEN RangeFailure(pool, "AssetRatioUnachieveable")
        ELSE burn(Min({TheOnly(liquidities), position.liquidity}), pool.map[lower], pool.map[upper])
  IN  IF ~validate_position_range(lower, upper) THEN RangeFailure(pool, "InvalidTickRange")
      ELSE IF key \notin DOMAIN pool.positions THEN RangeFailure(pool, "NonExistent")
      ELSE burn_one(size_as_liquidity(pool, lower, upper, size))

CONSTANTS LPs, OrderIds,
          InitialSqrtPrices,   \* the price a pool is created with
          PoolFees,            \* fees governance sets, some of them too high
          InitialBalance,      \* what each provider starts with, of each asset
          MaxBlock,            \* bound: blocks in a behaviour
          PoolBudgets              \* bound: the calls of a behaviour and their inputs

VARIABLES the_pool,                \* the pool state: fee, limit orders, range orders
          range_orders_cache,  \* the ranges of the orders, by provider and id
          limit_orders_cache,  \* the ticks of the orders, by asset sold, provider and id
          balance,             \* the free balances
          inflow,              \* what swaps brought into the pool, net, of each asset
          pool_block,
          scheduled,           \* ScheduledLimitOrderUpdates
          leftover,            \* input of successful swaps that was not swapped
          price_impact,        \* MaximumPriceImpact: a set of at most one limit
          panicked,            \* why execution panicked, if it did
          pool_budget

poolsVars == <<the_pool, range_orders_cache, limit_orders_cache, balance, inflow, pool_block, scheduled,
          leftover, price_impact, panicked, pool_budget>>

\* The storage a call works on.
Storage == [pool |-> the_pool, range_cache |-> range_orders_cache, limit_cache |-> limit_orders_cache,
            balance |-> balance, ok |-> TRUE, panic |-> NoPanic, amounts |-> Zero]

Fail(s) == [s EXCEPT !.ok = FALSE]

\* Ok(Default::default()): nothing was changed.
NoChange(s) == [s EXCEPT !.amounts = Zero]

PanicIn(s, reason) == [s EXCEPT !.ok = FALSE, !.panic = reason]

Credit(s, lp, amounts) ==
  [s EXCEPT !.balance[lp] = [pair \in Pairs |-> @[pair] + amounts[pair]]]

Debit(s, lp, amounts) ==
  IF \E pair \in Pairs : s.balance[lp][pair] < amounts[pair]
    THEN Fail(s)
    ELSE [s EXCEPT !.balance[lp] = [pair \in Pairs |-> @[pair] - amounts[pair]]]

OnlyIn(pair, amount) == [p \in Pairs |-> IF p = pair THEN amount ELSE 0]

\* A change of an order's size.
Increase(size) == [increase |-> TRUE, size |-> size]
Decrease(size) == [increase |-> FALSE, size |-> size]

Liquidity(l) == [kind |-> "Liquidity", liquidity |-> l]
Amounts(maximum, minimum) == [kind |-> "Amount", maximum |-> maximum, minimum |-> minimum]

-----------------------------------------------------------------------------
(* Limit orders *)

Cached(cache, key) == {cache[k] : k \in DOMAIN cache \cap {key}}
SetCache(cache, key, keep, value) == IF keep THEN (key :> value) @@ cache ELSE Without(cache, key)

\* Pays out what the order earned and bought and keeps the cache up to date.
process_limit_order_update(s, lp, sold, id, tick, outcome) ==
  LET paid == Credit(s, lp, OnlyIn(Other(sold), outcome.fees + outcome.bought))
  IN  [paid EXCEPT !.limit_cache[sold] = SetCache(@, <<lp, id>>, outcome.amount > 0, tick)]

inner_update_limit_order(s, lp, sold, id, tick, change, allow_no_op) ==
  LET key == <<SqrtPriceAtTick(tick), <<lp, id>>>>
      non_existent == /\ key \notin DOMAIN s.pool.limit.positions[sold]
                      /\ ~change.increase \/ change.size = 0
      process(settled, outcome) ==
        IF settled.ok THEN process_limit_order_update(settled, lp, sold, id, tick, outcome)
        ELSE Fail(s)
      settle(outcome, moved) ==
        LET stored == [s EXCEPT !.pool.limit = outcome.pool, !.amounts = moved]
        IN  process(IF change.increase THEN Debit(stored, lp, moved) ELSE Credit(stored, lp, moved),
                    outcome)
      apply(outcome) ==
        IF outcome.panic # NoPanic THEN PanicIn(s, outcome.panic)
        ELSE IF ~outcome.ok THEN Fail(s)
        ELSE settle(outcome, OnlyIn(sold, IF change.increase THEN change.size ELSE outcome.burnt))
  IN  IF tick \notin Ticks THEN Fail(s)
      ELSE IF non_existent THEN (IF allow_no_op THEN NoChange(s) ELSE Fail(s))
      ELSE apply(IF change.increase
                   THEN limit_collect_and_mint(s.pool.limit, s.pool.fee, Other(sold), key, change.size)
                   ELSE limit_collect_and_burn(s.pool.limit, s.pool.fee, Other(sold), key, change.size))

-----------------------------------------------------------------------------
(* Range orders *)

inner_update_range_order(s, lp, id, range, change, allow_no_op) ==
  LET process(settled, outcome) ==
        IF ~settled.ok THEN Fail(s)
        ELSE [Credit(settled, lp, outcome.fees) EXCEPT
                !.range_cache = SetCache(@, <<lp, id>>, outcome.liquidity > 0, range)]
      settle(outcome) ==
        LET stored == [s EXCEPT !.pool.range = outcome.pool, !.amounts = outcome.amounts]
        IN  process(IF change.increase THEN Debit(stored, lp, outcome.amounts)
                                       ELSE Credit(stored, lp, outcome.amounts), outcome)
      apply(outcome) ==
        IF outcome.panic # NoPanic THEN PanicIn(s, outcome.panic)
        ELSE IF outcome.ok THEN settle(outcome)
        ELSE IF allow_no_op /\ outcome.error = "NonExistent" THEN NoChange(s) ELSE Fail(s)
  IN  apply(IF change.increase
              THEN range_collect_and_mint(s.pool.range, <<lp, id>>, range[1], range[2], change.size)
              ELSE range_collect_and_burn(s.pool.range, <<lp, id>>, range[1], range[2], change.size))

-----------------------------------------------------------------------------
(* Sweeping: the earnings of all orders of a provider are paid out before  *)
(* one of them is changed.                                                 *)

OrdersOf(cache, lp) == SetToSortSeq({key[2] : key \in {k \in DOMAIN cache : k[1] = lp}}, <)

inner_sweep(s, lp) ==
  LET range(t, id) == IF ~t.ok THEN t ELSE
        inner_update_range_order(t, lp, id, t.range_cache[<<lp, id>>], Decrease(Liquidity(0)), FALSE)
      limit(sold, t, id) == IF ~t.ok THEN t ELSE
        inner_update_limit_order(t, lp, sold, id, t.limit_cache[sold][<<lp, id>>], Decrease(0), FALSE)
      swept(t, sold) ==
        FoldLeft(LAMBDA u, id : limit(sold, u, id), t, OrdersOf(s.limit_cache[sold], lp))
  IN  FoldLeft(swept, FoldLeft(range, s, OrdersOf(s.range_cache, lp)), <<"Base", "Quote">>)

-----------------------------------------------------------------------------
(* The calls of the providers *)

All == MaxFixedPoolLiquidity + MaxTickGrossLiquidity  \* Amount::MAX, Liquidity::MAX

\* A call names its order, possibly a new place for it (a set of at most
\* one), and a change of size ("update") or a new size ("set"). Both take an
\* order out of its old place first when it moves or is set.
limit_order_call(s, c) ==
  LET update(t, tick, change, allow) ==
        IF t.ok THEN inner_update_limit_order(t, c.lp, c.sold, c.id, tick, change, allow) ELSE t
      replace(taken, tick) ==
        update(taken, tick, IF c.kind = "set" THEN c.change ELSE Increase(taken.amounts[c.sold]), TRUE)
      taken_from(t, previous) ==
        IF previous = {} THEN t ELSE update(t, TheOnly(previous), Decrease(All), FALSE)
      place(t, previous, tick) ==
        IF c.kind = "set" THEN replace(taken_from(t, previous), tick)
        ELSE update(IF previous \ {tick} = {} THEN t ELSE replace(taken_from(t, previous), tick), tick,
                    c.change, FALSE)
      change(t, previous) ==
        IF previous \cup c.place = {} THEN Fail(s)
        ELSE place(t, previous, TheOnly(IF c.place # {} THEN c.place ELSE previous))
      start(t) == IF t.ok THEN change(t, Cached(t.limit_cache[c.sold], <<c.lp, c.id>>)) ELSE t
  IN  start(inner_sweep(s, c.lp))

range_order_call(s, c) ==
  LET update(t, range, change, allow) ==
        IF t.ok THEN inner_update_range_order(t, c.lp, c.id, range, change, allow) ELSE t
      replace(taken, range) ==
        update(taken, range, IF c.kind = "set" THEN c.change
                             ELSE Increase(Amounts(taken.amounts, Zero)), TRUE)
      taken_from(t, previous) ==
        IF previous = {} THEN t ELSE update(t, TheOnly(previous), Decrease(Liquidity(All)), FALSE)
      place(t, previous, range) ==
        IF c.kind = "set" THEN replace(taken_from(t, previous), range)
        ELSE update(IF previous \ {range} = {} THEN t ELSE replace(taken_from(t, previous), range), range,
                    c.change, FALSE)
      change(t, previous) ==
        IF previous \cup c.place = {} THEN Fail(s)
        ELSE place(t, previous, TheOnly(IF c.place # {} THEN c.place ELSE previous))
      start(t) == IF t.ok THEN change(t, Cached(t.range_cache, <<c.lp, c.id>>)) ELSE t
  IN  start(inner_sweep(s, c.lp))

-----------------------------------------------------------------------------
(* Swaps through both kinds of order *)

\* The better of the two prices: a set of at most one.
current_sqrt_price(p, in) ==
  LET prices == limit_current_sqrt_price(p.limit, in) \cup range_current_sqrt_price(p.range, in)
  IN  {x \in prices : \A y \in prices : ~sqrt_price_op_more_than(in, x, y)}

\* One round of the loop: the orders with the better price, up to the price
\* of the others; limit orders when the prices are equal.
inner_swap_step(p, in, amount) ==
  LET through_range(r) == [r EXCEPT !.pool = [p EXCEPT !.range = r.pool]]
      through_limit(r) == [r EXCEPT !.pool = [p EXCEPT !.limit = r.pool]]
      step(limit, range) ==
        IF range # {} /\ \A l \in limit : \A r \in range : sqrt_price_op_more_than(in, l, r)
          THEN through_range(range_swap(p.range, p.fee, in, amount, limit))
          ELSE through_limit(limit_swap(p.limit, p.fee, in, amount, range))
  IN  step(limit_current_sqrt_price(p.limit, in), range_current_sqrt_price(p.range, in))

RECURSIVE inner_swap(_, _, _)
inner_swap(p, in, amount) ==
  LET continue(step) == IF step.panic # NoPanic THEN step
                        ELSE AddOutput(inner_swap(step.pool, in, step.remaining), step.output)
  IN  IF amount = 0 \/ current_sqrt_price(p, in) = {}
        THEN [pool |-> p, output |-> 0, remaining |-> amount, panic |-> NoPanic]
        ELSE continue(inner_swap_step(p, in, amount))

\* The mean price of a swap, within the prices a tick can have.
swap_sqrt_price(in, input, output) ==
  LET quote == IF in = "Base" THEN output ELSE input
      base == IF in = "Base" THEN input ELSE output
      lowest == SqrtPriceAtTick(MinTick)
      highest == SqrtPriceAtTick(MaxTick)
  IN  IF base = 0 THEN highest
      ELSE Max({lowest} \cup {n \in lowest..highest :
                                n * n * base <= quote * SqrtPriceOne * SqrtPriceOne})

Distance(a, b) == IF a < b THEN b - a ELSE a - b

\* How far the mean price is from the price before or after the swap.
swap_price_impact(before, after, swap_tick) ==
  LET low == Min({before, after})
      high == Max({before, after})
      bounded == Min({Max({low, swap_tick}), high})
  IN  Min({Distance(bounded, before), Distance(bounded, after)})

-----------------------------------------------------------------------------
(* Actions *)

\* Nothing follows a panic.
Bounded(action) ==
  panicked = NoPanic /\ pool_budget[action] > 0 /\ pool_budget' = [pool_budget EXCEPT ![action] = @ - 1]

\* A call that panics changes nothing: the block it is in is not produced.
Commit(s) ==
  /\ s.ok \/ s.panic # NoPanic
  /\ panicked' = s.panic
  /\ IF s.panic # NoPanic
       THEN UNCHANGED <<the_pool, range_orders_cache, limit_orders_cache, balance>>
       ELSE /\ the_pool' = s.pool
            /\ range_orders_cache' = s.range_cache
            /\ limit_orders_cache' = s.limit_cache
            /\ balance' = s.balance

PoolsInit ==
  /\ pool_budget \in PoolBudgets
  /\ \E price \in InitialSqrtPrices, fee \in {f \in PoolFees : validate_fees(f)} :
       the_pool = [fee |-> fee, limit |-> new_limit_orders, range |-> new_range_orders(price)]
  /\ range_orders_cache = <<>>
  /\ limit_orders_cache = [pair \in Pairs |-> <<>>]
  /\ balance = [lp \in LPs |-> PairsMap(InitialBalance, InitialBalance)]
  /\ inflow = Zero
  /\ pool_block = 0
  /\ scheduled = <<>>
  /\ leftover = 0
  /\ price_impact = {}
  /\ panicked = NoPanic

LimitCalls ==
  [lp : LPs, id : OrderIds, sold : pool_budget.sides, place : {{}} \cup {{t} : t \in pool_budget.ticks},
   kind : {"update"}, change : [increase : BOOLEAN, size : pool_budget.sizes]]
  \cup
  [lp : LPs, id : OrderIds, sold : pool_budget.sides, place : {{}} \cup {{t} : t \in pool_budget.ticks},
   kind : {"set"}, change : {Increase(size) : size \in pool_budget.sizes}]

RangeCalls ==
  [lp : LPs, id : OrderIds, place : {{}} \cup {{r} : r \in pool_budget.ranges},
   kind : {"update"}, change : [increase : BOOLEAN, size : pool_budget.range_sizes]]
  \cup
  [lp : LPs, id : OrderIds, place : {{}} \cup {{r} : r \in pool_budget.ranges},
   kind : {"set"}, change : {Increase(size) : size \in pool_budget.range_sizes}]

\* update_limit_order and set_limit_order.
change_limit_order ==
  /\ Bounded("limit")
  /\ \E c \in LimitCalls : \E s \in {limit_order_call(Storage, c)} : Commit(s)
  /\ UNCHANGED <<inflow, pool_block, scheduled, leftover, price_impact>>

\* update_range_order and set_range_order.
change_range_order ==
  /\ Bounded("range")
  /\ \E c \in RangeCalls : \E s \in {range_order_call(Storage, c)} : Commit(s)
  /\ UNCHANGED <<inflow, pool_block, scheduled, leftover, price_impact>>

\* The sweep with which cf-lp starts a withdrawal.
sweep ==
  /\ Bounded("sweep")
  /\ \E lp \in LPs : Commit(inner_sweep(Storage, lp))
  /\ UNCHANGED <<inflow, pool_block, scheduled, leftover, price_impact>>

\* All limit orders are collected at the old fee first.
set_fees(s, fee) ==
  LET process(sold, t, key, outcome) ==
        process_limit_order_update([t EXCEPT !.pool.limit = outcome.pool], key[2][1], sold,
                                   key[2][2], tick_at_sqrt_price(key[1]), outcome)
      collect(sold, t, key) ==
        process(sold, t, key, limit_collect(t.pool.limit, s.pool.fee, Other(sold), key))
      collected(t, sold) ==
        FoldSet(LAMBDA key, u : collect(sold, u, key), t, DOMAIN t.pool.limit.positions[sold])
  IN  IF ~validate_fees(fee) THEN Fail(s)
      ELSE [FoldLeft(collected, s, <<"Base", "Quote">>) EXCEPT !.pool.fee = fee]

set_pool_fees ==
  /\ Bounded("fees")
  /\ \E fee \in PoolFees : Commit(set_fees(Storage, fee))
  /\ UNCHANGED <<inflow, pool_block, scheduled, leftover, price_impact>>

set_maximum_price_impact ==
  /\ Bounded("impact")
  /\ \E limit \in {{}, {0}} : price_impact' = limit
  /\ UNCHANGED <<the_pool, range_orders_cache, limit_orders_cache, balance, inflow, pool_block, scheduled,
                 leftover, panicked>>

schedule_or_dispatch(c, dispatch_at) ==
  /\ dispatch_at >= pool_block
  /\ \/ /\ dispatch_at = pool_block
        /\ \E s \in {limit_order_call(Storage, c)} : Commit(s)
        /\ UNCHANGED scheduled
     \/ /\ dispatch_at > pool_block
        /\ scheduled' = (dispatch_at :> (IF dispatch_at \in DOMAIN scheduled THEN scheduled[dispatch_at]
                                         ELSE <<>>) \o <<c>>) @@ scheduled
        /\ UNCHANGED <<the_pool, range_orders_cache, limit_orders_cache, balance, panicked>>

schedule_limit_order_update ==
  /\ Bounded("schedule")
  /\ \E c \in LimitCalls, dispatch_at \in 0..MaxBlock : schedule_or_dispatch(c, dispatch_at)
  /\ UNCHANGED <<inflow, pool_block, leftover, price_impact>>

\* A new block runs the updates scheduled for it, each in a storage layer of
\* its own.
apply_scheduled_updates ==
  /\ Bounded("block")
  /\ pool_block < MaxBlock
  /\ pool_block' = pool_block + 1
  /\ LET calls == IF pool_block + 1 \in DOMAIN scheduled THEN scheduled[pool_block + 1] ELSE <<>>
         outcome(s, r) == IF r.panic # NoPanic THEN PanicIn(s, r.panic) ELSE IF r.ok THEN r ELSE s
         dispatch(s, c) == IF s.panic # NoPanic THEN s ELSE outcome(s, limit_order_call(s, c))
     IN  \E s \in {FoldLeft(dispatch, Storage, calls)} : Commit(s)
  /\ scheduled' = Without(scheduled, pool_block + 1)
  /\ UNCHANGED <<inflow, leftover, price_impact>>

\* One leg of a swap. It fails, and is rolled back, when the pool has no
\* price before or after it or when the price moves too far.
swap_single_leg(in, amount) ==
  LET tick(prices) == tick_at_sqrt_price(TheOnly(prices))
      impact(before, after, output) ==
        swap_price_impact(tick(before), tick(after), tick_at_sqrt_price(swap_sqrt_price(in, amount, output)))
      finish(before, swapped, after) ==
        IF swapped.panic # NoPanic
          THEN UNCHANGED <<the_pool, inflow, leftover>>
          ELSE /\ after # {}
               /\ \A limit \in price_impact : impact(before, after, swapped.output) <= limit
               /\ the_pool' = swapped.pool
               /\ inflow' = [inflow EXCEPT ![in] = @ + amount, ![Other(in)] = @ - swapped.output]
               /\ leftover' = leftover + swapped.remaining
  IN  /\ current_sqrt_price(the_pool, in) # {}
      /\ \E swapped \in {inner_swap(the_pool, in, amount)} :
           /\ panicked' = swapped.panic
           /\ finish(current_sqrt_price(the_pool, in), swapped, current_sqrt_price(swapped.pool, in))

swap ==
  /\ Bounded("swap")
  /\ \E in \in pool_budget.inputs, amount \in pool_budget.amounts : swap_single_leg(in, amount)
  /\ UNCHANGED <<range_orders_cache, limit_orders_cache, balance, pool_block, scheduled, price_impact>>

PoolsNext ==
  \/ change_limit_order \/ change_range_order \/ sweep \/ set_pool_fees
  \/ set_maximum_price_impact \/ schedule_limit_order_update \/ apply_scheduled_updates \/ swap

PoolsSpec == PoolsInit /\ [][PoolsNext]_poolsVars

-----------------------------------------------------------------------------
(* Properties *)

OrderKeys == LPs \X OrderIds

PoolsTypeOK ==
  /\ the_pool.fee \in PoolFees /\ the_pool.fee <= MAX_LP_FEE
  /\ \A pair \in Pairs :
       /\ \A price \in DOMAIN the_pool.limit.fixed_pools[pair] :
            the_pool.limit.fixed_pools[pair][price].available \in 1..MaxFixedPoolLiquidity
       /\ \A key \in DOMAIN the_pool.limit.positions[pair] : key[2] \in OrderKeys
       /\ DOMAIN limit_orders_cache[pair] \subseteq OrderKeys
  /\ DOMAIN the_pool.range.map \subseteq Ticks /\ the_pool.range.tick \in (MinTick - 1)..MaxTick
  /\ DOMAIN range_orders_cache \subseteq OrderKeys
  /\ balance \in [LPs -> [Pairs -> Nat]]
  /\ pool_block \in 0..MaxBlock

\* What all orders could take out of a fixed pool is in it: the shares left
\* of the positions (limit_orders.rs: "This value is greater than or equal
\* to the amount provided currently by all positions at the same tick").
FixedPoolsCoverOrders ==
  \A sold \in Pairs : \A price \in DOMAIN the_pool.limit.fixed_pools[sold] :
    the_pool.limit.fixed_pools[sold][price].available >=
      MapThenSumSet(LAMBDA key : SumSet({p.amount : p \in
                      collect_from_position(the_pool.limit, the_pool.fee, Other(sold), key).position}),
                    {key \in DOMAIN the_pool.limit.positions[sold] : key[1] = price})

\* What the pool owes of one asset if every order were closed now.
OwedByPool(pair) ==
  LET in == Other(pair)
      limit == the_pool.limit
      remaining(key) == SumSet({p.amount : p \in
                          collect_from_position(limit, the_pool.fee, in, key).position})
      earned(key) == LET c == collect_from_position(limit, the_pool.fee, pair, key)
                     IN  c.bought + c.fees
      range == the_pool.range
      worth(key) ==
        LET inside == fee_growth_inside(range, key[2], range.map[key[2]], key[3], range.map[key[3]])
        IN  collect_fees(range, range.positions[key], inside).fees[pair]
            + inner_liquidity_to_amounts(range, FALSE, range.positions[key].liquidity,
                                         key[2], key[3])[pair]
  IN  MapThenSumSet(remaining, DOMAIN limit.positions[pair])
      + MapThenSumSet(earned, DOMAIN limit.positions[in])
      + MapThenSumSet(worth, DOMAIN range.positions)

\* The pool is solvent: whatever rounding orders and swaps went through, it
\* holds enough of each asset to close every order, fees included.
PoolSolvent ==
  \A pair \in Pairs :
    OwedByPool(pair) <= Cardinality(LPs) * InitialBalance + inflow[pair]
                  - MapThenSumSet(LAMBDA lp : balance[lp][pair], LPs)

\* The caches name exactly the orders of the pool ("This must be kept up to
\* date with the underlying pool"): listing orders unwraps each cached one.
CachesMatchOrders ==
  /\ \A sold \in Pairs :
       DOMAIN the_pool.limit.positions[sold] =
         {<<SqrtPriceAtTick(limit_orders_cache[sold][key]), key>> : key \in DOMAIN limit_orders_cache[sold]}
  /\ DOMAIN the_pool.range.positions =
       {<<key, range_orders_cache[key][1], range_orders_cache[key][2]>> :
          key \in DOMAIN range_orders_cache}

\* The active liquidity and the map of ticks are those of the orders, however
\* the price crossed their ends.
LiquidityMatchesOrders ==
  LET range == the_pool.range
      liquidity(keys) == MapThenSumSet(LAMBDA key : range.positions[key].liquidity, keys)
      starting(t) == {key \in DOMAIN range.positions : key[2] = t}
      ending(t) == {key \in DOMAIN range.positions : key[3] = t}
  IN  /\ range.liquidity = liquidity({key \in DOMAIN range.positions :
                                        key[2] <= range.tick /\ range.tick < key[3]})
      /\ \A t \in DOMAIN range.map :
           /\ range.map[t].gross = liquidity(starting(t)) + liquidity(ending(t))
           /\ range.map[t].delta = liquidity(starting(t)) - liquidity(ending(t))
      /\ \A key \in DOMAIN range.positions : {key[2], key[3]} \subseteq DOMAIN range.map

\* No swap, mint or burn meets an amount or a liquidity below zero or one of
\* the assertions on them. Two panics of checked arithmetic remain, and this
\* says nothing of them: the fees of a range order may be a difference below
\* zero ("fee growth", see RangeOrdersNeverPanic), and the share left of a
\* fixed pool may be rounded up past its largest value ("mantissa",
\* limit_orders.rs: d + U256::one(), against "This function never panics").
AccountingNeverPanics == panicked # "accounting"

\* What range_orders.rs says of collect_and_mint and of collect_and_burn:
\* "This function never panics". It does not hold: the fees inside a range are
\* global_fee_growth - fee_growth_below - fee_growth_above, unsigned. A new
\* tick takes all earlier fees to have been earned below it; with an upper
\* tick that saw them earned above it, they are subtracted twice.
RangeOrdersNeverPanic == panicked # "fee growth"

\* A swap that succeeds used its whole input: swap_single_leg drops the rest.
SwapsUseTheirInput == leftover = 0

\* No update is scheduled for a block that has begun: it would never run.
ScheduledUpdatesWillRun == \A b \in DOMAIN scheduled : b > pool_block

\* A swap never trades with range orders at a price worse than that of a
\* limit order it leaves behind.
SwapsTakeTheBestPrice ==
  [][\A in \in Pairs :
       inflow'[in] > inflow[in] /\ the_pool'.range.sqrt_price # the_pool.range.sqrt_price =>
         \A price \in DOMAIN the_pool'.limit.fixed_pools[Other(in)] :
           ~sqrt_price_op_more_than(in, the_pool'.range.sqrt_price, price)]_poolsVars

\* Whatever is minted, burnt, collected and swapped by calls that do not panic, the pool
\* can pay every order, its caches and ticks are those of its orders, and no swap leaves
\* input behind; a call panics only for the two reasons AccountingNeverPanics names.
PoolIsSound ==
  /\ [](/\ PoolsTypeOK /\ FixedPoolsCoverOrders /\ PoolSolvent /\ CachesMatchOrders
        /\ LiquidityMatchesOrders /\ AccountingNeverPanics /\ SwapsUseTheirInput
        /\ ScheduledUpdatesWillRun)
  /\ SwapsTakeTheBestPrice
=============================================================================
