------------------------------ MODULE AmmMath ------------------------------
(***************************************************************************)
(* The integer arithmetic the pools are built from: amm/src/common.rs, the *)
(* amount formulas of limit_orders.rs and range_orders.rs and the step     *)
(* that splits a swap's input into what is swapped and what is kept as     *)
(* fees. A direction of swap is named by the asset it takes in: "Base"     *)
(* stands for BaseToQuote, "Quote" for QuoteToBase. The fixed point scales *)
(* (2^96, 2^128, 1_000_000) are constants.                                 *)
(***************************************************************************)
EXTENDS Integers

CONSTANTS OneInHundredthPips, \* the whole, in units of the pool fee
          SqrtPriceOne,       \* 2^SQRT_PRICE_FRACTIONAL_BITS
          PriceOne,           \* 2^PRICE_FRACTIONAL_BITS
          FeeGrowthOne        \* 2^128, the scale of fees per unit of liquidity

ASSUME ScalesAssumption ==
  {OneInHundredthPips, SqrtPriceOne, PriceOne, FeeGrowthOne} \subseteq Nat \ {0}

Pairs == {"Base", "Quote"}
Other(pair) == IF pair = "Base" THEN "Quote" ELSE "Base"

mul_div_floor(a, b, c) == (a * b) \div c
mul_div_ceil(a, b, c) == IF (a * b) % c = 0 THEN (a * b) \div c ELSE (a * b) \div c + 1

\* A price that is better for the swapper is crossed before a worse one.
sqrt_price_op_more_than(in, price, other) ==
  IF in = "Base" THEN price < other ELSE price > other

sqrt_price_to_price(sqrt_price) ==
  (sqrt_price * sqrt_price * PriceOne) \div (SqrtPriceOne * SqrtPriceOne)

-----------------------------------------------------------------------------
(* Fees. *)

MAX_LP_FEE == OneInHundredthPips \div 2

validate_fees(fee) == fee <= MAX_LP_FEE

amount_minus_fees(amount, fee) ==
  mul_div_floor(amount, OneInHundredthPips - fee, OneInHundredthPips)

\* The fee on an input that was swapped in full.
fees_on(swapped, fee) == mul_div_ceil(swapped, fee, OneInHundredthPips - fee)

\* What a position earns on an amount it bought.
fees_earned(bought, fee) == mul_div_floor(bought, fee, OneInHundredthPips - fee)

-----------------------------------------------------------------------------
(* Amounts at the fixed price of a limit order. *)

input_amount_ceil(in, output, price) ==
  IF in = "Base" THEN mul_div_ceil(output, PriceOne, price) ELSE mul_div_ceil(output, price, PriceOne)

input_amount_floor(in, output, price) ==
  IF in = "Base" THEN mul_div_floor(output, PriceOne, price) ELSE mul_div_floor(output, price, PriceOne)

output_amount_floor(in, input, price) ==
  IF in = "Base" THEN mul_div_floor(input, price, PriceOne) ELSE mul_div_floor(input, PriceOne, price)

-----------------------------------------------------------------------------
(* Amounts between two prices of a range order. *)

zero_amount_delta_floor(from, to, liquidity) ==
  mul_div_floor(liquidity * SqrtPriceOne, to - from, to * from)

zero_amount_delta_ceil(from, to, liquidity) ==
  mul_div_ceil(liquidity * SqrtPriceOne, to - from, to * from)

one_amount_delta_floor(from, to, liquidity) == mul_div_floor(liquidity, to - from, SqrtPriceOne)
one_amount_delta_ceil(from, to, liquidity) == mul_div_ceil(liquidity, to - from, SqrtPriceOne)

input_amount_delta_ceil(in, current, target, liquidity) ==
  IF in = "Base" THEN zero_amount_delta_ceil(target, current, liquidity)
                 ELSE one_amount_delta_ceil(current, target, liquidity)

output_amount_delta_floor(in, current, target, liquidity) ==
  IF in = "Base" THEN one_amount_delta_floor(target, current, liquidity)
                 ELSE zero_amount_delta_floor(current, target, liquidity)

\* Where an input that does not reach the target leaves the price.
next_sqrt_price_from_input_amount(in, current, liquidity, amount) ==
  IF in = "Base"
    THEN mul_div_ceil(liquidity * SqrtPriceOne, current, liquidity * SqrtPriceOne + amount * current)
    ELSE current + mul_div_floor(amount, SqrtPriceOne, liquidity)

=============================================================================
