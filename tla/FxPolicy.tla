------------------------------- MODULE FxPolicy -------------------------------
(***************************************************************************)
(* The arithmetic and the limits of a cross-currency transfer: the private  *)
(* helpers of CrossCurrencyTransferService over the values of Settings.     *)
(* A rate table maps a pair of currencies to a rate; fees are fractions in  *)
(* the same unit, 1/RateScale.                                              *)
(***************************************************************************)
EXTENDS ExchangeRateService

CONSTANTS
    Usd,                  \* the currency of the limits
    FeedRates,            \* the rate tables a snapshot may carry
    ActivePairs,          \* active rows of currency_pairs
    SendingFeePct,        \* SENDING_FEE_PCT
    ReceivingFeePct,      \* RECEIVING_FEE_PCT
    DeviationScale,       \* quantized percent units in a deviation of 1
    DeviationThreshold,   \* FX_RATE_DEVIATION_THRESHOLD_PCT, in those units
    LimitPerTxUsd,        \* TRANSFER_LIMIT_PER_TX_USD
    LimitPerDayUsd,       \* TRANSFER_LIMIT_PER_DAY_USD
    AmlThresholdUsd       \* AML_SCREENING_THRESHOLD_USD

ASSUME FeedRatesAssumption ==
    \A f \in FeedRates : \A p \in DOMAIN f : f[p] \in Nat
ASSUME ActivePairsAssumption == ActivePairs \subseteq Currencies \X Currencies
ASSUME FeesAssumption ==
    /\ SendingFeePct \in Nat /\ ReceivingFeePct \in Nat
    /\ ReceivingFeePct <= RateScale
ASSUME LimitsAssumption ==
    /\ DeviationScale \in Nat \ {0} /\ DeviationThreshold \in Nat
    /\ LimitPerTxUsd \in Nat /\ LimitPerDayUsd \in Nat /\ AmlThresholdUsd \in Nat

(* _calculate_amounts; gross and receiving fee are multiples of the quantum *)
(* already, so quantizing their difference changes nothing.                 *)
SendingFee(amount)         == Scaled(amount, SendingFeePct)
GrossAmount(amount, rate)  == Scaled(amount, rate)
ReceivingFee(amount, rate) == Scaled(GrossAmount(amount, rate), ReceivingFeePct)
NetAmount(amount, rate)    == GrossAmount(amount, rate) - ReceivingFee(amount, rate)
TotalSenderCost(amount)    == Stored(amount + SendingFee(amount))

(* _amount_in_usd finds a rate; its result.                                 *)
HasUsdRate(currency, rates) == currency = Usd \/ <<currency, Usd>> \in DOMAIN rates

AmountInUsd(amount, currency, rates) ==
    IF currency = Usd THEN Stored(amount) ELSE Scaled(amount, rates[<<currency, Usd>>])

(* _check_rate_deviation raises: the distance in percent of the previewed   *)
(* rate, rounded half up to four decimals, is above the threshold.          *)
Deviates(preview, current) ==
    LET distance == IF current >= preview THEN current - preview ELSE preview - current
    IN  preview # 0 /\ HalfUp(distance * DeviationScale, preview) > DeviationThreshold
===============================================================================
