------------------------- MODULE ExchangeRateService -------------------------
(***************************************************************************)
(* ExchangeRateService over the static configuration: supported currencies, *)
(* rates and per-transfer maxima, read once from exchange_rates.yaml.       *)
(***************************************************************************)
EXTENDS Money

CONSTANTS
    Currencies,    \* supported_currencies
    MaxTransfer,   \* max_transfer_amounts: currency -> ticks
    Rates          \* rates: <<from, to>> -> units of 1/RateScale

ASSUME MaxTransferAssumption == MaxTransfer \in [Currencies -> Nat]
ASSUME RatesAssumption ==
    /\ DOMAIN Rates \subseteq Currencies \X Currencies
    /\ \A p \in DOMAIN Rates : Rates[p] \in Nat

(* get_rate does not raise.                                                 *)
HasRate(from, to) == from = to \/ <<from, to>> \in DOMAIN Rates

GetRate(from, to) == IF from = to THEN RateScale ELSE Rates[<<from, to>>]
===============================================================================
