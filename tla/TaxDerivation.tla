---------------------------- MODULE TaxDerivation ----------------------------
(***************************************************************************)
(* What the epoch program reads out of a revealed VRF value: the tax       *)
(* rates of the new epoch and the Carnage decision.  Only bytes 0..7 of    *)
(* the 32 are looked at.                                                   *)
(***************************************************************************)
EXTENDS Integers

Token  == {"CRIME", "FRAUD"}
Action == {"None", "Burn", "Sell"}

opposite(t) == IF t = "CRIME" THEN "FRAUD" ELSE "CRIME"

Byte      == 0..255
VrfResult == [0..7 -> Byte]

LOW_RATES  == <<100, 200, 300, 400>>
HIGH_RATES == <<1100, 1200, 1300, 1400>>

FLIP_THRESHOLD            == 192
CARNAGE_TRIGGER_THRESHOLD == 11
CARNAGE_SELL_THRESHOLD    == 5

GENESIS_LOW_TAX_BPS  == 300
GENESIS_HIGH_TAX_BPS == 1400

Rate      == {LOW_RATES[i] : i \in 1..4} \cup {HIGH_RATES[i] : i \in 1..4}
TaxConfig == [Token -> [buy : Rate, sell : Rate]]

\* Each token rolls its own low and high magnitude; the side of the token
\* decides which of the two is its buy tax.
derive_cheap_side(vrf, cheap) ==
  IF vrf[0] < FLIP_THRESHOLD THEN opposite(cheap) ELSE cheap

magnitude(vrf, t) ==
  LET b == IF t = "CRIME" THEN 1 ELSE 3
  IN  [low  |-> LOW_RATES[1 + (vrf[b] % 4)],
       high |-> HIGH_RATES[1 + (vrf[b + 1] % 4)]]

derive_taxes_without_flip(vrf, cheap) ==                        \* mutant
  [t \in Token |->
     LET m == magnitude(vrf, t)
     IN  IF t = cheap THEN [buy |-> m.low,  sell |-> m.high]
                      ELSE [buy |-> m.high, sell |-> m.low]]
derive_taxes(vrf, cheap) ==
  [t \in Token |->
     LET m == magnitude(vrf, t)
     IN  IF t = derive_cheap_side(vrf, cheap)
         THEN [buy |-> m.low,  sell |-> m.high]
         ELSE [buy |-> m.high, sell |-> m.low]]

genesis_taxes ==
  [t \in Token |-> IF t = "CRIME"
                   THEN [buy |-> GENESIS_LOW_TAX_BPS,  sell |-> GENESIS_HIGH_TAX_BPS]
                   ELSE [buy |-> GENESIS_HIGH_TAX_BPS, sell |-> GENESIS_LOW_TAX_BPS]]

is_carnage_triggered(vrf) == vrf[5] < CARNAGE_TRIGGER_THRESHOLD

get_carnage_action_blind(vrf, has_holdings) ==                  \* mutant
  IF vrf[6] < CARNAGE_SELL_THRESHOLD THEN "Sell" ELSE "Burn"
get_carnage_action(vrf, has_holdings) ==
  IF ~has_holdings THEN "None"
  ELSE IF vrf[6] < CARNAGE_SELL_THRESHOLD THEN "Sell" ELSE "Burn"

get_carnage_target(vrf) == IF vrf[7] < 128 THEN "CRIME" ELSE "FRAUD"
=============================================================================
