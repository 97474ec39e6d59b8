----------------------------- MODULE PaymentFee -----------------------------
(***************************************************************************)
(* The platform's share of a payment, in whole units.                      *)
(***************************************************************************)
EXTENDS Integers

CONSTANTS
  FeeBps,          \* PLATFORM_FEE_BPS
  BpsDenominator,  \* BPS_DENOMINATOR
  MinPlatformFee   \* MIN_PLATFORM_FEE_SOMPI

ASSUME FeeConstants ==
  /\ FeeBps \in Nat /\ BpsDenominator \in Nat \ {0} /\ FeeBps <= BpsDenominator
  /\ MinPlatformFee \in Nat \ {0}

\* The share rounded half up.
RoundedFee(amount) == (amount * FeeBps + BpsDenominator \div 2) \div BpsDenominator

\* platformFeeSompi: a share below the minimum is not taken.
PlatformFee(amount) ==
  IF RoundedFee(amount) >= MinPlatformFee THEN RoundedFee(amount) ELSE 0

=============================================================================
