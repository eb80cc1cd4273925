---------------------------- MODULE MCTransfers ----------------------------
(* Instances of Transfers for TLC: small holdings, of one test wallet or of fund's IBC     *)
(* wallet, and shares scaled to them; what comes back and what is unstaked is as in the     *)
(* source.                                                                                  *)
EXTENDS Transfers

MCShare ==
  [s \in Shares |-> CASE s = "gaiad"      -> <<900, 990>>
                      [] s = "undelegate" -> <<750, 1000>>
                      [] OTHER            -> <<500, 500>>]

MCHoldings ==
  { [w \in Wallets |-> IF w = Test(1) THEN 3 ELSE 0],
    [w \in Wallets |-> IF w = Ibc("fund", 1) THEN 4 ELSE 0] }
=============================================================================
