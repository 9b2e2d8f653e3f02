-------------------------- MODULE MCCoverageClosure --------------------------
(* Two cross groups with three tuples between them, one plain group.       *)
EXTENDS CoverageClosure, TLC

MCCoverPoints == "trap" :> {"ebreak", "ecall"}
MCCrosses == "raw" :> <<{"raw"}, {"ecall"}, {"ex", "wb"}>>
             @@ "flow" :> <<{"flowing"}, {"ecall"}, {"wb"}>>
Bin(hazard, stage) == <<CrossName, <<hazard, "ecall", stage>>>>
MCBaselines ==
  {{<<"trap", "ebreak">>, <<"trap", "ecall">>},
   {<<"trap", "ebreak">>, Bin("flowing", "wb")}}
=============================================================================
