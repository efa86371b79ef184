----------------------------- MODULE MCMenuDebug -----------------------------
(* TLC instance: a setup menu with one other item, the fan entry and, on the   *)
(* First Series, the bank entry; an operator asks for both capabilities.       *)
EXTENDS MenuDebug, TLC

MCSetupKeys == [m \in Models |-> IF m = "first" THEN <<"setup1", "setupFan", "setupBank">>
                                               ELSE <<"setup1", "setupFan">>]
Amp(model, f, b) == [model |-> model, fan |-> f, bank |-> b]
MCAmps == {Amp("first", "a", "a"), Amp("first", "b", "b"), Amp("third", "a", "a"),
           Amp("other", "a", "a")}
MCRequests == {<<"fan", "bank">>}
=============================================================================
