----------------------------- MODULE MCFanPolicy -----------------------------
(* TLC instance: two setup screens, of which the second leads to the fan page; *)
(* a start with automatic control, one with a verification, and one with a     *)
(* timed manual override that an earlier run left on disk.                     *)
EXTENDS FanPolicy, TLC

MCSetupKeys == <<"setup1", "setupFan">>

Manual == [override |-> "normal", timer |-> "set", policy |-> "high", model |-> "first"]
MCStarts == {[disk |-> NoSave, enabled |-> TRUE, verify |-> "none"],
             [disk |-> NoSave, enabled |-> FALSE, verify |-> "startup"],
             [disk |-> Manual, enabled |-> FALSE, verify |-> "none"]}
=============================================================================
