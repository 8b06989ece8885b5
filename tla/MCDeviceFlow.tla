----------------------------- MODULE MCDeviceFlow -----------------------------
(* Model checking of DeviceFlow, where all sets are of interchangeable       *)
(* values.                                                                   *)
EXTENDS DeviceFlow, TLC

Interchangeable ==
  Permutations(Devices) \union Permutations(UserCodes) \union Permutations(Users)
    \union Permutations(Browsers) \union Permutations(Pollers)
=============================================================================
