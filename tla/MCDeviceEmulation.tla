------------------------- MODULE MCDeviceEmulation -------------------------
(* A driver that has ordinary divisors and vertex stores of its own, and   *)
(* an application that would like one of two sets of features.             *)
EXTENDS DeviceEmulation

WantedSets == {{"pipelineStatisticsQuery", "divisor"}, Features}
=============================================================================
