------------------------------ MODULE MCStatistics -----------------------------
(* Two measurements, one of them with two flows.                           *)
EXTENDS Statistics

MCMeasurementOf == <<1, 1, 2>>
================================================================================
