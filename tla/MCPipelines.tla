---------------------------- MODULE MCPipelines ----------------------------
(* The instances of MCResearch and MCCalibration, side by side. *)
EXTENDS Pipelines, MCResearch, MCCalibration
=============================================================================
