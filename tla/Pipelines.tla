------------------------------ MODULE Pipelines ------------------------------
(***************************************************************************)
(* The research programs.  A behaviour is one program on one input: the       *)
(* report program up to its simulated account, on the rows and the samples     *)
(* that are prepared from a directory of archives (Research), or one of the    *)
(* five programs that choose a candidate, on a file (Calibration).  The other   *)
(* half of the state stays as if it had no input.                             *)
(***************************************************************************)
EXTENDS Research, Calibration

pipelinesVars == <<researchVars, calibrationVars>>

ResearchIdle == directory = <<>> /\ ReportInit(<<>>)

CalibrationIdle ==
    /\ program = "none" /\ file = <<>> /\ phase = "idle"
    /\ learned = <<>> /\ scored = <<>> /\ selected = <<>>
    /\ tapes = <<>> /\ results = <<>> /\ predictions = <<>>
    /\ periods = <<>> /\ attached = <<>>

PipelinesInit ==
    \/ ResearchInit /\ CalibrationIdle
    \/ CalibrationInit /\ ResearchIdle

PipelinesNext ==
    \/ program = "none" /\ ResearchNext /\ UNCHANGED calibrationVars
    \/ CalibrationNext /\ UNCHANGED researchVars

PipelinesSpec == PipelinesInit /\ [][PipelinesNext]_pipelinesVars
=============================================================================
