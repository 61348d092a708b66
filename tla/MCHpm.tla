-------------------------------- MODULE MCHpm --------------------------------
(***************************************************************************)
(* The HPM application, its report store and the byte queue, checked side  *)
(* by side in one run: a behaviour is one of one part, and the variables   *)
(* of the others stay as they were at the start.  The fairness is HpmFair, *)
(* that of the reporting path.                                             *)
(***************************************************************************)
EXTENDS HpmReport, HpmFlash, CQueue

VARIABLE part

allVars == <<part, hpmVars, flashVars, vars>>

MCInit ==
  /\ part \in {"report", "flash", "cqueue"}
  /\ HpmInit /\ FlashInit /\ Init
  /\ part # "flash" => flash_type = "nor"
  /\ part # "report" => acc

MCNext ==
  /\ UNCHANGED part
  /\ \/ part = "report" /\ HpmNext /\ UNCHANGED <<flashVars, vars>>
     \/ part = "flash" /\ FlashNext /\ UNCHANGED <<hpmVars, vars>>
     \/ part = "cqueue" /\ Next /\ UNCHANGED <<hpmVars, flashVars>>

MCFair ==
  /\ WF_hpmVars(part = "report" /\ Manager)
  /\ WF_hpmVars(part = "report" /\ hpm_socket_process)
  /\ WF_hpmVars(part = "report" /\ hpm_session_process)
  /\ WF_hpmVars(part = "report" /\ LinkChanges)
  /\ WF_hpmVars(part = "report" /\ Server)
  /\ WF_hpmVars(part = "report" /\ RestArrives)
  /\ WF_hpmVars(part = "report" /\ Wake)

MCSpec == MCInit /\ [][MCNext]_allVars /\ MCFair
=============================================================================
