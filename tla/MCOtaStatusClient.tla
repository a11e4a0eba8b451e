------------------------- MODULE MCOtaStatusClient -------------------------
(***************************************************************************)
(* A job in progress, a failed one and the idle backend are enough to make *)
(* every value of otaState but Success appear; Success needs Idle with Ok. *)
(***************************************************************************)
EXTENDS OtaStatusClient

MCReports ==
  {<<"Idle", "None">>, <<"Apply", "Start">>, <<"Idle", "Fail">>, <<"Idle", "Ok">>}
=============================================================================
