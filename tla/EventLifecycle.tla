--------------------------- MODULE EventLifecycle ---------------------------
(***************************************************************************)
(* The state machine of an event, as gateway/models/status.py states it.   *)
(* ledger.transition refuses every pair that is not listed here.           *)
(***************************************************************************)

Statuses ==
    { "RECEIVED", "VALIDATED", "REJECTED", "QUEUED", "SUPPRESSED",
      "PROCESSED", "UPLOADING", "UPLOADED", "FAILED_RETRYABLE",
      "DEAD_LETTERED" }

(* A slip that leaves a row no way out of UPLOADING after a retryable      *)
(* answer.                                                                 *)
NoWayBackToPool ==
    { <<"PROCESSED", "UPLOADING">>, <<"UPLOADING", "UPLOADED">>,
      <<"UPLOADING", "DEAD_LETTERED">>, <<"FAILED_RETRYABLE", "UPLOADING">> }

AllowedTransitions ==
    { <<"RECEIVED", "VALIDATED">>, <<"RECEIVED", "REJECTED">>,
      <<"VALIDATED", "QUEUED">>,
      <<"QUEUED", "PROCESSED">>, <<"QUEUED", "SUPPRESSED">>,
      <<"QUEUED", "REJECTED">>,
      <<"SUPPRESSED", "QUEUED">>,
      <<"PROCESSED", "UPLOADING">>,
      <<"UPLOADING", "UPLOADED">>, <<"UPLOADING", "FAILED_RETRYABLE">>,
      <<"UPLOADING", "DEAD_LETTERED">>,
      <<"FAILED_RETRYABLE", "UPLOADING">>,
      <<"FAILED_RETRYABLE", "DEAD_LETTERED">>,
      <<"DEAD_LETTERED", "QUEUED">> }

(* The test ledger.transition makes before it writes the status column. *)
CanMove(from, to) == <<from, to>> \in AllowedTransitions

=============================================================================
