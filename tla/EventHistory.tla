---------------------------- MODULE EventHistory ----------------------------
(***************************************************************************)
(* What the gateway promises about an event, without saying how.  An id is *)
(* accepted or refused once.  An accepted event is suppressed, rejected or *)
(* released for upload.  A released one is uploaded, which is only ever    *)
(* said of an event the ad platform has recorded, or dead-lettered.        *)
(*                                                                         *)
(* Rejected and uploaded are final.  Suppressed and dead are the ends the  *)
(* pipeline reaches by itself, and an operator may put either back for     *)
(* the gate to decide on again, whatever it decided before                 *)
(* (models/status.py, docs/DESIGN.md's state diagram, docs/RUNBOOK.md      *)
(* section 3).  Modules Uploader and Gateway implement it.                 *)
(***************************************************************************)
CONSTANT Event

VARIABLES
    fate,       \* what can be said of each event
    passed,     \* events that were let through to the upload stage once
    recorded    \* events the ad platform has recorded a conversion for

history == <<fate, passed, recorded>>

Fates == {"unknown", "undecided", "released", "suppressed", "rejected", "uploaded", "dead"}

-----------------------------------------------------------------------------

Becomes(e, from, to) ==
    /\ fate[e] = from
    /\ fate' = [fate EXCEPT ![e] = to]

Accept(e) == Becomes(e, "unknown", "undecided") /\ UNCHANGED <<passed, recorded>>
Refuse(e) == Becomes(e, "unknown", "rejected") /\ UNCHANGED <<passed, recorded>>

(* The processor's decision, also on an event put back after a failure: a  *)
(* replay is sent through the consent gate like any other event.           *)
Suppress(e) == Becomes(e, "undecided", "suppressed") /\ UNCHANGED <<passed, recorded>>
Reject(e) == Becomes(e, "undecided", "rejected") /\ UNCHANGED <<passed, recorded>>

Release(e) ==
    /\ Becomes(e, "undecided", "released")
    /\ passed' = passed \cup {e}
    /\ UNCHANGED recorded

(* The platform records conversions, whether or not anybody is told.       *)
Record ==
    /\ recorded' \subseteq passed
    /\ recorded \subseteq recorded'
    /\ UNCHANGED <<fate, passed>>

(* The outcome of a batch, each of its events on its own.                  *)
Settles(e) ==
    /\ fate[e] = "released"
    /\ \/ fate'[e] = "uploaded" /\ e \in recorded
       \/ fate'[e] = "dead"

Settle ==
    /\ fate' \in [Event -> Fates]
    /\ \A e \in Event : fate'[e] = fate[e] \/ Settles(e)
    /\ UNCHANGED <<passed, recorded>>

(* An operator replays the event.                                          *)
Reopen(e) ==
    /\ \/ Becomes(e, "dead", "undecided")
       \/ Becomes(e, "suppressed", "undecided")
    /\ UNCHANGED <<passed, recorded>>

-----------------------------------------------------------------------------

Init ==
    /\ fate = [e \in Event |-> "unknown"]
    /\ passed = {}
    /\ recorded = {}

(* The upload stage by itself starts with rows that were released to it.   *)
UploadInit ==
    /\ fate = [e \in Event |-> "released"]
    /\ passed = Event
    /\ recorded = {}

Next ==
    \/ \E e \in Event : \/ Accept(e) \/ Refuse(e) \/ Suppress(e) \/ Reject(e)
                         \/ Release(e) \/ Reopen(e)
    \/ Record
    \/ Settle

(* The upload stage settles events and restarts none.                      *)
UploadNext == Record \/ Settle

Spec == Init /\ [][Next]_history
UploadSpec == UploadInit /\ [][UploadNext]_history

=============================================================================
