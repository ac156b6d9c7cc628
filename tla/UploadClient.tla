---------------------------- MODULE UploadClient ----------------------------
(***************************************************************************)
(* What an upload client promises its caller (class UploadClient in        *)
(* gateway/upload/client.py): one result per row in the order of the rows, *)
(* or an error that says whether the request is worth repeating.  Module   *)
(* Uploader takes this for granted of every request it makes.              *)
(***************************************************************************)
EXTENDS Naturals

CONSTANTS
    Call,
    MaxRows    \* upload_batch_size

VARIABLES
    size,      \* rows of the batch, 0 before the call
    judged,    \* the calls whose rows the platform has decided about
    verdict,   \* what it decided for each row
    outcome    \* what the caller was told

vars == <<size, judged, verdict, outcome>>

RowResults == {"ok", "retryable", "rejected"}
Position(c) == 1..size[c]
Told(end) == [end |-> end, results |-> <<>>]

Init ==
    /\ size = [c \in Call |-> 0]
    /\ judged = {}
    /\ verdict = [c \in Call |-> <<>>]
    /\ outcome = [c \in Call |-> Told("none")]

Begin(c) ==
    /\ outcome[c] = Told("none")
    /\ \E n \in 1..MaxRows : size' = [size EXCEPT ![c] = n]
    /\ outcome' = [outcome EXCEPT ![c] = Told("pending")]
    /\ UNCHANGED <<judged, verdict>>

(* The platform decides about the rows at most once per request, perhaps   *)
(* after the caller has given up on it, never after it was refused.        *)
Judge(c) ==
    /\ outcome[c] \in {Told("pending"), Told("unknown")}
    /\ c \notin judged
    /\ judged' = judged \cup {c}
    /\ \E v \in [Position(c) -> RowResults] : verdict' = [verdict EXCEPT ![c] = v]
    /\ UNCHANGED <<size, outcome>>

(* A BatchResult: row by row what the platform decided.  A row is retried  *)
(* only if the platform said so; without a reason it counts as rejected.   *)
Return(c) ==
    /\ outcome[c] = Told("pending")
    /\ c \in judged
    /\ \E r \in [Position(c) -> RowResults] :
        /\ \A i \in Position(c) :
            /\ r[i] = "ok" <=> verdict[c][i] = "ok"
            /\ r[i] = "retryable" => verdict[c][i] = "retryable"
        /\ outcome' = [outcome EXCEPT ![c] = [end |-> "rows", results |-> r]]
    /\ UNCHANGED <<size, judged, verdict>>

(* An HTTP status that is not 200: the platform took nothing, and never    *)
(* will from this request.                                                 *)
Fail(c) ==
    /\ outcome[c] = Told("pending")
    /\ c \notin judged
    /\ \E end \in {"unavailable", "refused"} :
        outcome' = [outcome EXCEPT ![c] = Told(end)]
    /\ UNCHANGED <<size, judged, verdict>>

(* No usable answer: the platform may have taken any row, or may yet.      *)
GiveUp(c) ==
    /\ outcome[c] = Told("pending")
    /\ outcome' = [outcome EXCEPT ![c] = Told("unknown")]
    /\ UNCHANGED <<size, judged, verdict>>

Next == \E c \in Call : Begin(c) \/ Judge(c) \/ Return(c) \/ Fail(c) \/ GiveUp(c)

Spec == Init /\ [][Next]_vars

=============================================================================
