----------------------------- MODULE UploadCall -----------------------------
(***************************************************************************)
(* One upload request from ledger row to row result: the conversion        *)
(* builder (upload/conversion.py), the HTTP client and its reading of the  *)
(* answer (upload/client.py, classifier.py), and the ad platform as the    *)
(* repository's own mock implements it (mock_ads_api/app.py), with its     *)
(* injected failures.  Several requests, of several uploaders, may be at   *)
(* the platform at once.                                                   *)
(*                                                                         *)
(* Values are reduced to whether they are there: a digest is a digest, and *)
(* the builder's time format is the one the platform asks for.             *)
(***************************************************************************)
EXTENDS Consent, Integers, Sequences, FiniteSets

CONSTANTS
    Call,       \* the requests
    MaxRows,    \* upload_batch_size
    Rows,       \* the ledger rows considered
    Controls    \* the failure injections considered

Fields == {"email", "phone", "given_name", "family_name", "street_address",
           "city", "region", "postal_code", "country"}
Actions == {"known", "unknown", "illformed"}
LedgerRow == [action : Actions, click : BOOLEAN, hashed : SUBSET Fields,
              consent : Consents]

HttpStatus == [http_401 |-> 401, http_429 |-> 429, http_500 |-> 500, http_503 |-> 503]
Modes == {"ok", "timeout", "malformed"} \cup DOMAIN HttpStatus
InjectedCodes == {"TOO_RECENT_CONVERSION", "EXPIRED_CLICK"}
RowErrors == {"INVALID_CONVERSION_ACTION", "CONVERSION_ACTION_NOT_FOUND",
              "USER_IDENTIFIER_REQUIRED", "CONSENT_REQUIRED_FOR_USER_IDENTIFIERS"}
RowCodes == {"none", "UNKNOWN"} \cup RowErrors \cup InjectedCodes

(* fail is a set of [index, error_code]; times counts only if limited.     *)
Control == [mode : Modes, fail : SUBSET [index : Nat, code : InjectedCodes],
            limited : BOOLEAN, times : Int]

ASSUME MaxRowsAssumption == MaxRows \in Nat \ {0}
ASSUME RowsAssumption == Rows \subseteq LedgerRow
ASSUME ControlsAssumption == Controls \subseteq Control

VARIABLES
    control,   \* State.control of the platform
    rows,      \* the ledger rows of each request
    server,    \* where the request is at the platform
    applied,   \* the control that applies to it
    code,      \* what the platform decided for each row
    answer,    \* its HTTP response
    outcome    \* how HttpUploadClient.upload ended

vars == <<control, rows, server, applied, code, answer, outcome>>

-----------------------------------------------------------------------------
(* What the processor lets through, and the conversion built from it       *)

FullAddress == {"given_name", "family_name", "postal_code", "country"}

AnyAddress(hashed) ==    \* slip: a postal code without a country counts
    "email" \in hashed \/ "phone" \in hashed \/ "postal_code" \in hashed
HasMatchKey(hashed) ==
    "email" \in hashed \/ "phone" \in hashed \/ FullAddress \subseteq hashed

MayBeSent(row) == Permitted(row.consent) /\ (row.click \/ HasMatchKey(row.hashed))

(* _user_identifiers: each identifier an object of its own, an address     *)
(* only if it is complete.                                                 *)
UserIdentifiers(hashed) ==
    {{f} : f \in hashed \cap {"email", "phone"}} \cup
    IF FullAddress \subseteq hashed THEN {hashed \ {"email", "phone"}} ELSE {}

Conversion(row) ==
    LET identifiers == UserIdentifiers(row.hashed) IN
    [ conversionAction |-> row.action,
      gclid |-> row.click,
      userIdentifiers |-> identifiers,
      adUserData |-> IF identifiers = {} THEN "MISSING" ELSE row.consent.ad_user_data ]

-----------------------------------------------------------------------------
(* The platform                                                            *)

ValidateRow(conv) ==
    CASE conv.conversionAction = "illformed" -> "INVALID_CONVERSION_ACTION"
      [] conv.conversionAction = "unknown" -> "CONVERSION_ACTION_NOT_FOUND"
      [] conv.conversionAction = "known" ->
            IF ~conv.gclid /\ conv.userIdentifiers = {} THEN "USER_IDENTIFIER_REQUIRED"
            ELSE IF conv.userIdentifiers # {} /\ conv.adUserData # "GRANTED"
            THEN "CONSENT_REQUIRED_FOR_USER_IDENTIFIERS"
            ELSE "none"

Plain == [mode |-> "ok", fail |-> {}, limited |-> FALSE, times |-> 0]

(* State.take_control: the control for this request, and the one left.     *)
BelowZero(k) == k.limited /\ k.times < 0    \* slip: < for <=
Spent(k) == k.limited /\ k.times <= 0

Applied == IF Spent(control) THEN Plain ELSE control

Left == IF Spent(control) THEN Plain
        ELSE IF control.limited THEN [control EXCEPT !.times = @ - 1]
        ELSE control

(* Injected failures of a row go before its validation.                    *)
CodesOf(k, i, row) ==
    LET injected == {f.code : f \in {g \in k.fail : g.index = i}} IN
    IF injected = {} THEN {ValidateRow(Conversion(row))} ELSE injected

Response(status, json, results, errors) ==
    [status |-> status, json |-> json, results |-> results, errors |-> errors]
NoResponse == Response(0, FALSE, <<>>, {})

(* The result of each row, TRUE for one that was recorded, and the details *)
(* of the failures with the index of their row.                            *)
BatchResponse(codes) ==
    Response(200, TRUE, [i \in DOMAIN codes |-> codes[i] = "none"],
             {[index |-> i, code |-> codes[i]] : i \in {j \in DOMAIN codes : codes[j] # "none"}})

-----------------------------------------------------------------------------
(* The client                                                              *)

ClassifyHttp(status) ==
    IF status \in {408, 429, 500, 502, 503, 504} THEN "unavailable" ELSE "refused"

ClassifyRow(c) ==
    CASE c = "none" -> "ok"
      [] c = "TOO_RECENT_CONVERSION" -> "retryable"
      [] OTHER -> "rejected"

Told(end) == [end |-> end, results |-> <<>>]

(* The error detail of position i is the one whose location names it.      *)
FirstDetail(resp, i) ==    \* slip: any failure explains any row
    {d.code : d \in resp.errors}
DetailsOf(resp, i) == {d.code : d \in {x \in resp.errors : x.index = i}}

ErrorOf(resp, i) ==
    IF resp.results[i] THEN "none"
    ELSE IF DetailsOf(resp, i) = {} THEN "UNKNOWN"
    ELSE CHOOSE x \in DetailsOf(resp, i) : TRUE

WrongCount(resp, expected) == Len(resp.results) # expected

(* parse_batch_response, and the ends of upload around it.                 *)
Parse(resp, expected) ==
    CASE resp.status # 200 -> Told(ClassifyHttp(resp.status))
      [] resp.status = 200 /\ (~resp.json \/ WrongCount(resp, expected)) -> Told("unknown")
      [] OTHER ->
            [ end |-> "rows",
              results |-> [i \in DOMAIN resp.results |-> ClassifyRow(ErrorOf(resp, i))] ]

-----------------------------------------------------------------------------
(* The steps of a request                                                  *)

(* POST /control, and DELETE /control, which is the plain control.         *)
SetControl ==
    /\ control' \in Controls \cup {Plain}
    /\ UNCHANGED <<rows, server, applied, code, answer, outcome>>

Batches == UNION {[1..n -> {r \in Rows : MayBeSent(r)}] : n \in 1..MaxRows}

Post(c) ==
    /\ outcome[c] = Told("none")
    /\ \E b \in Batches : rows' = [rows EXCEPT ![c] = b]
    /\ server' = [server EXCEPT ![c] = "coming"]
    /\ outcome' = [outcome EXCEPT ![c] = Told("pending")]
    /\ UNCHANGED <<control, applied, code, answer>>

(* The request never reaches the platform.                                 *)
Lose(c) ==
    /\ server[c] = "coming"
    /\ server' = [server EXCEPT ![c] = "lost"]
    /\ UNCHANGED <<control, rows, applied, code, answer, outcome>>

(* The endpoint up to its first await: take the control and, if it is an   *)
(* HTTP status or a page that is not JSON, answer with that.               *)
Arrive(c) ==
    /\ server[c] = "coming"
    /\ control' = Left
    /\ IF Applied.mode \in {"ok", "timeout"}
       THEN /\ server' = [server EXCEPT ![c] = "working"]
            /\ applied' = [applied EXCEPT ![c] = Applied]
            /\ UNCHANGED answer
       ELSE /\ server' = [server EXCEPT ![c] = "declined"]
            /\ answer' = [answer EXCEPT ![c] =
                    IF Applied.mode = "malformed" THEN Response(200, FALSE, <<>>, {})
                    ELSE Response(HttpStatus[Applied.mode], TRUE, <<>>, {})]
            /\ UNCHANGED applied
    /\ UNCHANGED <<rows, code, outcome>>

(* The rest of it, at once or after timeout_seconds: decide about every    *)
(* row, record those without an error, answer.                             *)
Work(c) ==
    /\ server[c] = "working"
    /\ \E codes \in [DOMAIN rows[c] -> RowCodes] :
        /\ \A i \in DOMAIN rows[c] : codes[i] \in CodesOf(applied[c], i, rows[c][i])
        /\ code' = [code EXCEPT ![c] = codes]
        /\ answer' = [answer EXCEPT ![c] = BatchResponse(codes)]
    /\ server' = [server EXCEPT ![c] = "decided"]
    /\ applied' = [applied EXCEPT ![c] = Plain]
    /\ UNCHANGED <<control, rows, outcome>>

(* An answer that lacks the last result, or the details of a failure; one  *)
(* fault per answer bounds the model.                                      *)
Garble(c) ==
    /\ server[c] = "decided"
    /\ outcome[c] = Told("pending")
    /\ answer[c] = BatchResponse(code[c])
    /\ \/ /\ answer' = [answer EXCEPT ![c].results = SubSeq(@, 1, Len(@) - 1)]
       \/ \E d \in answer[c].errors : answer' = [answer EXCEPT ![c].errors = @ \ {d}]
    /\ UNCHANGED <<control, rows, server, applied, code, outcome>>

Receive(c) ==
    /\ outcome[c] = Told("pending")
    /\ server[c] \in {"declined", "decided"}
    /\ outcome' = [outcome EXCEPT ![c] = Parse(answer[c], Len(rows[c]))]
    /\ UNCHANGED <<control, rows, server, applied, code, answer>>

(* httpx.TimeoutException or TransportError, wherever the request is.      *)
GiveUp(c) ==
    /\ outcome[c] = Told("pending")
    /\ outcome' = [outcome EXCEPT ![c] = Told("unknown")]
    /\ UNCHANGED <<control, rows, server, applied, code, answer>>

Init ==
    /\ control \in {[Plain EXCEPT !.mode = m] : m \in Modes}
    /\ rows = [c \in Call |-> <<>>]
    /\ server = [c \in Call |-> "none"]
    /\ applied = [c \in Call |-> Plain]
    /\ code = [c \in Call |-> <<>>]
    /\ answer = [c \in Call |-> NoResponse]
    /\ outcome = [c \in Call |-> Told("none")]

Next ==
    \/ SetControl
    \/ \E c \in Call :
        \/ Post(c) \/ Lose(c) \/ Arrive(c) \/ Work(c) \/ Garble(c)
        \/ Receive(c) \/ GiveUp(c)

Spec == Init /\ [][Next]_vars

-----------------------------------------------------------------------------
(* Properties                                                              *)

Servers == {"none", "coming", "lost", "working", "declined", "decided"}
Ends == {"none", "pending", "rows", "unavailable", "refused", "unknown"}
Answers == [status : Nat, json : BOOLEAN, results : Seq(BOOLEAN),
            errors : SUBSET [index : Nat, code : RowCodes]]
Outcomes == [end : Ends, results : Seq({"ok", "retryable", "rejected"})]

(* The types; a limited control is counted down from its setting to zero   *)
(* and no further (State.take_control).                                    *)
TypeOK ==
    /\ control \in Control /\ (control.limited => control.times >= 0 \/ control \in Controls)
    /\ rows \in [Call -> Seq(Rows)]
    /\ server \in [Call -> Servers]
    /\ applied \in [Call -> Control]
    /\ code \in [Call -> Seq(RowCodes)]
    /\ answer \in [Call -> Answers]
    /\ outcome \in [Call -> Outcomes]

(* No row that passed the consent gate and the match-key test is refused   *)
(* for want of an identifier or of consent: the processor's test of what   *)
(* can be matched, the builder's choice of what to send and the platform's *)
(* validation agree (HashedIdentifiers.has_match_key, _user_identifiers,   *)
(* validate_row).                                                          *)
NoAvoidableRefusal ==
    \A c \in Call : \A i \in DOMAIN code[c] :
        code[c][i] \notin {"USER_IDENTIFIER_REQUIRED", "CONSENT_REQUIRED_FOR_USER_IDENTIFIERS"}

(* However requests overlap, fail, are injected with failures, or are      *)
(* answered late, garbled or not at all, the client keeps the promise of   *)
(* UploadClient: results on the right rows, "ok" exactly for what was      *)
(* recorded, and an HTTP error only for a request that records nothing     *)
(* (HttpUploadClient.upload, parse_batch_response, the mock's upload).     *)
Client == INSTANCE UploadClient
    WITH size <- [c \in Call |-> Len(rows[c])],
         judged <- {c \in Call : server[c] = "decided"},
         verdict <- [c \in Call |-> [i \in DOMAIN code[c] |-> ClassifyRow(code[c][i])]],
         outcome <- outcome

ImplementsClient == Client!Spec

=============================================================================
