-------------------------- MODULE UploadCallProofs --------------------------
(***************************************************************************)
(* Proofs about one upload request, for any rows, batches, injected        *)
(* failures and number of overlapping requests.                            *)
(***************************************************************************)
EXTENDS UploadCall, SequenceTheorems, TLAPS

-----------------------------------------------------------------------------
(* The row a gateway sends                                                 *)

(* A row the processor let through is matched by its click id or by an     *)
(* identifier, and carries consent with its identifiers.                   *)
LEMMA SentRowsCarryKeys ==
    ASSUME NEW row \in LedgerRow, MayBeSent(row)
    PROVE  LET conv == Conversion(row) IN
           /\ conv.conversionAction \in Actions
           /\ conv.gclid \/ conv.userIdentifiers # {}
           /\ conv.userIdentifiers # {} => conv.adUserData = "GRANTED"
<1>1. row.consent.ad_user_data = "GRANTED"
    BY DEF MayBeSent, Permitted, Decision, Blocks
<1>2. ASSUME ~row.click
      PROVE  UserIdentifiers(row.hashed) # {}
    <2>1. HasMatchKey(row.hashed)
        BY <1>2 DEF MayBeSent
    <2>2. CASE "email" \in row.hashed
        <3>1. {"email"} \in UserIdentifiers(row.hashed)
            BY <2>2 DEF UserIdentifiers
        <3> QED BY <3>1
    <2>3. CASE "phone" \in row.hashed
        <3>1. {"phone"} \in UserIdentifiers(row.hashed)
            BY <2>3 DEF UserIdentifiers
        <3> QED BY <3>1
    <2>4. CASE FullAddress \subseteq row.hashed
        <3>1. row.hashed \ {"email", "phone"} \in UserIdentifiers(row.hashed)
            BY <2>4 DEF UserIdentifiers
        <3> QED BY <3>1
    <2> QED BY <2>1, <2>2, <2>3, <2>4 DEF HasMatchKey
<1>3. row.click \in BOOLEAN /\ row.action \in Actions
    BY DEF LedgerRow
<1> QED BY <1>1, <1>2, <1>3 DEF Conversion

Refusals == {"INVALID_CONVERSION_ACTION", "CONVERSION_ACTION_NOT_FOUND"}

LEMMA SentRowsAreValid ==
    ASSUME NEW row \in LedgerRow, MayBeSent(row)
    PROVE  ValidateRow(Conversion(row)) \in {"none"} \cup Refusals
<1> DEFINE conv == Conversion(row)
<1>1. /\ conv.conversionAction \in Actions
      /\ conv.gclid \/ conv.userIdentifiers # {}
      /\ conv.userIdentifiers # {} => conv.adUserData = "GRANTED"
    BY SentRowsCarryKeys
<1> HIDE DEF conv
<1>2. ValidateRow(conv) \in {"none"} \cup Refusals
    BY <1>1 DEF ValidateRow, Actions, Refusals
<1> QED BY <1>2 DEF conv

(* What the platform may decide about such a row.                          *)
Decisions == {"none"} \cup Refusals \cup InjectedCodes

LEMMA SentRowsDecided ==
    ASSUME NEW row \in LedgerRow, MayBeSent(row), NEW k \in Control, NEW i \in Nat
    PROVE  CodesOf(k, i, row) \subseteq Decisions
<1>1. \A g \in k.fail : g.code \in InjectedCodes
    BY DEF Control
<1>2. ValidateRow(Conversion(row)) \in {"none"} \cup Refusals
    BY SentRowsAreValid
<1> QED BY <1>1, <1>2 DEF CodesOf, Decisions

-----------------------------------------------------------------------------
(* The inductive invariant                                                 *)

Sendable == {r \in Rows : MayBeSent(r)}

(* Where a request is at the platform says what is known of its rows.      *)
RequestOK(c) ==
    /\ rows[c] \in Seq(Sendable) /\ Len(rows[c]) <= MaxRows
    /\ IF server[c] = "none" THEN rows[c] = <<>> ELSE Len(rows[c]) > 0
    /\ code[c] \in Seq(Decisions)
    /\ server[c] = "decided" => Len(code[c]) = Len(rows[c])

(* Its answer tells of a row what was decided, or nothing.                 *)
Truthful(resp, codes) ==
    /\ resp.status = 200 /\ resp.json
    /\ Len(resp.results) <= Len(codes)
    /\ \A i \in 1..Len(resp.results) : resp.results[i] <=> codes[i] = "none"
    /\ \A d \in resp.errors :
        d.index \in 1..Len(codes) /\ d.code = codes[d.index] /\ d.code # "none"

AnswerOK(c) ==
    /\ server[c] = "declined" => answer[c].status # 200 \/ ~answer[c].json
    /\ server[c] = "decided" => Truthful(answer[c], code[c])

(* The caller is told more than "unknown" only by an answer.               *)
OutcomeOK(c) ==
    /\ outcome[c] = Told("none") <=> server[c] = "none"
    /\ outcome[c] \in {Told("none"), Told("pending"), Told("unknown")}
        \/ server[c] \in {"declined", "decided"}

CallOK(c) == RequestOK(c) /\ AnswerOK(c) /\ OutcomeOK(c)

Inv == TypeOK /\ \A c \in Call : CallOK(c)

LEMMA PlainTyped == Plain \in Control /\ ~Plain.limited
BY DEF Plain, Control, Modes

LEMMA InitOK == Init => Inv
<1> SUFFICES ASSUME Init PROVE Inv
    OBVIOUS
<1>1. /\ <<>> \in Seq(Rows) /\ <<>> \in Seq(RowCodes) /\ <<>> \in Seq(BOOLEAN)
      /\ <<>> \in Seq(Sendable) /\ <<>> \in Seq(Decisions)
      /\ <<>> \in Seq({"ok", "retryable", "rejected"}) /\ Len(<<>>) = 0
    BY EmptySeq
<1>2. control \in Control /\ ~control.limited
    BY PlainTyped DEF Init, Control, Plain
<1>3. NoResponse \in Answers /\ Told("none") \in Outcomes
    BY <1>1 DEF NoResponse, Response, Answers, Told, Outcomes, Ends
<1>4. TypeOK
    BY <1>1, <1>2, <1>3, PlainTyped DEF Init, TypeOK, Servers
<1>5. ASSUME NEW c \in Call PROVE CallOK(c)
    BY <1>1, MaxRowsAssumption
    DEF Init, CallOK, RequestOK, AnswerOK, OutcomeOK, Told
<1> QED BY <1>4, <1>5 DEF Inv

-----------------------------------------------------------------------------
(* Each step keeps the invariant.  A step of one request touches no other, *)
(* and the control only where it says so.                                  *)

LEMMA OthersKeepOK ==
    ASSUME NEW c \in Call, CallOK(c),
           rows'[c] = rows[c], server'[c] = server[c], code'[c] = code[c],
           answer'[c] = answer[c], outcome'[c] = outcome[c]
    PROVE  CallOK(c)'
BY DEF CallOK, RequestOK, AnswerOK, OutcomeOK

LEMMA SetControlOK == Inv /\ SetControl => Inv'
<1> SUFFICES ASSUME Inv, SetControl PROVE Inv'
    OBVIOUS
<1>1. TypeOK'
    BY PlainTyped, ControlsAssumption DEF Inv, TypeOK, SetControl
<1>2. ASSUME NEW c \in Call PROVE CallOK(c)'
    BY OthersKeepOK DEF Inv, SetControl
<1> QED BY <1>1, <1>2 DEF Inv

LEMMA BatchType ==
    ASSUME NEW b \in Batches
    PROVE  /\ b \in Seq(Sendable) /\ b \in Seq(Rows)
           /\ Len(b) \in 1..MaxRows
<1>1. PICK n \in 1..MaxRows : b \in [1..n -> Sendable]
    BY DEF Batches, Sendable
<1>2. n \in Nat /\ Sendable \subseteq Rows
    BY <1>1, MaxRowsAssumption DEF Sendable
<1>3. b \in Seq(Sendable) /\ Len(b) = n
    BY <1>1, <1>2
<1>4. b \in Seq(Rows)
    BY <1>1, <1>2
<1> QED BY <1>1, <1>3, <1>4

LEMMA PostOK == ASSUME NEW c \in Call PROVE Inv /\ Post(c) => Inv'
<1> SUFFICES ASSUME Inv, Post(c) PROVE Inv'
    OBVIOUS
<1>1. PICK b \in Batches : rows' = [rows EXCEPT ![c] = b]
    BY DEF Post
<1>2. b \in Seq(Sendable) /\ b \in Seq(Rows) /\ Len(b) \in 1..MaxRows
    BY BatchType
<1>3. Told("pending") \in Outcomes
    BY EmptySeq DEF Told, Outcomes, Ends
<1>4. TypeOK'
    BY <1>1, <1>2, <1>3 DEF Inv, TypeOK, Post, Servers
<1>5. /\ rows'[c] = b /\ server'[c] = "coming" /\ outcome'[c] = Told("pending")
      /\ code' = code
    BY <1>1 DEF Inv, TypeOK, Post
<1>6. CallOK(c)'
    BY <1>2, <1>5, MaxRowsAssumption
    DEF Inv, CallOK, RequestOK, AnswerOK, OutcomeOK, Told
<1>7. ASSUME NEW d \in Call, d # c PROVE CallOK(d)'
    BY <1>1, <1>7, OthersKeepOK DEF Inv, TypeOK, Post
<1> QED BY <1>4, <1>6, <1>7 DEF Inv

LEMMA LoseOK == ASSUME NEW c \in Call PROVE Inv /\ Lose(c) => Inv'
<1> SUFFICES ASSUME Inv, Lose(c) PROVE Inv'
    OBVIOUS
<1>1. TypeOK'
    BY DEF Inv, TypeOK, Lose, Servers
<1>2. server'[c] = "lost" /\ rows' = rows /\ code' = code /\ outcome' = outcome
    BY DEF Inv, TypeOK, Lose
<1>3. CallOK(c)'
    BY <1>2 DEF Inv, CallOK, RequestOK, AnswerOK, OutcomeOK, Lose
<1>4. ASSUME NEW d \in Call, d # c PROVE CallOK(d)'
    BY <1>4, OthersKeepOK DEF Inv, TypeOK, Lose
<1> QED BY <1>1, <1>3, <1>4 DEF Inv

(* take_control hands out and leaves behind controls of the same kind.     *)
LEMMA ControlsTaken ==
    ASSUME TypeOK
    PROVE  /\ Applied \in Control
           /\ Left \in Control
           /\ Left.limited => Left.times >= 0 \/ Left \in Controls
<1>1. Applied \in Control
    BY PlainTyped DEF TypeOK, Applied
<1>2. CASE Spent(control)
    <2>1. Left = Plain
        BY <1>2 DEF Left
    <2> QED BY <1>1, <2>1, PlainTyped
<1>3. CASE ~Spent(control) /\ control.limited
    <2>1. control.times \in Int /\ control.times > 0
        BY <1>3 DEF TypeOK, Control, Spent
    <2>2. Left = [mode |-> control.mode, fail |-> control.fail,
                  limited |-> control.limited, times |-> control.times - 1]
        BY <1>3 DEF TypeOK, Control, Left
    <2>3. /\ control.mode \in Modes /\ control.limited \in BOOLEAN
          /\ control.fail \in SUBSET [index : Nat, code : InjectedCodes]
        BY DEF TypeOK, Control
    <2>4. Left \in Control
        BY <2>1, <2>2, <2>3 DEF Control
    <2>5. Left.times >= 0
        BY <2>1, <2>2
    <2> QED BY <1>1, <2>4, <2>5
<1>4. CASE ~Spent(control) /\ ~control.limited
    <2>1. Left = control
        BY <1>4 DEF Left
    <2> QED BY <1>1, <2>1 DEF TypeOK
<1> QED BY <1>1, <1>2, <1>3, <1>4

LEMMA DeclinedAnswers ==
    ASSUME NEW m \in DOMAIN HttpStatus
    PROVE  /\ Response(HttpStatus[m], TRUE, <<>>, {}) \in Answers
           /\ Response(HttpStatus[m], TRUE, <<>>, {}).status # 200
<1>1. HttpStatus[m] \in {401, 429, 500, 503}
    BY DEF HttpStatus
<1> QED BY <1>1, EmptySeq DEF Response, Answers

LEMMA ArriveOK == ASSUME NEW c \in Call PROVE Inv /\ Arrive(c) => Inv'
<1> SUFFICES ASSUME Inv, Arrive(c) PROVE Inv'
    OBVIOUS
<1> USE DEF Inv
<1>1. /\ Applied \in Control /\ Left \in Control
      /\ Left.limited => Left.times >= 0 \/ Left \in Controls
    BY ControlsTaken
<1>2. ASSUME NEW d \in Call, d # c PROVE CallOK(d)'
    BY <1>2, OthersKeepOK DEF TypeOK, Arrive
<1>3. CASE Applied.mode \in {"ok", "timeout"}
    <2>1. /\ server' = [server EXCEPT ![c] = "working"] /\ answer' = answer
          /\ applied' = [applied EXCEPT ![c] = Applied]
        BY <1>3 DEF Arrive
    <2>2. TypeOK'
        BY <1>1, <2>1 DEF TypeOK, Arrive, Servers
    <2>3. CallOK(c)'
        BY <2>1 DEF TypeOK, CallOK, RequestOK, AnswerOK, OutcomeOK, Arrive
    <2> QED BY <1>2, <2>2, <2>3
<1>4. CASE Applied.mode \notin {"ok", "timeout"}
    <2> DEFINE resp == IF Applied.mode = "malformed" THEN Response(200, FALSE, <<>>, {})
                       ELSE Response(HttpStatus[Applied.mode], TRUE, <<>>, {})
    <2>1. /\ server' = [server EXCEPT ![c] = "declined"] /\ applied' = applied
          /\ answer' = [answer EXCEPT ![c] = resp]
        BY <1>4 DEF Arrive
    <2>2. resp \in Answers /\ (resp.status # 200 \/ ~resp.json)
        <3>1. CASE Applied.mode = "malformed"
            <4>1. resp = Response(200, FALSE, <<>>, {})
                BY <3>1
            <4>2. Response(200, FALSE, <<>>, {}) \in Answers
                BY EmptySeq DEF Response, Answers
            <4>3. ~Response(200, FALSE, <<>>, {}).json
                BY DEF Response
            <4> QED BY <4>1, <4>2, <4>3
        <3>2. CASE Applied.mode # "malformed"
            <4>1. Applied.mode \in DOMAIN HttpStatus
                BY <1>1, <1>4, <3>2 DEF Control, Modes
            <4>2. resp = Response(HttpStatus[Applied.mode], TRUE, <<>>, {})
                BY <3>2
            <4> HIDE DEF resp
            <4> QED BY <4>1, <4>2, DeclinedAnswers
        <3> QED BY <3>1, <3>2
    <2> HIDE DEF resp
    <2>3. TypeOK'
        BY <1>1, <2>1, <2>2 DEF TypeOK, Arrive, Servers
    <2>4. CallOK(c)'
        BY <2>1, <2>2 DEF TypeOK, CallOK, RequestOK, AnswerOK, OutcomeOK, Arrive
    <2> QED BY <1>2, <2>3, <2>4
<1> QED BY <1>3, <1>4

(* The answer the platform gives tells the truth about every row.          *)
LEMMA AnswersAreTrue ==
    ASSUME NEW codes \in Seq(RowCodes)
    PROVE  /\ BatchResponse(codes) \in Answers
           /\ Truthful(BatchResponse(codes), codes)
           /\ Len(BatchResponse(codes).results) = Len(codes)
<1> DEFINE results == [i \in DOMAIN codes |-> codes[i] = "none"]
           errors == {[index |-> i, code |-> codes[i]] :
                        i \in {j \in DOMAIN codes : codes[j] # "none"}}
<1>1. /\ DOMAIN codes = 1..Len(codes) /\ Len(codes) \in Nat
      /\ \A i \in 1..Len(codes) : codes[i] \in RowCodes
    BY LenProperties, ElementOfSeq
<1>2. results \in Seq(BOOLEAN) /\ Len(results) = Len(codes)
    <2>1. results \in [1..Len(codes) -> BOOLEAN]
        BY <1>1
    <2> QED BY <1>1, <2>1
<1>3. errors \subseteq [index : Nat, code : RowCodes]
    BY <1>1
<1>4. BatchResponse(codes) = [status |-> 200, json |-> TRUE,
                              results |-> results, errors |-> errors]
    BY DEF BatchResponse, Response
<1>5. BatchResponse(codes) \in Answers
    BY <1>2, <1>3, <1>4 DEF Answers
<1>6. \A i \in 1..Len(results) : results[i] <=> codes[i] = "none"
    BY <1>1, <1>2
<1>7. \A d \in errors :
        d.index \in 1..Len(codes) /\ d.code = codes[d.index] /\ d.code # "none"
    BY <1>1
<1> HIDE DEF results, errors
<1>8. Truthful(BatchResponse(codes), codes)
    BY <1>1, <1>2, <1>4, <1>6, <1>7 DEF Truthful
<1> QED BY <1>2, <1>4, <1>5, <1>8

LEMMA WorkOK == ASSUME NEW c \in Call PROVE Inv /\ Work(c) => Inv'
<1> SUFFICES ASSUME Inv, Work(c) PROVE Inv'
    OBVIOUS
<1>1. PICK codes \in [DOMAIN rows[c] -> RowCodes] :
        /\ \A i \in DOMAIN rows[c] : codes[i] \in CodesOf(applied[c], i, rows[c][i])
        /\ code' = [code EXCEPT ![c] = codes]
        /\ answer' = [answer EXCEPT ![c] = BatchResponse(codes)]
    BY DEF Work
<1>2. rows[c] \in Seq(Sendable) /\ applied[c] \in Control
    BY DEF Inv, TypeOK, CallOK, RequestOK
<1>3. /\ DOMAIN rows[c] = 1..Len(rows[c]) /\ Len(rows[c]) \in Nat
      /\ \A i \in 1..Len(rows[c]) : rows[c][i] \in Sendable
    BY <1>2, LenProperties, ElementOfSeq
<1>4. codes \in Seq(RowCodes) /\ Len(codes) = Len(rows[c])
    BY <1>1, <1>3
<1>5. codes \in Seq(Decisions)
    <2>1. ASSUME NEW i \in 1..Len(rows[c]) PROVE codes[i] \in Decisions
        <3>1. rows[c][i] \in LedgerRow /\ MayBeSent(rows[c][i]) /\ i \in Nat
            BY <1>3, RowsAssumption DEF Sendable
        <3>2. CodesOf(applied[c], i, rows[c][i]) \subseteq Decisions
            BY <1>2, <3>1, SentRowsDecided
        <3> QED BY <1>1, <1>3, <3>2
    <2>2. codes \in [1..Len(rows[c]) -> Decisions]
        BY <1>1, <1>3, <2>1
    <2> QED BY <1>3, <2>2
<1>6. BatchResponse(codes) \in Answers /\ Truthful(BatchResponse(codes), codes)
    BY <1>4, AnswersAreTrue
<1>7. TypeOK'
    BY <1>1, <1>4, <1>6, PlainTyped DEF Inv, TypeOK, Work, Servers
<1>8. /\ server[c] = "working" /\ server'[c] = "decided" /\ rows' = rows
      /\ outcome' = outcome /\ code'[c] = codes /\ answer'[c] = BatchResponse(codes)
    BY <1>1 DEF Inv, TypeOK, Work
<1>9. CallOK(c)'
    BY <1>4, <1>5, <1>6, <1>8 DEF Inv, CallOK, RequestOK, AnswerOK, OutcomeOK
<1>10. ASSUME NEW d \in Call, d # c PROVE CallOK(d)'
    BY <1>1, <1>10, OthersKeepOK DEF Inv, TypeOK, Work
<1> QED BY <1>7, <1>9, <1>10 DEF Inv

LEMMA GarbleOK == ASSUME NEW c \in Call PROVE Inv /\ Garble(c) => Inv'
<1> SUFFICES ASSUME Inv, Garble(c) PROVE Inv'
    OBVIOUS
<1>1. /\ server[c] = "decided" /\ answer[c] \in Answers /\ Truthful(answer[c], code[c])
      /\ code[c] \in Seq(RowCodes) /\ Len(code[c]) = Len(rows[c]) /\ Len(rows[c]) > 0
    BY DEF Inv, TypeOK, CallOK, RequestOK, AnswerOK, Garble
<1>2. answer[c].results \in Seq(BOOLEAN) /\ Len(answer[c].results) > 0
    BY <1>1, AnswersAreTrue DEF Answers, Garble
<1> DEFINE short == SubSeq(answer[c].results, 1, Len(answer[c].results) - 1)
<1>3. /\ short \in Seq(BOOLEAN) /\ Len(short) = Len(answer[c].results) - 1
      /\ \A i \in 1..Len(short) : short[i] = answer[c].results[i]
    BY <1>2, SubSeqProperties, ElementOfSeq
<1> HIDE DEF short
<1>4. \E resp \in Answers :
        answer' = [answer EXCEPT ![c] = resp] /\ Truthful(resp, code[c])
    <2>1. CASE answer' = [answer EXCEPT ![c].results = SubSeq(@, 1, Len(@) - 1)]
        <3> DEFINE resp == [answer[c] EXCEPT !.results = short]
        <3>1. resp \in Answers
            BY <1>1, <1>3 DEF Answers
        <3>2. /\ resp.status = answer[c].status /\ resp.json = answer[c].json
              /\ resp.errors = answer[c].errors /\ resp.results = short
            BY <1>1 DEF Answers
        <3>3. answer' = [answer EXCEPT ![c] = resp]
            BY <2>1 DEF short
        <3> HIDE DEF resp
        <3>4. Len(short) <= Len(code[c]) /\ 1..Len(short) \subseteq 1..Len(answer[c].results)
            BY <1>1, <1>2, <1>3 DEF Truthful
        <3>5. Truthful(resp, code[c])
            BY <1>1, <1>3, <3>2, <3>4 DEF Truthful
        <3> QED BY <3>1, <3>3, <3>5
    <2>2. ASSUME NEW d \in answer[c].errors,
                 answer' = [answer EXCEPT ![c].errors = @ \ {d}]
          PROVE  \E resp \in Answers :
                    answer' = [answer EXCEPT ![c] = resp] /\ Truthful(resp, code[c])
        <3> DEFINE resp == [answer[c] EXCEPT !.errors = @ \ {d}]
        <3>1. resp \in Answers
            BY <1>1 DEF Answers
        <3>2. Truthful(resp, code[c])
            BY <1>1 DEF Answers, Truthful
        <3>3. answer' = [answer EXCEPT ![c] = resp]
            BY <2>2
        <3> QED BY <3>1, <3>2, <3>3
    <2> QED BY <2>1, <2>2 DEF Garble
<1>5. PICK resp \in Answers :
        answer' = [answer EXCEPT ![c] = resp] /\ Truthful(resp, code[c])
    BY <1>4
<1>6. TypeOK'
    BY <1>5 DEF Inv, TypeOK, Garble
<1>7. CallOK(c)'
    BY <1>1, <1>5 DEF Inv, TypeOK, CallOK, RequestOK, AnswerOK, OutcomeOK, Garble
<1>8. ASSUME NEW d \in Call, d # c PROVE CallOK(d)'
    BY <1>5, <1>8, OthersKeepOK DEF Inv, TypeOK, Garble
<1> QED BY <1>6, <1>7, <1>8 DEF Inv

-----------------------------------------------------------------------------
(* Reading the answer                                                      *)

RowResults == {"ok", "retryable", "rejected"}

(* An HTTP status or an unreadable page never yields row results.          *)
LEMMA ParseOfDeclined ==
    ASSUME NEW resp \in Answers, NEW n \in Nat, resp.status # 200 \/ ~resp.json
    PROVE  Parse(resp, n) \in {Told("unavailable"), Told("refused"), Told("unknown")}
           /\ (Parse(resp, n) # Told("unknown") => resp.status # 200)
<1>1. CASE resp.status # 200
    <2>1. Parse(resp, n) = Told(ClassifyHttp(resp.status))
        BY <1>1 DEF Parse
    <2>2. ClassifyHttp(resp.status) \in {"unavailable", "refused"}
        BY DEF ClassifyHttp
    <2> QED BY <1>1, <2>1, <2>2
<1>2. CASE resp.status = 200
    <2>1. Parse(resp, n) = Told("unknown")
        BY <1>2 DEF Parse
    <2> QED BY <2>1
<1> QED BY <1>1, <1>2

(* A truthful answer of the right length yields, row by row, what was      *)
(* decided; any other is given up.                                         *)
LEMMA ParseOfTruth ==
    ASSUME NEW codes \in Seq(RowCodes), NEW resp \in Answers, Truthful(resp, codes)
    PROVE  \/ Parse(resp, Len(codes)) = Told("unknown")
           \/ \E r \in [1..Len(codes) -> RowResults] :
                /\ Parse(resp, Len(codes)) = [end |-> "rows", results |-> r]
                /\ \A i \in 1..Len(codes) :
                    /\ r[i] = "ok" <=> ClassifyRow(codes[i]) = "ok"
                    /\ r[i] = "retryable" => ClassifyRow(codes[i]) = "retryable"
<1>1. resp.status = 200 /\ resp.json
    BY DEF Truthful
<1>2. CASE WrongCount(resp, Len(codes))
    BY <1>1, <1>2 DEF Parse
<1>3. CASE ~WrongCount(resp, Len(codes))
    <2> DEFINE r == [i \in DOMAIN resp.results |-> ClassifyRow(ErrorOf(resp, i))]
    <2>1. Parse(resp, Len(codes)) = [end |-> "rows", results |-> r]
        BY <1>1, <1>3 DEF Parse
    <2>2. DOMAIN resp.results = 1..Len(codes)
        <3>1. resp.results \in Seq(BOOLEAN)
            BY DEF Answers
        <3> QED BY <1>3, <3>1, LenProperties DEF WrongCount
    <2>3. ASSUME NEW i \in 1..Len(codes)
          PROVE  /\ r[i] \in RowResults
                 /\ r[i] = "ok" <=> ClassifyRow(codes[i]) = "ok"
                 /\ r[i] = "retryable" => ClassifyRow(codes[i]) = "retryable"
        <3>1. r[i] = ClassifyRow(ErrorOf(resp, i))
            BY <2>2
        <3>2. resp.results[i] <=> codes[i] = "none"
            BY <1>3 DEF Truthful, WrongCount
        <3>3. DetailsOf(resp, i) \subseteq {codes[i]}
            BY DEF Truthful, DetailsOf
        <3>4. CASE codes[i] = "none"
            BY <3>1, <3>2, <3>4 DEF ErrorOf, ClassifyRow, RowResults
        <3>5. CASE codes[i] # "none"
            <4>1. ErrorOf(resp, i) \in {"UNKNOWN", codes[i]}
                <5>1. CASE DetailsOf(resp, i) = {}
                    BY <3>2, <3>5, <5>1 DEF ErrorOf
                <5>2. CASE DetailsOf(resp, i) # {}
                    <6>1. (CHOOSE x \in DetailsOf(resp, i) : TRUE) \in DetailsOf(resp, i)
                        BY <5>2
                    <6>2. ErrorOf(resp, i) = CHOOSE x \in DetailsOf(resp, i) : TRUE
                        BY <3>2, <3>5, <5>2 DEF ErrorOf
                    <6> QED BY <3>3, <6>1, <6>2
                <5> QED BY <5>1, <5>2
            <4>2. ClassifyRow("UNKNOWN") = "rejected"
                BY DEF ClassifyRow
            <4>3. ClassifyRow(codes[i]) \in {"retryable", "rejected"}
                BY <3>5 DEF ClassifyRow
            <4> QED BY <3>1, <4>1, <4>2, <4>3 DEF RowResults
        <3> QED BY <3>4, <3>5
    <2>4. r \in [1..Len(codes) -> RowResults]
        BY <2>2, <2>3
    <2> QED BY <2>1, <2>3, <2>4
<1> QED BY <1>2, <1>3

LEMMA ToldType ==
    ASSUME NEW end \in Ends
    PROVE  Told(end) \in Outcomes
BY EmptySeq DEF Told, Outcomes

LEMMA ReceiveOK == ASSUME NEW c \in Call PROVE Inv /\ Receive(c) => Inv'
<1> SUFFICES ASSUME Inv, Receive(c) PROVE Inv'
    OBVIOUS
<1>1. /\ answer[c] \in Answers /\ code[c] \in Seq(RowCodes) /\ Len(rows[c]) \in Nat
      /\ server[c] \in {"declined", "decided"} /\ RequestOK(c) /\ AnswerOK(c)
    BY LenProperties DEF Inv, TypeOK, CallOK, Receive
<1>2. Parse(answer[c], Len(rows[c])) \in Outcomes
    <2>1. CASE server[c] = "declined"
        BY <1>1, <2>1, ParseOfDeclined, ToldType DEF AnswerOK, Ends
    <2>2. CASE server[c] = "decided"
        <3>1. Truthful(answer[c], code[c]) /\ Len(code[c]) = Len(rows[c])
            BY <1>1, <2>2 DEF RequestOK, AnswerOK
        <3>2. CASE Parse(answer[c], Len(code[c])) = Told("unknown")
            BY <3>1, <3>2, ToldType DEF Ends
        <3>3. ASSUME NEW r \in [1..Len(code[c]) -> RowResults],
                     Parse(answer[c], Len(code[c])) = [end |-> "rows", results |-> r]
              PROVE  Parse(answer[c], Len(rows[c])) \in Outcomes
            <4>1. r \in Seq({"ok", "retryable", "rejected"})
                BY <1>1, <3>1 DEF RowResults
            <4> QED BY <3>1, <3>3, <4>1 DEF Outcomes, Ends
        <3> QED BY <1>1, <3>1, <3>2, <3>3, ParseOfTruth
    <2> QED BY <1>1, <2>1, <2>2
<1>3. outcome' = [outcome EXCEPT ![c] = Parse(answer[c], Len(rows[c]))]
    BY DEF Receive
<1>4. TypeOK'
    BY <1>2, <1>3 DEF Inv, TypeOK, Receive
<1>5. Parse(answer[c], Len(rows[c])) # Told("none")
    <2>1. Parse(answer[c], Len(rows[c])).end # "none"
        BY <1>1 DEF Parse, Told, ClassifyHttp
    <2> QED BY <2>1 DEF Told
<1>6. CallOK(c)'
    BY <1>1, <1>3, <1>5
    DEF Inv, TypeOK, CallOK, RequestOK, AnswerOK, OutcomeOK, Receive
<1>7. ASSUME NEW d \in Call, d # c PROVE CallOK(d)'
    BY <1>3, <1>7, OthersKeepOK DEF Inv, TypeOK, Receive
<1> QED BY <1>4, <1>6, <1>7 DEF Inv

LEMMA GiveUpOK == ASSUME NEW c \in Call PROVE Inv /\ GiveUp(c) => Inv'
<1> SUFFICES ASSUME Inv, GiveUp(c) PROVE Inv'
    OBVIOUS
<1>1. outcome' = [outcome EXCEPT ![c] = Told("unknown")] /\ Told("unknown") \in Outcomes
    BY ToldType DEF GiveUp, Ends
<1>2. TypeOK'
    BY <1>1 DEF Inv, TypeOK, GiveUp
<1>3. CallOK(c)'
    BY <1>1 DEF Inv, TypeOK, CallOK, RequestOK, AnswerOK, OutcomeOK, GiveUp, Told
<1>4. ASSUME NEW d \in Call, d # c PROVE CallOK(d)'
    BY <1>1, <1>4, OthersKeepOK DEF Inv, TypeOK, GiveUp
<1> QED BY <1>2, <1>3, <1>4 DEF Inv

LEMMA StepOK == Inv /\ [Next]_vars => Inv'
<1> SUFFICES ASSUME Inv, [Next]_vars PROVE Inv'
    OBVIOUS
<1>1. CASE UNCHANGED vars
    <2>1. TypeOK'
        BY <1>1 DEF Inv, TypeOK, vars
    <2>2. ASSUME NEW c \in Call PROVE CallOK(c)'
        BY <1>1, OthersKeepOK DEF Inv, vars
    <2> QED BY <2>1, <2>2 DEF Inv
<1>2. CASE SetControl
    BY <1>2, SetControlOK
<1>3. ASSUME NEW c \in Call,
             Post(c) \/ Lose(c) \/ Arrive(c) \/ Work(c) \/ Garble(c)
                \/ Receive(c) \/ GiveUp(c)
      PROVE  Inv'
    BY <1>3, PostOK, LoseOK, ArriveOK, WorkOK, GarbleOK, ReceiveOK, GiveUpOK
<1> QED BY <1>1, <1>2, <1>3 DEF Next

LEMMA Invariance == Spec => []Inv
BY InitOK, StepOK, PTL DEF Spec

-----------------------------------------------------------------------------
(* Theorems                                                                *)

(* Control, requests, answers and outcomes keep their types, and a limited *)
(* control is never counted below zero (State.take_control).               *)
THEOREM TypeCorrect == Spec => []TypeOK
<1>1. Inv => TypeOK
    BY DEF Inv
<1> QED BY <1>1, Invariance, PTL

(* No row the processor let through is refused for want of an identifier   *)
(* or of consent, whatever its fields and its click id: has_match_key,     *)
(* _user_identifiers and validate_row agree.                               *)
THEOREM NeverAvoidablyRefused == Spec => []NoAvoidableRefusal
<1>1. Inv => NoAvoidableRefusal
    <2> SUFFICES ASSUME Inv, NEW c \in Call, NEW i \in DOMAIN code[c]
                 PROVE  code[c][i] \notin {"USER_IDENTIFIER_REQUIRED",
                                           "CONSENT_REQUIRED_FOR_USER_IDENTIFIERS"}
        BY DEF NoAvoidableRefusal
    <2>1. code[c] \in Seq(Decisions)
        BY DEF Inv, CallOK, RequestOK
    <2>2. code[c][i] \in Decisions
        BY <2>1, LenProperties, ElementOfSeq
    <2> QED BY <2>2 DEF Decisions, Refusals, InjectedCodes
<1> QED BY <1>1, Invariance, PTL

-----------------------------------------------------------------------------
(* The client implements UploadClient                                      *)

(* What UploadClient sees of the rows and of the platform.                 *)
Sizes == [c \in Call |-> Len(rows[c])]
Judged == {c \in Call : server[c] = "decided"}
VerdictOf(codes) == [i \in DOMAIN codes |-> ClassifyRow(codes[i])]
Verdicts == [c \in Call |-> VerdictOf(code[c])]

LEMMA InitMaps == Init => Client!Init
<1> SUFFICES ASSUME Init PROVE Client!Init
    OBVIOUS
<1>1. Sizes = [c \in Call |-> 0]
    BY EmptySeq DEF Sizes, Init
<1>2. Judged = {}
    BY DEF Judged, Init
<1>3. VerdictOf(<<>>) = <<>>
    <2>1. DOMAIN VerdictOf(<<>>) = 1..0
        BY DEF VerdictOf
    <2>2. VerdictOf(<<>>) \in Seq(RowResults) /\ Len(VerdictOf(<<>>)) = 0
        BY <2>1 DEF VerdictOf
    <2> QED BY <2>2, EmptySeq
<1>4. Verdicts = [c \in Call |-> <<>>]
    BY <1>3 DEF Verdicts, Init
<1>5. outcome = [c \in Call |-> Told("none")]
    BY DEF Init
<1> QED BY <1>1, <1>2, <1>4, <1>5
    DEF Client!Init, Sizes, Judged, Verdicts, VerdictOf, Told, Client!Told

(* A step that changes none of what UploadClient sees.                     *)
LEMMA Unseen ==
    ASSUME rows' = rows, code' = code, outcome' = outcome, Judged' = Judged
    PROVE  UNCHANGED Client!vars
BY DEF Client!vars, Judged

LEMMA PostMaps ==
    ASSUME Inv, NEW c \in Call, Post(c)
    PROVE  Client!Begin(c)
<1>1. PICK b \in Batches : rows' = [rows EXCEPT ![c] = b]
    BY DEF Post
<1>2. Len(b) \in 1..MaxRows
    BY BatchType
<1>3. Sizes' = [Sizes EXCEPT ![c] = Len(b)]
    BY <1>1 DEF Sizes, Inv, TypeOK
<1>4. outcome[c] = Told("none") /\ outcome' = [outcome EXCEPT ![c] = Told("pending")]
    BY DEF Post
<1>5. server[c] = "none" /\ server' = [server EXCEPT ![c] = "coming"]
    BY <1>4 DEF Inv, CallOK, OutcomeOK, Post
<1>6. Judged' = Judged
    BY <1>5 DEF Judged, Inv, TypeOK
<1>7. Verdicts' = Verdicts
    BY DEF Verdicts, Post
<1> QED BY <1>2, <1>3, <1>4, <1>6, <1>7
    DEF Client!Begin, Sizes, Judged, Verdicts, VerdictOf, Told, Client!Told

LEMMA WorkMaps ==
    ASSUME Inv, NEW c \in Call, Work(c)
    PROVE  Client!Judge(c)
<1>1. PICK codes \in [DOMAIN rows[c] -> RowCodes] : code' = [code EXCEPT ![c] = codes]
    BY DEF Work
<1>2. server[c] = "working" /\ server' = [server EXCEPT ![c] = "decided"]
    BY DEF Work
<1>3. outcome[c] \in {Told("pending"), Told("unknown")} /\ outcome' = outcome
    BY <1>2 DEF Inv, CallOK, OutcomeOK, Work
<1>4. c \notin Judged /\ Judged' = Judged \cup {c}
    BY <1>2 DEF Judged, Inv, TypeOK
<1>5. DOMAIN rows[c] = 1..Sizes[c]
    BY LenProperties DEF Sizes, Inv, TypeOK
<1>6. VerdictOf(codes) \in [1..Sizes[c] -> RowResults]
    <2>1. \A x : ClassifyRow(x) \in RowResults
        BY DEF ClassifyRow, RowResults
    <2> QED BY <1>1, <1>5, <2>1 DEF VerdictOf
<1>7. Verdicts' = [Verdicts EXCEPT ![c] = VerdictOf(codes)]
    BY <1>1 DEF Verdicts, Inv, TypeOK
<1>8. Sizes' = Sizes
    BY DEF Sizes, Work
<1> QED BY <1>3, <1>4, <1>6, <1>7, <1>8
    DEF Client!Judge, Client!Position, Client!RowResults, RowResults,
        Sizes, Judged, Verdicts, VerdictOf, Told, Client!Told

LEMMA ReceiveMaps ==
    ASSUME Inv, NEW c \in Call, Receive(c)
    PROVE  Client!Return(c) \/ Client!Fail(c) \/ Client!GiveUp(c)
<1>1. /\ outcome[c] = Told("pending") /\ server[c] \in {"declined", "decided"}
      /\ outcome' = [outcome EXCEPT ![c] = Parse(answer[c], Len(rows[c]))]
    BY DEF Receive
<1>2. UNCHANGED <<Sizes, Judged, Verdicts>>
    BY DEF Sizes, Judged, Verdicts, Receive
<1>3. /\ answer[c] \in Answers /\ code[c] \in Seq(RowCodes) /\ Len(rows[c]) \in Nat
      /\ RequestOK(c) /\ AnswerOK(c)
    BY LenProperties DEF Inv, TypeOK, CallOK
<1>4. CASE Parse(answer[c], Len(rows[c])) = Told("unknown")
    BY <1>1, <1>2, <1>4
    DEF Client!GiveUp, Sizes, Judged, Verdicts, VerdictOf, Told, Client!Told
<1>5. CASE server[c] = "declined" /\ Parse(answer[c], Len(rows[c])) # Told("unknown")
    <2>1. \E end \in {"unavailable", "refused"} :
            outcome' = [outcome EXCEPT ![c] = Told(end)]
        BY <1>1, <1>3, <1>5, ParseOfDeclined DEF AnswerOK
    <2>2. c \notin Judged
        BY <1>5 DEF Judged
    <2> QED BY <1>1, <1>2, <2>1, <2>2
        DEF Client!Fail, Sizes, Judged, Verdicts, VerdictOf, Told, Client!Told
<1>6. CASE server[c] = "decided" /\ Parse(answer[c], Len(rows[c])) # Told("unknown")
    <2>1. Truthful(answer[c], code[c]) /\ Len(code[c]) = Len(rows[c]) /\ c \in Judged
        BY <1>3, <1>6 DEF RequestOK, AnswerOK, Judged
    <2>2. PICK r \in [1..Len(code[c]) -> RowResults] :
            /\ Parse(answer[c], Len(code[c])) = [end |-> "rows", results |-> r]
            /\ \A i \in 1..Len(code[c]) :
                /\ r[i] = "ok" <=> ClassifyRow(code[c][i]) = "ok"
                /\ r[i] = "retryable" => ClassifyRow(code[c][i]) = "retryable"
        <3>1. /\ code[c] \in Seq(RowCodes) /\ answer[c] \in Answers
              /\ Truthful(answer[c], code[c])
              /\ Parse(answer[c], Len(code[c])) # Told("unknown")
            BY <1>3, <1>6, <2>1
        <3> QED BY <3>1, ParseOfTruth
    <2>3. Sizes[c] = Len(code[c]) /\ DOMAIN code[c] = 1..Len(code[c])
        BY <1>3, <2>1, LenProperties DEF Sizes
    <2>4. \A i \in 1..Sizes[c] : Verdicts[c][i] = ClassifyRow(code[c][i])
        BY <2>3 DEF Verdicts, VerdictOf
    <2>5. r \in [1..Sizes[c] -> RowResults]
        BY <2>3
    <2>6. \A i \in 1..Sizes[c] : /\ r[i] = "ok" <=> Verdicts[c][i] = "ok"
                                 /\ r[i] = "retryable" => Verdicts[c][i] = "retryable"
        BY <2>2, <2>3, <2>4
    <2>7. outcome' = [outcome EXCEPT ![c] = [end |-> "rows", results |-> r]]
        BY <1>1, <2>1, <2>2
    <2> QED BY <1>1, <1>2, <2>1, <2>5, <2>6, <2>7
        DEF Client!Return, Client!Position, Client!RowResults, RowResults,
            Sizes, Judged, Verdicts, VerdictOf, Told, Client!Told
<1> QED BY <1>1, <1>4, <1>5, <1>6

LEMMA GiveUpMaps ==
    ASSUME Inv, NEW c \in Call, GiveUp(c)
    PROVE  Client!GiveUp(c)
<1>1. UNCHANGED <<Sizes, Judged, Verdicts>>
    BY DEF Sizes, Judged, Verdicts, GiveUp
<1> QED BY <1>1
    DEF GiveUp, Client!GiveUp, Sizes, Judged, Verdicts, VerdictOf, Told, Client!Told

LEMMA StepMaps == Inv /\ [Next]_vars => [Client!Next]_(Client!vars)
<1> SUFFICES ASSUME Inv, [Next]_vars PROVE [Client!Next]_(Client!vars)
    OBVIOUS
<1>1. CASE UNCHANGED vars
    BY <1>1, Unseen DEF vars, Judged
<1>2. CASE SetControl
    BY <1>2, Unseen DEF SetControl, Judged
<1>3. ASSUME NEW c \in Call, Lose(c) \/ Arrive(c) \/ Garble(c)
      PROVE  UNCHANGED Client!vars
    <2>1. rows' = rows /\ code' = code /\ outcome' = outcome
        BY <1>3 DEF Lose, Arrive, Garble
    <2>2. Judged' = Judged
        BY <1>3 DEF Judged, Lose, Arrive, Garble, Inv, TypeOK
    <2> QED BY <2>1, <2>2, Unseen
<1>4. ASSUME NEW c \in Call, Post(c) \/ Work(c) \/ Receive(c) \/ GiveUp(c)
      PROVE  Client!Next
    BY <1>4, PostMaps, WorkMaps, ReceiveMaps, GiveUpMaps DEF Client!Next
<1> QED BY <1>1, <1>2, <1>3, <1>4 DEF Next

(* The HTTP client, the platform and everything that can go wrong between  *)
(* them keep the promise of UploadClient: results on the right rows, "ok"  *)
(* exactly for what was recorded, and an HTTP error only for a request     *)
(* that records nothing (HttpUploadClient.upload, parse_batch_response).   *)
THEOREM CallImplementsClient == Spec => ImplementsClient
BY InitMaps, StepMaps, Invariance, PTL DEF Spec, ImplementsClient, Client!Spec
=============================================================================
