---------------------------- MODULE MCUploadCall ----------------------------
(* An instance of the upload request for TLC: a full address alone, a      *)
(* click with an e-mail digest and half an address under an action the     *)
(* platform does not know, and half an address alone, which the processor  *)
(* rejects.                                                                *)
EXTENDS UploadCall, TLC

CONSTANTS c1, c2

Granted == [ad_user_data |-> "GRANTED", ad_personalization |-> "GRANTED"]
Row(action, click, hashed) ==
    [action |-> action, click |-> click, hashed |-> hashed, consent |-> Granted]

HalfAddress == {"given_name", "family_name", "postal_code"}

MCRows == { Row("known", FALSE, FullAddress),
            Row("unknown", TRUE, HalfAddress \cup {"email"}),
            Row("known", FALSE, HalfAddress) }

Fails(mode) == [Plain EXCEPT !.mode = mode]
Once(k) == [k EXCEPT !.limited = TRUE, !.times = 1]
FirstRow(x) == [Plain EXCEPT !.fail = {[index |-> 1, code |-> x]}]

MCControls == { Fails("http_401"), Once(Fails("http_429")), Once(Fails("malformed")),
                Once(FirstRow("TOO_RECENT_CONVERSION")) }

Symmetry == Permutations(Call)
=============================================================================
