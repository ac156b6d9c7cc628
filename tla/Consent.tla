------------------------------ MODULE Consent -------------------------------
(***************************************************************************)
(* The consent gate (gateway/consent/gate.py): a pure function of the two  *)
(* consent signals a lead arrived with.                                    *)
(***************************************************************************)

Signals == {"GRANTED", "DENIED", "UNSPECIFIED", "MISSING"}
Consents == [ad_user_data : Signals, ad_personalization : Signals]

(* Anything but an explicit GRANTED blocks.                                *)
OnlyDenied(signal) == signal = "DENIED"    \* slip: fails open
Blocks(signal) == signal # "GRANTED"

(* evaluate_consent: ad_user_data is asked first and names the reason.     *)
Decision(consent) ==
    IF Blocks(consent.ad_user_data)
    THEN [permitted |-> FALSE, reason |-> <<"ad_user_data", consent.ad_user_data>>]
    ELSE IF Blocks(consent.ad_personalization)
    THEN [permitted |-> FALSE,
          reason |-> <<"ad_personalization", consent.ad_personalization>>]
    ELSE [permitted |-> TRUE, reason |-> <<"none", "GRANTED">>]

Permitted(consent) == Decision(consent).permitted

=============================================================================
