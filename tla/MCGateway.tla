------------------------------ MODULE MCGateway -----------------------------
(* Instances of the whole gateway for TLC.                                 *)
EXTENDS Gateway, TLC

CONSTANTS e1, w1, w2, o1, o2, u1

Granted == [ad_user_data |-> "GRANTED", ad_personalization |-> "GRANTED"]
Missing == [ad_user_data |-> "GRANTED", ad_personalization |-> "MISSING"]

Lead(consent, click, ids) == [consent |-> consent, click |-> click, ids |-> ids]

(* Leads that can be matched by digests alone or by click id alone.        *)
PlainLeads == { Lead(Granted, FALSE, "good"), Lead(Granted, TRUE, "none") }

(* Digests with a click id or without, nothing to match by, no consent.    *)
SomeLeads ==
    { Lead(Granted, FALSE, "good"), Lead(Granted, TRUE, "good"),
      Lead(Granted, FALSE, "keyless"), Lead(Missing, FALSE, "good") }

Symmetry == Permutations(Workers)
=============================================================================
