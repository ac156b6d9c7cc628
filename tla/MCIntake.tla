------------------------------ MODULE MCIntake ------------------------------
(* Instances of the intake stage for TLC.                                  *)
EXTENDS Intake, TLC

CONSTANTS e1, e2, w1, w2, o1, o2, u1

Granted == [ad_user_data |-> "GRANTED", ad_personalization |-> "GRANTED"]
Missing == [ad_user_data |-> "GRANTED", ad_personalization |-> "MISSING"]

Lead(consent, click, ids) == [consent |-> consent, click |-> click, ids |-> ids]

(* One lead for every way the processor can treat one.                     *)
AllLeads ==
    {Lead(Granted, c, i) : c \in BOOLEAN, i \in IdKinds}
        \cup {Lead(Missing, TRUE, "good")}

(* The ones whose fate depends on the order of messages, and one to reject *)
(* and one to suppress.                                                    *)
OrderLeads ==
    { Lead(Granted, TRUE, "good"), Lead(Granted, FALSE, "good"),
      Lead(Granted, TRUE, "none"), Lead(Granted, FALSE, "keyless"),
      Lead(Missing, TRUE, "good") }

Symmetry == Permutations(Event) \cup Permutations(Workers) \cup Permutations(Operators)
=============================================================================
