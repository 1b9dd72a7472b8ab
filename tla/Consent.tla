------------------------------- MODULE Consent -------------------------------
(***************************************************************************)
(* What an approval promises: a subject is recorded at most once, with the *)
(* text somebody consented to, by a consent that stood when it was used    *)
(* and is used up by it; a subject that was declined is never recorded.    *)
(***************************************************************************)
CONSTANTS Consents, Subjects, Texts, None

VARIABLES
  consent,   \* of each consent: its state, and what it is for
  record,    \* the text recorded for each subject
  declined   \* the subjects that were declined

vars == <<consent, record, declined>>

Ungiven == [st |-> "none", of |-> None, text |-> None]

Init ==
  /\ consent = [k \in Consents |-> Ungiven]
  /\ record = [s \in Subjects |-> None]
  /\ declined = {}

Give(k, s, t) ==
  /\ consent[k].st = "none"
  /\ consent' = [consent EXCEPT ![k] = [st |-> "given", of |-> s, text |-> t]]
  /\ UNCHANGED <<record, declined>>

Lapse(k) ==
  /\ consent[k].st = "given"
  /\ consent' = [consent EXCEPT ![k].st = "lapsed"]
  /\ UNCHANGED <<record, declined>>

Use(k) ==
  /\ consent[k].st = "given"
  /\ LET s == consent[k].of
     IN /\ record[s] = None /\ s \notin declined
        /\ record' = [record EXCEPT ![s] = consent[k].text]
  /\ consent' = [consent EXCEPT ![k].st = "used"]
  /\ UNCHANGED declined

Decline(s) ==
  /\ record[s] = None
  /\ declined' = declined \cup {s}
  /\ UNCHANGED <<consent, record>>

Next ==
  \/ \E k \in Consents : Lapse(k) \/ Use(k) \/ (\E s \in Subjects, t \in Texts : Give(k, s, t))
  \/ \E s \in Subjects : Decline(s)

Spec == Init /\ [][Next]_vars
=============================================================================
