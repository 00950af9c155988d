-------------------------- MODULE MCRecordSession --------------------------
(* Small instances of the recording session for TLC. *)
EXTENDS RecordSession

CONSTANTS c1, c2, c3, d1, d2

\* c1 (a form with two chromes) and c2 are screens of one app, c3 of another.
AppOf(c) == IF c = c3 THEN "other" ELSE "app"

\* Each form of the app has its field (two chromes of one form share it); the
\* other app has none.
FormField(c) == IF c = c3 THEN NoField ELSE <<c, "field">>

FirstForm == <<c1, d1>>
OtherApp == <<c3, d1>>
TwinForm == {<<c1, d1>>, <<c1, d2>>, <<c3, d1>>}
PlainForms == {<<c1, d1>>, <<c2, d1>>, <<c3, d1>>}
TwoForms == TwinForm \cup {<<c2, d1>>}
=============================================================================
