------------------------------- MODULE Spend -------------------------------
(***************************************************************************)
(* All the program pays a model for, next to each other: the tagger and    *)
(* the writers run in one process and share no table.  The conjunction of  *)
(* their specifications lets every step of the one fall anywhere between   *)
(* two of the other.                                                       *)
(***************************************************************************)
EXTENDS Tagging, Writers

SpendSpec == TagSpec /\ WriteSpec

\* Whatever a call of the model ends in (tags, a text, its French, an empty or a cut reply), what the
\* provider charged for it is on the day's counter or in the hands of the step that is about to record it.
EveryCallIsCounted == EveryReplyIsCounted /\ EveryTextIsCounted

\* The daily caps: a day costs more only by the calls that were under way when its cap was reached, and by
\* what a stop kept off the counter.
CapsHeld == TagCapHeld /\ DayBillBounded

=============================================================================
