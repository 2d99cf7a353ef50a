--------------------------- MODULE MCExaminations ---------------------------
(* Small examinations for model-checking Examinations: one multiple-choice  *)
(* question and one essay, of one mark each.                                *)
EXTENDS Examinations, TLC

CONSTANTS choice, essay

MarksOf == choice :> 1 @@ essay :> 1
ChoiceMarks == choice :> 1

(* A window of three minutes, so that a duration of one minute can run out   *)
(* inside it.                                                                *)
LongWindow == {<<0, 3>>}

(* The shortest window in which an attempt can be started at all.            *)
ShortWindow == {<<0, 2>>}

Interchangeable == Permutations(Workers)
=============================================================================
