------------------------------ MODULE MCIngest ------------------------------
(* Instances of Ingest: the sources, and the settings an ingest may run with. *)
EXTENDS Ingest

CONSTANTS s1, s2

Line(secret, copies, shape) == [secret |-> secret, copies |-> copies, shape |-> shape]

\* Three shapes for two clusters, one value in two lines, and one line that hides none.
A == Line(s1, 2, "a")
B == Line(s2, 1, "b")
C == Line(NoSecret, 1, "c")

MCSources == {<<>>, <<B, C>>, <<A, A, B, B>>, <<A, B, C, A>>, <<C, A, C, B>>,
              <<A, B, A>>, <<B, B, A, C>>}

MCBriefs == {NoSecret, s1}

Setting(strict, vault, workers, calibrate) ==
  [strict |-> strict, vault |-> vault, workers |-> workers, calibrate |-> calibrate]

MCConfigs == {Setting(TRUE, FALSE, 2, FALSE), Setting(TRUE, TRUE, 2, TRUE),
              Setting(TRUE, FALSE, 1, TRUE), Setting(FALSE, TRUE, 2, FALSE)}
=============================================================================
