--------------------------------- MODULE MCChat ---------------------------------
(* Small instances of Chat for TLC. *)
EXTENDS Chat

CONSTANTS t1, t2

TwoTexts == {t1, t2}
OneText == {t1}

Symmetric == Permutations(Texts)
=============================================================================
