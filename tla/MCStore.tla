------------------------------- MODULE MCStore -------------------------------
(***************************************************************************)
(* Store with three workers, two or three ids, room for one or two.        *)
(***************************************************************************)
EXTENDS Store

CONSTANTS s1, s2, s3, w1, w2, w3

MCIds == {s1, s2, s3}
TwoIds == {s1, s2}

\* No session is created but by an append to an unknown id.
NoIds == {}

MCWorkers == {w1, w2, w3}
=============================================================================
