-------------------------- MODULE MCPartyPlayback --------------------------
EXTENDS PartyPlayback

OneSong == <<"A">>
TwoSongs == <<"A", "B">>

Mix(p, o, t, j) == [picks |-> p, others |-> o, toggles |-> t, joins |-> j]

(* One song among guests who join and press; two songs picked; one song    *)
(* and another party's upload.                                             *)
Mixes == {Mix(1, 0, 1, 2), Mix(2, 0, 1, 0), Mix(1, 1, 0, 0)}
OneMix == {Mix(1, 0, 1, 2)}
=============================================================================
