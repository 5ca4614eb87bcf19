--------------------------- MODULE MCMemberNames ---------------------------
EXTENDS MemberNames

CONSTANTS foo, bar, r1, r2, r3

MCBases == {foo, bar}

(* Three raw names over four members: a raw name repeated, and two raw    *)
(* names with the same base or with the bases foo and foo_2.              *)
MCRaw == {r1, r2, r3}
MCM == 4
=============================================================================
