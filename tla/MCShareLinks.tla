----------------------------- MODULE MCShareLinks -----------------------------
(* ShareLinks for TLC: limits that a few requests reach, links that live for one
   instant of the clock or for none. *)
EXTENDS ShareLinks, TLC

TwoOrUnlimited == {Unlimited, 2}
TightLimit == {1, 2}
ShortLife == {0}
LongLife == {1}
Interchangeable == Permutations(Request)
=============================================================================
