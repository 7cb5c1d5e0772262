--------------------------- MODULE MCGuidHeading ---------------------------
(* GuidHeading with the spellings of its fields. *)
EXTENDS GuidHeading

Digits == <<"digit", "digit", "digit">>
AsInTheComment == <<"digit", "digit", "digit", ".", "digit">>

MCHeading == 0..Full
MCSpelling == {Digits, AsInTheComment, <<"other">>}
MCOneSpelling == {AsInTheComment}
=============================================================================
