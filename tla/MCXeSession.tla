----------------------------- MODULE MCXeSession -----------------------------
(***************************************************************************)
(* Instances of XeSession for TLC: events that are dropped, events behind  *)
(* stop_at.                                                                *)
(***************************************************************************)
EXTENDS XeSession

NoEvents == {}
DropFirst == {<<2, 1>>}
LastLate == {<<3, 1>>}
=============================================================================
