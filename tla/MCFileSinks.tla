---------------------------- MODULE MCFileSinks ----------------------------
(***************************************************************************)
(* An instance of FileSinks for TLC.                                       *)
(***************************************************************************)
EXTENDS FileSinks

\* One session has two blocks, of an event each, the other has one.
MCNameOf == [r1 |-> <<"a", "b">>, r2 |-> <<"a">>]
MCEnds == [r1 |-> {1, 2}, r2 |-> {1}]

\* As "5m10s" and "60m1m" in expvar.go: a longer frame of longer intervals.
MCFrames == <<[interval |-> 1, len |-> 2], [interval |-> 2, len |-> 2]>>

=============================================================================
