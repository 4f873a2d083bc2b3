----------------------------- MODULE MCPolling -----------------------------
(***************************************************************************)
(* Instances of Polling for TLC: the instances behind the sources of each  *)
(* version of the configuration file.                                      *)
(***************************************************************************)
EXTENDS Polling

\* Two names of one instance; another instance first; a file that is refused.
DupeThenOther == << <<"a", "a">>, <<"b", "a">>, <<>> >>
Third == {3}

TwoVersions == << <<"a">>, <<"b", "a">> >>
NoVersion == {}
=============================================================================
