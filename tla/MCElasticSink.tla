---------------------------- MODULE MCElasticSink ----------------------------
EXTENDS ElasticSink

\* Two names are sent to one index, and the rest to the default.
LoginMap == [name \in {"login", "logout"} |-> "dev_login"]
LoginAndOther == <<"login", "other">>
=============================================================================
