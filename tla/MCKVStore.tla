----------------------------- MODULE MCKVStore -----------------------------
(* Two users of one server, who type full lines, short ones and an unknown operation. *)
EXTENDS KVStore

CONSTANTS k, v   \* a string used as a key, one used as a value

MCLines == {<<"put", k, v>>, <<"put", k>>, <<"get">>, <<"delete", k>>, <<"show">>, <<"exit">>,
            <<k>>}
=============================================================================
