------------------------------ MODULE MCNetLink ------------------------------
(* NetLink with a peer that sends two data records, or one and a notice.     *)
EXTENDS NetLink

MCBytes == <<"a", "b", "c">>
MCStreams == {<<"h2", "a", "b", "h1", "c">>, <<"h1", "a", "hb", "bye">>}
=============================================================================
