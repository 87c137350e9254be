---------------------------- MODULE MCHttpClient ----------------------------
(* HttpClient on small instances: two hosts, one of them over both schemes. *)
EXTENDS HttpClient

HttpsA == [scheme |-> "https", host |-> "a"]
HttpA  == [scheme |-> "http", host |-> "a"]
HttpsB == [scheme |-> "https", host |-> "b"]

TwoHosts == {HttpsA, HttpsB}
ThreeUrls == {HttpsA, HttpA, HttpsB}
GetAndPost == {"GET", "POST"}
GetOnly == {"GET"}
HttpOnly == {HttpA}
Timeout == [timeout |-> TRUE, deadline |-> FALSE]
Both == [timeout |-> TRUE, deadline |-> TRUE]
DeadlineOnly == [timeout |-> FALSE, deadline |-> TRUE]
TimeoutOrBoth == {Timeout, Both}
JustTimeout == {Timeout}
JustDeadline == {DeadlineOnly}
=============================================================================
