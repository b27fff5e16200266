----------------------------- MODULE MCGateway -----------------------------
EXTENDS Gateway, TLC

\* The first call comes from client a.  The second one is another request of the tenant from client a,
\* a request of another tenant from client b, or comes from client b with the request ID of the
\* first, for the same payload or another.
MCInputs ==
  (1 :> [client: {"a"}, tenant: {1}, request: {1}, hash: {1}])
  @@ (2 :> [client: {"a"}, tenant: {1}, request: {2}, hash: {3}]
           \union [client: {"b"}, tenant: {2}, request: {2}, hash: {3}]
           \union [client: {"b"}, tenant: {1}, request: {1}, hash: {1, 2}])
=============================================================================
