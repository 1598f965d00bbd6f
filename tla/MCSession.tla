----------------------------- MODULE MCSession -----------------------------
EXTENDS Session

\* Both accounts are on one server.
OneServer == [a \in Account |-> CHOOSE s \in Server : TRUE]

=============================================================================
