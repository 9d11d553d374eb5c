------------------------------ MODULE MCStartup ------------------------------
EXTENDS Startup

\* A request that waits for an answer, and the one that does not.
StatusOrShutdown == {[kind |-> "Status", id |-> None], [kind |-> "Shutdown", id |-> None]}
=============================================================================
