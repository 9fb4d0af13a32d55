---------------------------- MODULE MCEventLoop ----------------------------
EXTENDS EventLoop, TLC
CONSTANTS c1, c2
\* Two clients that need the pool; replies still queued when a batch goes to the
\* pool, and another client for the slot; a slow reader; input that arrives, and is
\* announced once, while such a batch is away; a QUIT, with more
\* after it, and a SUBSCRIBE behind work on the pool; a batch on the pool whose
\* replies pass the high-water mark behind others, with input announced meanwhile.
MCScripts == {c1 :> <<"write">> @@ c2 :> <<"write">>,
              c1 :> <<"read", "read", "write">> @@ c2 :> <<"read">>,
              c1 :> <<"part", "read", "part", "read">> @@ c2 :> <<>>,
              c1 :> <<"read", "read", "write", "read">> @@ c2 :> <<>>,
              c1 :> <<"write", "quit", "read">> @@ c2 :> <<>>,
              c1 :> <<"write", "sub">> @@ c2 :> <<>>,
              c1 :> <<"read", "read", "part", "write", "read">> @@ c2 :> <<>>}
\* A batch on the pool whose replies pause the connection.
PausingScripts == {c1 :> <<"part", "read", "write", "write", "read">> @@ c2 :> <<>>}
=============================================================================
