--------------------------- MODULE MCProxySession ---------------------------
EXTENDS ProxySession

CONSTANTS s1, a, b, page, index

OneSession == {s1}

\* Two origins on different hosts.
Origins == {a, b}
Hosts == [o \in Origins |-> o]
Files == {page, index}
Ask(m, o, f, n, c, p) ==
    [method |-> m, url |-> [origin |-> o, file |-> f], len |-> n,
     cachable |-> c, persistent |-> p]
Reply(f, n, c, p, k) ==
    [framing |-> f, len |-> n, cachable |-> c, persistent |-> p, ok |-> k]

\* Cachable GETs for both, one that ends the connection, and for another file; a
\* POST that may be answered with something cachable, a CONNECT.
Requests ==
    {Ask("GET", a, page, 0, TRUE, TRUE), Ask("GET", a, index, 0, TRUE, TRUE), Ask("GET", b, page, 0, TRUE, FALSE),
     Ask("POST", a, page, 2, FALSE, TRUE), Ask("CONNECT", b, page, 0, TRUE, TRUE)}
Responses ==
    {Reply("length", 2, TRUE, TRUE, TRUE), Reply("length", 0, TRUE, FALSE, TRUE),
     Reply("length", 1, TRUE, TRUE, FALSE), Reply("chunked", 2, TRUE, TRUE, TRUE),
     Reply("close", 1, TRUE, FALSE, TRUE)}
=============================================================================
