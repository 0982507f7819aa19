--------------------------- MODULE MCHttpClient ---------------------------
(* The servers: a page of known length, one that moved to it, with names and *)
(* the new URL cut in two, one that redirects to itself, an error page whose *)
(* length an empty header hides and which ends in garbage, and a page of     *)
(* unknown length whose status line has no reason, with a trailer.           *)
EXTENDS HttpClient

Status == <<[cb |-> "status", text |-> << >>]>>

Header(name, n, value, k) ==
    [i \in 1 .. n + k |-> IF i <= n THEN [cb |-> "field", text |-> <<Pieces(name, n)[i]>>]
                          ELSE [cb |-> "value", text |-> <<Pieces(value, k)[i - n]>>]]

EmptyHeader == <<[cb |-> "field", text |-> Pieces("Via", 1)], [cb |-> "value", text |-> << >>]>>

Page(u, head, n, tail) ==
    [head |-> head \o <<[cb |-> "headers_complete", text |-> << >>]>>,
     body |-> [i \in 1 .. n |-> <<u, i>>],
     tail |-> tail]

Garbage == <<[cb |-> "malformed", text |-> << >>]>>

MCResponse ==
    [page  |-> Page("page", Status \o Header("Server", 1, "x", 1)
                              \o Header("Content-Length", 1, "three", 1), 3, << >>),
     moved |-> Page("moved", Status \o Header("Content-Length", 1, "one", 1)
                               \o Header("Location", 2, "page", 2), 1, << >>),
     loop  |-> Page("loop", Header("Location", 1, "loop", 1), 1, << >>),
     error |-> Page("error", Status \o EmptyHeader
                               \o Header("Content-Length", 1, "four", 1), 4, Garbage),
     plain |-> Page("plain", Header("Server", 1, "x", 1), 4, Header("Expires", 1, "x", 1)),
     bad   |-> [head |-> << >>, body |-> << >>, tail |-> << >>]]

MCNumber == [one |-> 1, three |-> 3, four |-> 4]

MCTexts == {"Server", "Content-Length", "Location", "Via", "Expires", "x",
            "one", "three", "four", "page", "loop"}

MCData == Urls \X (1 .. 4)
===========================================================================
