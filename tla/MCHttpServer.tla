----------------------------- MODULE MCHttpServer ------------------------------
EXTENDS HttpServer
\* G / HTTP/1.0, a header, a continuation of it
RequestLine == <<71, SP, SLASH, SP, 72, 84, 84, 80, SLASH, 49, DOT, 48, CR, LF>>
Long == RequestLine \o <<65, COLON, SP, 98, CR, LF, SP, 99, CR, LF, CR, LF>>
\* One byte of each kind that the parser tells apart.
Kinds == {71, 72, 84, 80, 49, DOT, SLASH, COLON, SP, HT, CR, LF, 127, -56}
MCSamples ==
  {SubSeq(Long, 1, n) : n \in 0..Len(Long)}
    \cup {RemoveAt(Long, i) : i \in 1..Len(Long)}
    \cup {InsertAt(Long, i, c) : i \in 1..Len(Long), c \in Kinds}
    \cup {ReplaceAt(Long, i, c) : i \in 1..Len(Long), c \in Kinds}

\* A request for a program, with a query; for a directory; for a path that is too long;
\* a bad one; and one that is not finished.
Get(path) == <<71, SP>> \o path \o SubSeq(RequestLine, 4, Len(RequestLine)) \o <<CR, LF>>
MCPath == <<SLASH, 97>>
MCTooLong == {<<SLASH, 98>>}
BadText == <<71, SP>> \o MCPath \o <<CR, LF>>
AnyRequest ==
  {Get(MCPath \o <<QUERY, 113>>), Get(<<SLASH>>), Get(<<SLASH, 98>>), BadText,
   <<71, SP, SLASH>>}
CONSTANTS c1, c2, root, k1, k2
MCRequests == c1 :> AnyRequest @@ c2 :> {Get(MCPath)}
================================================================================
