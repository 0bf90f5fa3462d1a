----------------------------- MODULE RequestParser -----------------------------
(***************************************************************************)
(* request_parser of the HTTP server: a machine that is fed one byte at a  *)
(* time and keeps its state between reads.  A byte is what `char` is on    *)
(* this platform, a number from -128 to 127.  Beside it stands what it is  *)
(* to recognise, as a grammar over whole texts.  Of the request only the   *)
(* URI, and whether there is a header yet, are kept.                       *)
(***************************************************************************)
EXTENDS Integers, Sequences, SequencesExt

CONSTANT Samples    \* the texts on which the machine is compared with the grammar

Char == -128..127
HT == 9
LF == 10
CR == 13
SP == 32
DOT == 46
SLASH == 47
COLON == 58
QUERY == 63

ASSUME SamplesAssumption == Samples \subseteq Seq(Char)

is_char == 0..127
is_ctl == 0..31 \cup {127}
is_digit == 48..57

\* Mutant: the colon is not special.
is_tspecialNoColon ==
  {40, 41, 60, 62, 64, 44, 59, 92, 34, SLASH, 91, 93, QUERY, 61, 123, 125, SP, HT}

\* ( ) < > @ , ; : \ " / [ ] ? = { } space tab
is_tspecial ==
  {40, 41, 60, 62, 64, 44, 59, COLON, 92, 34, SLASH, 91, 93, QUERY, 61, 123, 125, SP, HT}

Token == is_char \ (is_ctl \cup is_tspecial)
Text == Char \ is_ctl
NonBlank == Text \ {SP}

\* consume: in the first state, a byte of the second leads to the third.  A byte
\* for which no entry is found is bad.  "good" and "bad" are the verdicts.
Edges == {
  <<"method_start", Token, "method">>,
  <<"method", Token, "method">>,
  <<"method", {SP}, "uri">>,
  <<"uri", NonBlank, "uri">>,
  <<"uri", {SP}, "http_version_h">>,
  <<"http_version_h", {72}, "http_version_t_1">>,
  <<"http_version_t_1", {84}, "http_version_t_2">>,
  <<"http_version_t_2", {84}, "http_version_p">>,
  <<"http_version_p", {80}, "http_version_slash">>,
  <<"http_version_slash", {SLASH}, "http_version_major_start">>,
  <<"http_version_major_start", is_digit, "http_version_major">>,
  <<"http_version_major", is_digit, "http_version_major">>,
  <<"http_version_major", {DOT}, "http_version_minor_start">>,
  <<"http_version_minor_start", is_digit, "http_version_minor">>,
  <<"http_version_minor", is_digit, "http_version_minor">>,
  <<"http_version_minor", {CR}, "expecting_newline_1">>,
  <<"expecting_newline_1", {LF}, "header_line_start">>,
  <<"header_line_start", {CR}, "expecting_newline_3">>,
  <<"header_line_start", {SP, HT}, "header_lws">>,
  <<"header_line_start", Token, "header_name">>,
  <<"header_lws", {CR}, "expecting_newline_2">>,
  <<"header_lws", {SP, HT}, "header_lws">>,
  <<"header_lws", NonBlank, "header_value">>,
  <<"header_name", {COLON}, "space_before_header_value">>,
  <<"header_name", Token, "header_name">>,
  <<"space_before_header_value", {SP}, "header_value">>,
  <<"header_value", {CR}, "expecting_newline_2">>,
  <<"header_value", Text, "header_value">>,
  <<"expecting_newline_2", {LF}, "header_line_start">>,
  <<"expecting_newline_3", {LF}, "good">> }

Verdicts == {"good", "bad"}
States == {e[1] : e \in Edges} \cup Verdicts

\* request_parser(): a new parser, with an empty request.
Start == [state |-> "method_start", uri |-> <<>>, headers |-> FALSE]

\* A line may continue the one before only when there is one.
Permitted(p) ==
  {e \in Edges : /\ e[1] = p.state
                 /\ e[1] = "header_line_start" /\ e[3] = "header_lws" => p.headers}

NextState(p, input) ==
  LET moves == {e \in Permitted(p) : input \in e[2]}
  IN IF moves = {} THEN "bad" ELSE (CHOOSE e \in moves : TRUE)[3]

Enter(p, input, to) ==
  [state |-> to,
   uri |-> IF p.state = "uri" /\ to = "uri" THEN Append(p.uri, input) ELSE p.uri,
   headers |-> p.headers \/ to = "header_name"]

Parsers == [state : States, uri : Seq(Char), headers : BOOLEAN]

\* What a byte does to a parser.  After a verdict nothing is looked at.
Consume(input) ==
  [p \in Parsers |-> IF p.state \in Verdicts THEN p ELSE Enter(p, input, NextState(p, input))]

Parse(p, piece) ==
  LET after[n \in 0..Len(piece)] == IF n = 0 THEN p ELSE Consume(piece[n])[after[n - 1]]
  IN after[Len(piece)]

\* The part of the URI before "?".
FilePath(uri) ==
  LET pos == SelectInSeq(uri, LAMBDA c : c = QUERY)
  IN IF pos = 0 THEN uri ELSE SubSeq(uri, 1, pos - 1)
--------------------------------------------------------------------------------
(***************************************************************************)
(* What a request is: a request line, header lines, an empty line.  Parts  *)
(* of a text t are named by their first and last positions.                *)
(***************************************************************************)
All(t, first, last, class) == \A i \in first..last : t[i] \in class

Version == <<72, 84, 84, 80, SLASH>>

\* method SP uri SP HTTP/digits.digits, before position n
IsRequestLine(t, n) ==
  \E m \in 2..n : /\ t[m] = SP
                  /\ All(t, 1, m - 1, Token)
                  /\ \E u \in m + 1 .. n - 8 :
                       /\ t[u] = SP
                       /\ All(t, m + 1, u - 1, NonBlank)
                       /\ SubSeq(t, u + 1, u + 5) = Version
                       /\ \E d \in u + 7 .. n - 2 : /\ t[d] = DOT
                                                    /\ All(t, u + 6, d - 1, is_digit)
                                                    /\ All(t, d + 1, n - 1, is_digit)
\* name: value
IsField(t, first, last) ==
  \E k \in first + 1 .. last - 1 : /\ t[k] = COLON /\ t[k + 1] = SP
                                   /\ All(t, first, k - 1, Token)
                                   /\ All(t, k + 2, last, Text)

IsContinuation(t, first, last) ==
  \E k \in first..last : All(t, first, k, {SP, HT}) /\ All(t, k + 1, last, Text)

\* No line contains a CR, so the CRs tell where the lines end.
Ends(t, n) == {i \in 1..n : t[i] = CR}
Adjacent(t, i, j) == i < j /\ \A k \in i + 1 .. j - 1 : t[k] # CR

\* Up to position n, t is a request line that ends at `request`, and header lines.  A
\* line may continue the one before, but not the request line.
IsHead(t, n, request) ==
  /\ IsRequestLine(t, request)
  /\ request \in Ends(t, n) /\ n - 1 \in Ends(t, n)
  /\ \A i \in Ends(t, n) : i < n /\ t[i + 1] = LF
  /\ \A i, j \in Ends(t, n) : Adjacent(t, i, j) =>
       \/ IsField(t, i + 2, j - 1)
       \/ IsContinuation(t, i + 2, j - 1) /\ i # request

\* The beginning of t, up to position n, is a request.
IsRequest(t, n) ==
  /\ \E request \in 1 .. n - 2 : IsHead(t, n - 2, request)
  /\ t[n - 1] = CR /\ t[n] = LF

\* A short request, and the endings that complete whatever can be completed.
Short == <<71, SP, SLASH, SP, 72, 84, 84, 80, SLASH, 49, DOT, 48, CR, LF,
           65, COLON, SP, 98, CR, LF, CR, LF>>
Endings == {SubSeq(Short, n, Len(Short)) : n \in 1..Len(Short)}

\* A text is good when it begins with a request, and bad when it neither does
\* nor can be completed.
Meaning(t) ==
  IF \E n \in 1..Len(t) : IsRequest(t, n) THEN "good"
  ELSE IF \E w \in Endings : IsRequest(t \o w, Len(t \o w)) THEN "indeterminate"
  ELSE "bad"

Verdict(p) == IF p.state \in Verdicts THEN p.state ELSE "indeterminate"

\* The machine decides every sample as the grammar does: neither too early nor too
\* late, and without taking a request for bad or bad text for one.
Agreement == \A t \in Samples : Verdict(Parse(Start, t)) = Meaning(t)
================================================================================
