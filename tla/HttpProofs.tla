------------------------------- MODULE HttpProofs -------------------------------
(***************************************************************************)
(* Proofs about RequestParser and HttpServer, for any number of            *)
(* connections, any cut and any text of the clients: the parser decides    *)
(* every text as the grammar of a request does (ParserIsCorrect), and the  *)
(* safety invariants of the run follow from HttpInv.                       *)
(***************************************************************************)
EXTENDS HttpServer, SequenceTheorems, FiniteSetTheorems, WellFoundedInduction, TLAPS

(***************************************************************************)
(* Induction and recursion over what is read.                              *)
(***************************************************************************)

\* The library's induction takes an operator; this one takes a set.
LEMMA Induction ==
  ASSUME NEW S, 0 \in S, \A n \in Nat : n \in S => n + 1 \in S
  PROVE  \A n \in Nat : n \in S
<1> DEFINE R == {ss \in Nat \X Nat : ss[1] < ss[2]}
           T == Nat \ S
<1>1. IsWellFoundedOn(R, Nat)
  BY NatLessThanWellFounded DEF OpToRel
<1> SUFFICES ASSUME T # {} PROVE FALSE
  OBVIOUS
<1> HIDE DEF R
<1>2. PICK m \in T : \A k \in T : ~ (<<k, m>> \in R)
  BY <1>1, WFMin, T \subseteq Nat
<1>3. m \in Nat /\ m # 0
  BY <1>2
<1>4. m - 1 \in Nat /\ <<m - 1, m>> \in R
  BY <1>3 DEF R
<1>5. m - 1 \in S
  BY <1>2, <1>4
<1>6. (m - 1) + 1 \in S
  BY <1>4, <1>5
<1> QED BY <1>2, <1>3, <1>6

LEMMA StatesKept == \A c : \A p : NextState(p, c) \in States
<1> TAKE c, p
<1> DEFINE moves == {e \in Permitted(p) : c \in e[2]}
<1>1. CASE moves = {}
  BY <1>1 DEF NextState, States, Verdicts
<1>2. CASE moves # {}
  <2>1. (CHOOSE e \in moves : TRUE) \in Edges
    BY <1>2 DEF Permitted
  <2>2. \A e \in Edges : e[3] \in States
    BY DEF Edges, States, Verdicts
  <2> QED BY <1>2, <2>1, <2>2 DEF NextState
<1> QED BY <1>1, <1>2

LEMMA ParsersKept ==
  ASSUME NEW p \in Parsers, NEW c \in Char
  PROVE  Consume(c)[p] \in Parsers
<1>1. p.uri \in Seq(Char) => Append(p.uri, c) \in Seq(Char)
  BY AppendProperties
<1>2. NextState(p, c) \in States
  BY StatesKept
<1> QED BY <1>1, <1>2 DEF Consume, Enter, Parsers

\* The parsers that p becomes, byte by byte.
IsRun(r, p, t) ==
  /\ r \in [0..Len(t) -> Parsers]
  /\ r[0] = p
  /\ \A i \in 1..Len(t) : r[i] = Consume(t[i])[r[i - 1]]

LEMMA RunExists ==
  ASSUME NEW p \in Parsers, NEW t \in Seq(Char)
  PROVE  \E r : IsRun(r, p, t)
<1>l. PICK l \in Nat : l = Len(t) /\ \A i \in 1..l : t[i] \in Char
  BY LenProperties, ElementOfSeq
<1> DEFINE Upto(n, r) == /\ r \in [0..n -> Parsers]
                         /\ r[0] = p
                         /\ \A i \in 1..n : r[i] = Consume(t[i])[r[i - 1]]
           S == {n \in Nat : n <= l => \E r : Upto(n, r)}
<1>1. 0 \in S
  <2>1. Upto(0, [i \in 0..0 |-> p])
    OBVIOUS
  <2> QED BY <2>1
<1>2. ASSUME NEW n \in Nat, n \in S PROVE n + 1 \in S
  <2> HIDE DEF Upto
  <2> SUFFICES ASSUME n + 1 <= l PROVE \E r : Upto(n + 1, r)
    OBVIOUS
  <2>1. PICK r : Upto(n, r)
    BY <1>2
  <2> USE DEF Upto
  <2>2. t[n + 1] \in Char /\ r[n] \in Parsers
    BY <1>l, <2>1
  <2> DEFINE q == Consume(t[n + 1])[r[n]]
             rr == [i \in 0 .. n + 1 |-> IF i = n + 1 THEN q ELSE r[i]]
  <2>3. q \in Parsers
    BY <2>2, ParsersKept
  <2> HIDE DEF q
  <2>4. rr \in [0 .. n + 1 -> Parsers] /\ rr[0] = p
    BY <2>1, <2>3
  <2>5. ASSUME NEW i \in 1 .. n + 1 PROVE rr[i] = Consume(t[i])[rr[i - 1]]
    <3>1. CASE i = n + 1
      BY <3>1 DEF q
    <3>2. CASE i \in 1..n
      BY <3>2, <2>1
    <3> QED BY <3>1, <3>2
  <2>6. Upto(n + 1, rr)
    BY <2>4, <2>5
  <2> QED BY <2>6
<1> HIDE DEF S, Upto
<1>3. l \in S
  BY <1>1, <1>2, Induction
<1>4. PICK r : Upto(l, r)
  BY <1>3 DEF S
<1>5. IsRun(r, p, t)
  BY <1>l, <1>4 DEF Upto, IsRun
<1> QED BY <1>5

LEMMA ParseRun ==
  ASSUME NEW t, NEW p, NEW r, IsRun(r, p, t), Len(t) \in Nat
  PROVE  Parse(p, t) = r[Len(t)]
<1>l. PICK l \in Nat : l = Len(t)
  OBVIOUS
<1> DEFINE Is(g) == g = [n \in 0..l |-> IF n = 0 THEN p ELSE Consume(t[n])[g[n - 1]]]
           after == CHOOSE g : Is(g)
<1>1. Is(r)
  BY <1>l DEF IsRun
<1>2. Is(after)
  BY <1>1
<1>3. Parse(p, t) = after[l]
  BY <1>l DEF Parse
<1> HIDE DEF after
<1> DEFINE S == {n \in Nat : n <= l => after[n] = r[n]}
<1>4. 0 \in S
  BY <1>2, <1>l DEF IsRun
<1>5. ASSUME NEW n \in Nat, n \in S PROVE n + 1 \in S
  <2> SUFFICES ASSUME n + 1 <= l PROVE after[n + 1] = r[n + 1]
    OBVIOUS
  <2>1. after[n + 1] = Consume(t[n + 1])[after[n]]
    BY <1>2
  <2>2. r[n + 1] = Consume(t[n + 1])[r[n]]
    BY <1>1
  <2> QED BY <2>1, <2>2, <1>5
<1> HIDE DEF S
<1>6. l \in S
  BY <1>4, <1>5, Induction
<1> QED BY <1>3, <1>6, <1>l DEF S

\* Reading in pieces comes to the same as reading at once.
LEMMA ParsePieces ==
  ASSUME NEW p \in Parsers, NEW s \in Seq(Char), NEW t \in Seq(Char)
  PROVE  /\ Parse(p, s) \in Parsers
         /\ Parse(p, s \o t) = Parse(Parse(p, s), t)
<1>l. PICK k \in Nat, l \in Nat : k = Len(s) /\ l = Len(t)
  BY LenProperties
<1>1. PICK r : IsRun(r, p, s)
  BY RunExists
<1>2. r[k] \in Parsers /\ Parse(p, s) = r[k]
  <2>1. r[k] \in Parsers
    BY <1>1, <1>l DEF IsRun
  <2>2. Len(s) \in Nat
    BY <1>l
  <2> QED BY <1>1, <2>1, <2>2, <1>l, ParseRun
<1>3. PICK u : IsRun(u, r[k], t)
  BY <1>2, RunExists
<1>4. Parse(r[k], t) = u[l]
  BY <1>3, <1>l, ParseRun
<1>st. PICK st : st = s \o t
  OBVIOUS
<1>5. /\ st \in Seq(Char) /\ Len(st) = k + l
      /\ \A i \in 1 .. k + l : st[i] = IF i <= k THEN s[i] ELSE t[i - k]
  BY <1>l, <1>st, ConcatProperties
<1> DEFINE v == [i \in 0 .. k + l |-> IF i <= k THEN r[i] ELSE u[i - k]]
<1>6. v \in [0 .. k + l -> Parsers] /\ v[0] = p
  BY <1>1, <1>3, <1>l DEF IsRun
<1>7. ASSUME NEW i \in 1 .. k + l PROVE v[i] = Consume(st[i])[v[i - 1]]
  <2>1. CASE i <= k
    BY <2>1, <1>1, <1>5, <1>l DEF IsRun
  <2>2. CASE i = k + 1
    <3>1. i - k = 1 /\ ~ (i <= k) /\ i - 1 = k /\ i \in 0 .. k + l /\ k \in 0 .. k + l
      BY <2>2
    <3>2. v[i] = u[1] /\ v[k] = r[k] /\ st[i] = t[1]
      BY <3>1, <1>5
    <3>3. u[1] = Consume(t[1])[u[0]] /\ u[0] = r[k]
      BY <3>1, <1>3, <1>l DEF IsRun
    <3> QED BY <3>1, <3>2, <3>3
  <2>3. CASE i > k + 1
    <3> DEFINE j == i - k
    <3>1. /\ j \in 1..l /\ j - 1 = (i - 1) - k /\ ~ (i <= k) /\ ~ (i - 1 <= k)
          /\ i \in 0 .. k + l /\ i - 1 \in 0 .. k + l
      BY <2>3
    <3>2. v[i] = u[j] /\ v[i - 1] = u[j - 1] /\ st[i] = t[j]
      BY <3>1, <1>5
    <3>3. u[j] = Consume(t[j])[u[j - 1]]
      BY <3>1, <1>3, <1>l DEF IsRun
    <3> QED BY <3>2, <3>3
  <2> QED BY <2>1, <2>2, <2>3
<1> HIDE DEF v
<1>8. IsRun(v, p, st)
  BY <1>5, <1>6, <1>7 DEF IsRun
<1>9. Parse(p, st) = v[k + l]
  BY <1>5, <1>8, ParseRun, k + l \in Nat
<1>10. v[k + l] = u[l]
  BY <1>3, <1>l DEF v, IsRun
<1> QED BY <1>2, <1>4, <1>9, <1>10, <1>st

\* Nothing follows a verdict.
LEMMA VerdictStays ==
  ASSUME NEW p \in Parsers, NEW t \in Seq(Char), p.state \in Verdicts
  PROVE  Parse(p, t) = p
<1>l. PICK l \in Nat : l = Len(t) /\ \A i \in 1..l : t[i] \in Char
  BY LenProperties, ElementOfSeq
<1>1. IsRun([i \in 0..l |-> p], p, t)
  BY <1>l DEF IsRun, Consume
<1> QED BY <1>1, <1>l, ParseRun
--------------------------------------------------------------------------------
(***************************************************************************)
(* The machine, one byte at a time.                                        *)
(***************************************************************************)
LEMMA Classes ==
  /\ SP \notin Token /\ COLON \notin Token /\ CR \notin Token /\ HT \notin Token
  /\ CR \notin Text /\ HT \notin Text
  /\ SP \notin NonBlank /\ HT \notin NonBlank /\ CR \notin NonBlank
  /\ DOT \notin is_digit /\ CR \notin is_digit
  /\ SP # CR /\ SP # HT /\ HT # CR /\ LF # CR /\ COLON # CR
BY DEF NonBlank, Token, Text, is_digit, is_char, is_ctl, is_tspecial, Char,
       SP, COLON, CR, HT, DOT, LF, SLASH, QUERY

LEMMA Exits ==
  /\ \A g \in Edges : g[1] = "method" =>
       \/ g = <<"method", Token, "method">>
       \/ g = <<"method", {SP}, "uri">>
  /\ \A g \in Edges : g[1] = "uri" =>
       \/ g = <<"uri", NonBlank, "uri">>
       \/ g = <<"uri", {SP}, "http_version_h">>
  /\ \A g \in Edges : g[1] = "http_version_major" =>
       \/ g = <<"http_version_major", is_digit, "http_version_major">>
       \/ g = <<"http_version_major", {DOT}, "http_version_minor_start">>
  /\ \A g \in Edges : g[1] = "http_version_minor" =>
       \/ g = <<"http_version_minor", is_digit, "http_version_minor">>
       \/ g = <<"http_version_minor", {CR}, "expecting_newline_1">>
  /\ \A g \in Edges : g[1] = "header_line_start" =>
       \/ g = <<"header_line_start", {CR}, "expecting_newline_3">>
       \/ g = <<"header_line_start", {SP, HT}, "header_lws">>
       \/ g = <<"header_line_start", Token, "header_name">>
  /\ \A g \in Edges : g[1] = "header_lws" =>
       \/ g = <<"header_lws", {CR}, "expecting_newline_2">>
       \/ g = <<"header_lws", {SP, HT}, "header_lws">>
       \/ g = <<"header_lws", NonBlank, "header_value">>
  /\ \A g \in Edges : g[1] = "header_name" =>
       \/ g = <<"header_name", {COLON}, "space_before_header_value">>
       \/ g = <<"header_name", Token, "header_name">>
  /\ \A g \in Edges : g[1] = "header_value" =>
       \/ g = <<"header_value", {CR}, "expecting_newline_2">>
       \/ g = <<"header_value", Text, "header_value">>
<1>1. \A g \in Edges : g[1] = "method" =>
       \/ g = <<"method", Token, "method">>
       \/ g = <<"method", {SP}, "uri">>
  BY DEF Edges
<1>2. \A g \in Edges : g[1] = "uri" =>
       \/ g = <<"uri", NonBlank, "uri">>
       \/ g = <<"uri", {SP}, "http_version_h">>
  BY DEF Edges
<1>3. \A g \in Edges : g[1] = "http_version_major" =>
       \/ g = <<"http_version_major", is_digit, "http_version_major">>
       \/ g = <<"http_version_major", {DOT}, "http_version_minor_start">>
  BY DEF Edges
<1>4. \A g \in Edges : g[1] = "http_version_minor" =>
       \/ g = <<"http_version_minor", is_digit, "http_version_minor">>
       \/ g = <<"http_version_minor", {CR}, "expecting_newline_1">>
  BY DEF Edges
<1>5. \A g \in Edges : g[1] = "header_line_start" =>
       \/ g = <<"header_line_start", {CR}, "expecting_newline_3">>
       \/ g = <<"header_line_start", {SP, HT}, "header_lws">>
       \/ g = <<"header_line_start", Token, "header_name">>
  BY DEF Edges
<1>6. \A g \in Edges : g[1] = "header_lws" =>
       \/ g = <<"header_lws", {CR}, "expecting_newline_2">>
       \/ g = <<"header_lws", {SP, HT}, "header_lws">>
       \/ g = <<"header_lws", NonBlank, "header_value">>
  BY DEF Edges
<1>7. \A g \in Edges : g[1] = "header_name" =>
       \/ g = <<"header_name", {COLON}, "space_before_header_value">>
       \/ g = <<"header_name", Token, "header_name">>
  BY DEF Edges
<1>8. \A g \in Edges : g[1] = "header_value" =>
       \/ g = <<"header_value", {CR}, "expecting_newline_2">>
       \/ g = <<"header_value", Text, "header_value">>
  BY DEF Edges
<1> QED BY <1>1, <1>2, <1>3, <1>4, <1>5, <1>6, <1>7, <1>8

LEMMA OneWay ==
  ASSUME NEW e \in Edges, NEW f \in Edges, e[1] = f[1], NEW c, c \in e[2], c \in f[2]
  PROVE  e[3] = f[3]
<1>1. CASE e[1] = "method"
  <2>1. \/ e = <<"method", Token, "method">>
        \/ e = <<"method", {SP}, "uri">>
    BY <1>1, Exits
  <2>2. \/ f = <<"method", Token, "method">>
        \/ f = <<"method", {SP}, "uri">>
    BY <1>1, Exits
  <2> QED BY <2>1, <2>2, Classes
<1>2. CASE e[1] = "uri"
  <2>1. \/ e = <<"uri", NonBlank, "uri">>
        \/ e = <<"uri", {SP}, "http_version_h">>
    BY <1>2, Exits
  <2>2. \/ f = <<"uri", NonBlank, "uri">>
        \/ f = <<"uri", {SP}, "http_version_h">>
    BY <1>2, Exits
  <2> QED BY <2>1, <2>2, Classes
<1>3. CASE e[1] = "http_version_major"
  <2>1. \/ e = <<"http_version_major", is_digit, "http_version_major">>
        \/ e = <<"http_version_major", {DOT}, "http_version_minor_start">>
    BY <1>3, Exits
  <2>2. \/ f = <<"http_version_major", is_digit, "http_version_major">>
        \/ f = <<"http_version_major", {DOT}, "http_version_minor_start">>
    BY <1>3, Exits
  <2> QED BY <2>1, <2>2, Classes
<1>4. CASE e[1] = "http_version_minor"
  <2>1. \/ e = <<"http_version_minor", is_digit, "http_version_minor">>
        \/ e = <<"http_version_minor", {CR}, "expecting_newline_1">>
    BY <1>4, Exits
  <2>2. \/ f = <<"http_version_minor", is_digit, "http_version_minor">>
        \/ f = <<"http_version_minor", {CR}, "expecting_newline_1">>
    BY <1>4, Exits
  <2> QED BY <2>1, <2>2, Classes
<1>5. CASE e[1] = "header_line_start"
  <2>1. \/ e = <<"header_line_start", {CR}, "expecting_newline_3">>
        \/ e = <<"header_line_start", {SP, HT}, "header_lws">>
        \/ e = <<"header_line_start", Token, "header_name">>
    BY <1>5, Exits
  <2>2. \/ f = <<"header_line_start", {CR}, "expecting_newline_3">>
        \/ f = <<"header_line_start", {SP, HT}, "header_lws">>
        \/ f = <<"header_line_start", Token, "header_name">>
    BY <1>5, Exits
  <2> QED BY <2>1, <2>2, Classes
<1>6. CASE e[1] = "header_lws"
  <2>1. \/ e = <<"header_lws", {CR}, "expecting_newline_2">>
        \/ e = <<"header_lws", {SP, HT}, "header_lws">>
        \/ e = <<"header_lws", NonBlank, "header_value">>
    BY <1>6, Exits
  <2>2. \/ f = <<"header_lws", {CR}, "expecting_newline_2">>
        \/ f = <<"header_lws", {SP, HT}, "header_lws">>
        \/ f = <<"header_lws", NonBlank, "header_value">>
    BY <1>6, Exits
  <2> QED BY <2>1, <2>2, Classes
<1>7. CASE e[1] = "header_name"
  <2>1. \/ e = <<"header_name", {COLON}, "space_before_header_value">>
        \/ e = <<"header_name", Token, "header_name">>
    BY <1>7, Exits
  <2>2. \/ f = <<"header_name", {COLON}, "space_before_header_value">>
        \/ f = <<"header_name", Token, "header_name">>
    BY <1>7, Exits
  <2> QED BY <2>1, <2>2, Classes
<1>8. CASE e[1] = "header_value"
  <2>1. \/ e = <<"header_value", {CR}, "expecting_newline_2">>
        \/ e = <<"header_value", Text, "header_value">>
    BY <1>8, Exits
  <2>2. \/ f = <<"header_value", {CR}, "expecting_newline_2">>
        \/ f = <<"header_value", Text, "header_value">>
    BY <1>8, Exits
  <2> QED BY <2>1, <2>2, Classes
<1>9. CASE e[1] \in {"method_start", "http_version_h", "http_version_t_1",
                    "http_version_t_2", "http_version_p", "http_version_slash",
                    "http_version_major_start", "http_version_minor_start", "expecting_newline_1",
                    "space_before_header_value", "expecting_newline_2", "expecting_newline_3"}
  BY <1>9 DEF Edges
<1>10. CASE e[1] \notin States
  BY <1>10 DEF States
<1> QED BY <1>1, <1>2, <1>3, <1>4, <1>5, <1>6, <1>7, <1>8, <1>9, <1>10 DEF States, Edges

LEMMA NextIs ==
  ASSUME NEW p, NEW c, NEW to, to # "bad"
  PROVE  NextState(p, c) = to <=> \E e \in Permitted(p) : c \in e[2] /\ e[3] = to
<1> DEFINE moves == {e \in Permitted(p) : c \in e[2]}
<1>1. CASE moves = {}
  BY <1>1 DEF NextState
<1>2. CASE moves # {}
  <2> DEFINE f == CHOOSE e \in moves : TRUE
  <2>1. f \in moves /\ NextState(p, c) = f[3]
    BY <1>2 DEF NextState
  <2> HIDE DEF f
  <2>2. ASSUME NEW e \in moves PROVE e[3] = f[3]
    BY <2>1, OneWay DEF Permitted
  <2> QED BY <2>1, <2>2
<1> QED BY <1>1, <1>2

\* From where a byte c leads to each of the states.
MovesAre(p, c, to) ==
  /\ to # "method_start"
  /\ to = "method" <=>
       \/ p.state = "method_start" /\ c \in Token
       \/ p.state = "method" /\ c \in Token
  /\ to = "uri" <=>
       \/ p.state = "method" /\ c = SP
       \/ p.state = "uri" /\ c \in NonBlank
  /\ to = "http_version_h" <=> p.state = "uri" /\ c = SP
  /\ to = "http_version_t_1" <=> p.state = "http_version_h" /\ c = 72
  /\ to = "http_version_t_2" <=> p.state = "http_version_t_1" /\ c = 84
  /\ to = "http_version_p" <=> p.state = "http_version_t_2" /\ c = 84
  /\ to = "http_version_slash" <=> p.state = "http_version_p" /\ c = 80
  /\ to = "http_version_major_start" <=> p.state = "http_version_slash" /\ c = SLASH
  /\ to = "http_version_major" <=>
       \/ p.state = "http_version_major_start" /\ c \in is_digit
       \/ p.state = "http_version_major" /\ c \in is_digit
  /\ to = "http_version_minor_start" <=> p.state = "http_version_major" /\ c = DOT
  /\ to = "http_version_minor" <=>
       \/ p.state = "http_version_minor_start" /\ c \in is_digit
       \/ p.state = "http_version_minor" /\ c \in is_digit
  /\ to = "expecting_newline_1" <=> p.state = "http_version_minor" /\ c = CR
  /\ to = "header_line_start" <=>
       \/ p.state = "expecting_newline_1" /\ c = LF
       \/ p.state = "expecting_newline_2" /\ c = LF
  /\ to = "expecting_newline_3" <=> p.state = "header_line_start" /\ c = CR
  /\ to = "header_lws" <=>
       \/ p.state = "header_line_start" /\ c \in {SP, HT} /\ p.headers
       \/ p.state = "header_lws" /\ c \in {SP, HT}
  /\ to = "header_name" <=>
       \/ p.state = "header_line_start" /\ c \in Token
       \/ p.state = "header_name" /\ c \in Token
  /\ to = "expecting_newline_2" <=>
       \/ p.state = "header_lws" /\ c = CR
       \/ p.state = "header_value" /\ c = CR
  /\ to = "header_value" <=>
       \/ p.state = "header_lws" /\ c \in NonBlank
       \/ p.state = "space_before_header_value" /\ c = SP
       \/ p.state = "header_value" /\ c \in Text
  /\ to = "space_before_header_value" <=> p.state = "header_name" /\ c = COLON

LEMMA Moves ==
  ASSUME NEW p, NEW c
  PROVE  /\ MovesAre(p, c, NextState(p, c))
         /\ NextState(p, c) = "good" <=> p.state = "expecting_newline_3" /\ c = LF
<1> DEFINE Leads(to) == \E e \in Permitted(p) : c \in e[2] /\ e[3] = to
<1>0. \A to : to # "bad" => (NextState(p, c) = to <=> Leads(to))
  BY NextIs
<1>1. ~ Leads("method_start")
  BY DEF Permitted, Edges
<1>2. Leads("method") <=> 
              \/ p.state = "method_start" /\ c \in Token
              \/ p.state = "method" /\ c \in Token
  <2>1. \A e \in Edges : e[3] = "method" =>
           \/ e = <<"method_start", Token, "method">>
           \/ e = <<"method", Token, "method">>
    BY DEF Edges
  <2>2. /\ <<"method_start", Token, "method">> \in Edges
        /\ <<"method", Token, "method">> \in Edges
    BY DEF Edges
  <2> QED BY <2>1, <2>2 DEF Permitted
<1>3. Leads("uri") <=> 
              \/ p.state = "method" /\ c = SP
              \/ p.state = "uri" /\ c \in NonBlank
  <2>1. \A e \in Edges : e[3] = "uri" =>
           \/ e = <<"method", {SP}, "uri">>
           \/ e = <<"uri", NonBlank, "uri">>
    BY DEF Edges
  <2>2. /\ <<"method", {SP}, "uri">> \in Edges
        /\ <<"uri", NonBlank, "uri">> \in Edges
    BY DEF Edges
  <2> QED BY <2>1, <2>2 DEF Permitted
<1>4. Leads("http_version_h") <=> (p.state = "uri" /\ c = SP)
  <2>1. \A e \in Edges : e[3] = "http_version_h" =>
           e = <<"uri", {SP}, "http_version_h">>
    BY DEF Edges
  <2>2. /\ <<"uri", {SP}, "http_version_h">> \in Edges
    BY DEF Edges
  <2> QED BY <2>1, <2>2 DEF Permitted
<1>5. Leads("http_version_t_1") <=> (p.state = "http_version_h" /\ c = 72)
  <2>1. \A e \in Edges : e[3] = "http_version_t_1" =>
           e = <<"http_version_h", {72}, "http_version_t_1">>
    BY DEF Edges
  <2>2. /\ <<"http_version_h", {72}, "http_version_t_1">> \in Edges
    BY DEF Edges
  <2> QED BY <2>1, <2>2 DEF Permitted
<1>6. Leads("http_version_t_2") <=> (p.state = "http_version_t_1" /\ c = 84)
  <2>1. \A e \in Edges : e[3] = "http_version_t_2" =>
           e = <<"http_version_t_1", {84}, "http_version_t_2">>
    BY DEF Edges
  <2>2. /\ <<"http_version_t_1", {84}, "http_version_t_2">> \in Edges
    BY DEF Edges
  <2> QED BY <2>1, <2>2 DEF Permitted
<1>7. Leads("http_version_p") <=> (p.state = "http_version_t_2" /\ c = 84)
  <2>1. \A e \in Edges : e[3] = "http_version_p" =>
           e = <<"http_version_t_2", {84}, "http_version_p">>
    BY DEF Edges
  <2>2. /\ <<"http_version_t_2", {84}, "http_version_p">> \in Edges
    BY DEF Edges
  <2> QED BY <2>1, <2>2 DEF Permitted
<1>8. Leads("http_version_slash") <=> (p.state = "http_version_p" /\ c = 80)
  <2>1. \A e \in Edges : e[3] = "http_version_slash" =>
           e = <<"http_version_p", {80}, "http_version_slash">>
    BY DEF Edges
  <2>2. /\ <<"http_version_p", {80}, "http_version_slash">> \in Edges
    BY DEF Edges
  <2> QED BY <2>1, <2>2 DEF Permitted
<1>9. Leads("http_version_major_start") <=> (p.state = "http_version_slash" /\ c = SLASH)
  <2>1. \A e \in Edges : e[3] = "http_version_major_start" =>
           e = <<"http_version_slash", {SLASH}, "http_version_major_start">>
    BY DEF Edges
  <2>2. /\ <<"http_version_slash", {SLASH}, "http_version_major_start">> \in Edges
    BY DEF Edges
  <2> QED BY <2>1, <2>2 DEF Permitted
<1>10. Leads("http_version_major") <=> 
              \/ p.state = "http_version_major_start" /\ c \in is_digit
              \/ p.state = "http_version_major" /\ c \in is_digit
  <2>1. \A e \in Edges : e[3] = "http_version_major" =>
           \/ e = <<"http_version_major_start", is_digit, "http_version_major">>
           \/ e = <<"http_version_major", is_digit, "http_version_major">>
    BY DEF Edges
  <2>2. /\ <<"http_version_major_start", is_digit, "http_version_major">> \in Edges
        /\ <<"http_version_major", is_digit, "http_version_major">> \in Edges
    BY DEF Edges
  <2> QED BY <2>1, <2>2 DEF Permitted
<1>11. Leads("http_version_minor_start") <=> (p.state = "http_version_major" /\ c = DOT)
  <2>1. \A e \in Edges : e[3] = "http_version_minor_start" =>
           e = <<"http_version_major", {DOT}, "http_version_minor_start">>
    BY DEF Edges
  <2>2. /\ <<"http_version_major", {DOT}, "http_version_minor_start">> \in Edges
    BY DEF Edges
  <2> QED BY <2>1, <2>2 DEF Permitted
<1>12. Leads("http_version_minor") <=> 
              \/ p.state = "http_version_minor_start" /\ c \in is_digit
              \/ p.state = "http_version_minor" /\ c \in is_digit
  <2>1. \A e \in Edges : e[3] = "http_version_minor" =>
           \/ e = <<"http_version_minor_start", is_digit, "http_version_minor">>
           \/ e = <<"http_version_minor", is_digit, "http_version_minor">>
    BY DEF Edges
  <2>2. /\ <<"http_version_minor_start", is_digit, "http_version_minor">> \in Edges
        /\ <<"http_version_minor", is_digit, "http_version_minor">> \in Edges
    BY DEF Edges
  <2> QED BY <2>1, <2>2 DEF Permitted
<1>13. Leads("expecting_newline_1") <=> (p.state = "http_version_minor" /\ c = CR)
  <2>1. \A e \in Edges : e[3] = "expecting_newline_1" =>
           e = <<"http_version_minor", {CR}, "expecting_newline_1">>
    BY DEF Edges
  <2>2. /\ <<"http_version_minor", {CR}, "expecting_newline_1">> \in Edges
    BY DEF Edges
  <2> QED BY <2>1, <2>2 DEF Permitted
<1>14. Leads("header_line_start") <=> 
              \/ p.state = "expecting_newline_1" /\ c = LF
              \/ p.state = "expecting_newline_2" /\ c = LF
  <2>1. \A e \in Edges : e[3] = "header_line_start" =>
           \/ e = <<"expecting_newline_1", {LF}, "header_line_start">>
           \/ e = <<"expecting_newline_2", {LF}, "header_line_start">>
    BY DEF Edges
  <2>2. /\ <<"expecting_newline_1", {LF}, "header_line_start">> \in Edges
        /\ <<"expecting_newline_2", {LF}, "header_line_start">> \in Edges
    BY DEF Edges
  <2> QED BY <2>1, <2>2 DEF Permitted
<1>15. Leads("expecting_newline_3") <=> (p.state = "header_line_start" /\ c = CR)
  <2>1. \A e \in Edges : e[3] = "expecting_newline_3" =>
           e = <<"header_line_start", {CR}, "expecting_newline_3">>
    BY DEF Edges
  <2>2. /\ <<"header_line_start", {CR}, "expecting_newline_3">> \in Edges
    BY DEF Edges
  <2> QED BY <2>1, <2>2 DEF Permitted
<1>16. Leads("header_lws") <=> 
              \/ p.state = "header_line_start" /\ c \in {SP, HT} /\ p.headers
              \/ p.state = "header_lws" /\ c \in {SP, HT}
  <2>1. \A e \in Edges : e[3] = "header_lws" =>
           \/ e = <<"header_line_start", {SP, HT}, "header_lws">>
           \/ e = <<"header_lws", {SP, HT}, "header_lws">>
    BY DEF Edges
  <2>2. /\ <<"header_line_start", {SP, HT}, "header_lws">> \in Edges
        /\ <<"header_lws", {SP, HT}, "header_lws">> \in Edges
    BY DEF Edges
  <2> QED BY <2>1, <2>2 DEF Permitted
<1>17. Leads("header_name") <=> 
              \/ p.state = "header_line_start" /\ c \in Token
              \/ p.state = "header_name" /\ c \in Token
  <2>1. \A e \in Edges : e[3] = "header_name" =>
           \/ e = <<"header_line_start", Token, "header_name">>
           \/ e = <<"header_name", Token, "header_name">>
    BY DEF Edges
  <2>2. /\ <<"header_line_start", Token, "header_name">> \in Edges
        /\ <<"header_name", Token, "header_name">> \in Edges
    BY DEF Edges
  <2> QED BY <2>1, <2>2 DEF Permitted
<1>18. Leads("expecting_newline_2") <=> 
              \/ p.state = "header_lws" /\ c = CR
              \/ p.state = "header_value" /\ c = CR
  <2>1. \A e \in Edges : e[3] = "expecting_newline_2" =>
           \/ e = <<"header_lws", {CR}, "expecting_newline_2">>
           \/ e = <<"header_value", {CR}, "expecting_newline_2">>
    BY DEF Edges
  <2>2. /\ <<"header_lws", {CR}, "expecting_newline_2">> \in Edges
        /\ <<"header_value", {CR}, "expecting_newline_2">> \in Edges
    BY DEF Edges
  <2> QED BY <2>1, <2>2 DEF Permitted
<1>19. Leads("header_value") <=> 
              \/ p.state = "header_lws" /\ c \in NonBlank
              \/ p.state = "space_before_header_value" /\ c = SP
              \/ p.state = "header_value" /\ c \in Text
  <2>1. \A e \in Edges : e[3] = "header_value" =>
           \/ e = <<"header_lws", NonBlank, "header_value">>
           \/ e = <<"space_before_header_value", {SP}, "header_value">>
           \/ e = <<"header_value", Text, "header_value">>
    BY DEF Edges
  <2>2. /\ <<"header_lws", NonBlank, "header_value">> \in Edges
        /\ <<"space_before_header_value", {SP}, "header_value">> \in Edges
        /\ <<"header_value", Text, "header_value">> \in Edges
    BY DEF Edges
  <2> QED BY <2>1, <2>2 DEF Permitted
<1>20. Leads("space_before_header_value") <=> (p.state = "header_name" /\ c = COLON)
  <2>1. \A e \in Edges : e[3] = "space_before_header_value" =>
           e = <<"header_name", {COLON}, "space_before_header_value">>
    BY DEF Edges
  <2>2. /\ <<"header_name", {COLON}, "space_before_header_value">> \in Edges
    BY DEF Edges
  <2> QED BY <2>1, <2>2 DEF Permitted
<1>21. Leads("good") <=> (p.state = "expecting_newline_3" /\ c = LF)
  <2>1. \A e \in Edges : e[3] = "good" =>
           e = <<"expecting_newline_3", {LF}, "good">>
    BY DEF Edges
  <2>2. /\ <<"expecting_newline_3", {LF}, "good">> \in Edges
    BY DEF Edges
  <2> QED BY <2>1, <2>2 DEF Permitted
<1> HIDE DEF Leads
<1> QED BY <1>0, <1>1, <1>2, <1>3, <1>4, <1>5, <1>6, <1>7, <1>8, <1>9, <1>10, <1>11, <1>12, <1>13, <1>14, <1>15, <1>16, <1>17, <1>18, <1>19, <1>20, <1>21 DEF MovesAre

LEMMA Steps ==
  ASSUME NEW p \in Parsers, NEW c, NEW q, q = Consume(c)[p]
  PROVE  /\ MovesAre(p, c, q.state)
         /\ q.state = "good" <=> \/ p.state = "expecting_newline_3" /\ c = LF
                                \/ p.state = "good"
         /\ q.headers <=> \/ p.headers
                          \/ p.state \notin Verdicts /\ q.state = "header_name"
<1>1. q = IF p.state \in Verdicts THEN p ELSE Enter(p, c, NextState(p, c))
  BY DEF Consume
<1>2. p.headers \in BOOLEAN
  BY DEF Parsers
<1>3. CASE p.state \in Verdicts
  <2>1. q = p
    BY <1>1, <1>3
  <2> QED BY <1>3, <2>1 DEF Verdicts, MovesAre
<1>4. CASE p.state \notin Verdicts
  <2>1. q.state = NextState(p, c) /\ q.headers = (p.headers \/ NextState(p, c) = "header_name")
    BY <1>1, <1>4 DEF Enter
  <2>2. q.headers <=> p.headers \/ q.state = "header_name"
    BY <1>2, <2>1
  <2>3. MovesAre(p, c, q.state) /\ (q.state = "good" <=> p.state = "expecting_newline_3" /\ c = LF)
    BY <2>1, Moves
  <2> QED BY <1>4, <2>2, <2>3 DEF Verdicts
<1> QED BY <1>3, <1>4
--------------------------------------------------------------------------------
(***************************************************************************)
(* What a text that has been read up to position n looks like when the     *)
(* parser is in each of its states.                                        *)
(***************************************************************************)
InMethod(t, n) == n >= 1 /\ All(t, 1, n, Token)
InUri(t, n) ==
  \E m \in 2..n : t[m] = SP /\ All(t, 1, m - 1, Token) /\ All(t, m + 1, n, NonBlank)

\* After k bytes of Version.
AtVersion(t, n, k) ==
  InUri(t, n - k - 1) /\ t[n - k] = SP /\ \A j \in 1..k : t[n - k + j] = Version[j]

InMajor(t, n) == \E u \in 1 .. n - 1 : AtVersion(t, u, 5) /\ All(t, u + 1, n, is_digit)
AtDot(t, n) == InMajor(t, n - 1) /\ t[n] = DOT
InMinor(t, n) == \E d \in 1 .. n - 1 : AtDot(t, d) /\ All(t, d + 1, n, is_digit)
RequestEnds(t, n) == InMinor(t, n - 1) /\ t[n] = CR

\* At the beginning of a line; and there is a header already.
AtLine(t, n) == \E request \in 1 .. n - 1 : IsHead(t, n, request)
AtLaterLine(t, n) == \E request \in 1 .. n - 2 : IsHead(t, n, request)

InName(t, n) == \E s \in 1 .. n - 1 : AtLine(t, s) /\ All(t, s + 1, n, Token)
AtColon(t, n) == InName(t, n - 1) /\ t[n] = COLON
InBlank(t, n) == \E s \in 1 .. n - 1 : AtLaterLine(t, s) /\ All(t, s + 1, n, {SP, HT})
IsContinued(t, first, n) ==
  \E k \in first .. n - 1 :
    All(t, first, k, {SP, HT}) /\ t[k + 1] \in NonBlank /\ All(t, k + 2, n, Text)
InValue(t, n) ==
  \E s \in 1 .. n - 1 : \/ AtLine(t, s) /\ IsField(t, s + 1, n)
                        \/ AtLaterLine(t, s) /\ IsContinued(t, s + 1, n)
LineEnds(t, n) == (InBlank(t, n - 1) \/ InValue(t, n - 1)) /\ t[n] = CR
HeadEnds(t, n) == AtLine(t, n - 1) /\ t[n] = CR

Early == {"method_start", "method", "uri", "http_version_h", "http_version_t_1",
          "http_version_t_2", "http_version_p", "http_version_slash",
          "http_version_major_start", "http_version_major", "http_version_minor_start",
          "http_version_minor", "expecting_newline_1"}
Late == {"header_name", "space_before_header_value", "header_lws", "header_value",
         "expecting_newline_2"}

\* Parser q has read t up to n.
Fits(t, n, q) ==
  /\ q.state = "method_start" <=> n = 0
  /\ q.state = "method" <=> InMethod(t, n)
  /\ q.state = "uri" <=> InUri(t, n)
  /\ q.state = "http_version_h" <=> AtVersion(t, n, 0)
  /\ q.state = "http_version_t_1" <=> AtVersion(t, n, 1)
  /\ q.state = "http_version_t_2" <=> AtVersion(t, n, 2)
  /\ q.state = "http_version_p" <=> AtVersion(t, n, 3)
  /\ q.state = "http_version_slash" <=> AtVersion(t, n, 4)
  /\ q.state = "http_version_major_start" <=> AtVersion(t, n, 5)
  /\ q.state = "http_version_major" <=> InMajor(t, n)
  /\ q.state = "http_version_minor_start" <=> AtDot(t, n)
  /\ q.state = "http_version_minor" <=> InMinor(t, n)
  /\ q.state = "expecting_newline_1" <=> RequestEnds(t, n)
  /\ q.state = "header_line_start" <=> AtLine(t, n)
  /\ q.state = "header_name" <=> InName(t, n)
  /\ q.state = "space_before_header_value" <=> AtColon(t, n)
  /\ q.state = "header_lws" <=> InBlank(t, n)
  /\ q.state = "header_value" <=> InValue(t, n)
  /\ q.state = "expecting_newline_2" <=> LineEnds(t, n)
  /\ q.state = "expecting_newline_3" <=> HeadEnds(t, n)
  /\ q.state = "good" <=> \E k \in 1..n : IsRequest(t, k)
  /\ q.state \in Early => ~ q.headers
  /\ q.state \in Late => q.headers
  /\ q.state = "header_line_start" => (q.headers <=> AtLaterLine(t, n))
--------------------------------------------------------------------------------
(***************************************************************************)
(* How these forms grow by a byte.                                         *)
(***************************************************************************)
LEMMA Greatest ==
  ASSUME NEW S \in SUBSET Nat, NEW b \in Nat, \A x \in S : x <= b, S # {}
  PROVE  \E m \in S : \A x \in S : x <= m
<1> SUFFICES ASSUME \A m \in S : \E x \in S : m < x PROVE FALSE
  OBVIOUS
<1> DEFINE T == {n \in Nat : \E x \in S : n <= x}
<1>1. 0 \in T
  <2>1. PICK x \in S : x \in Nat
    OBVIOUS
  <2> QED BY <2>1
<1>2. \A n \in Nat : n \in T => n + 1 \in T
  <2> TAKE n \in Nat
  <2> SUFFICES ASSUME NEW x \in S, n <= x PROVE \E y \in S : n + 1 <= y
    OBVIOUS
  <2>1. PICK y \in S : x < y
    OBVIOUS
  <2> QED BY <2>1
<1> HIDE DEF T
<1>3. b + 1 \in T
  BY <1>1, <1>2, Induction
<1> QED BY <1>3 DEF T

LEMMA MethodGrows ==
  ASSUME NEW t, NEW n \in Nat \ {0}
  PROVE  InMethod(t, n) <=> (n - 1 = 0 \/ InMethod(t, n - 1)) /\ t[n] \in Token
BY DEF InMethod, All

LEMMA UriGrows ==
  ASSUME NEW t, NEW n \in Nat \ {0}
  PROVE  InUri(t, n) <=> \/ InMethod(t, n - 1) /\ t[n] = SP
                         \/ InUri(t, n - 1) /\ t[n] \in NonBlank
<1>1. ASSUME InUri(t, n)
      PROVE  \/ InMethod(t, n - 1) /\ t[n] = SP
             \/ InUri(t, n - 1) /\ t[n] \in NonBlank
  <2>1. PICK m \in 2..n : t[m] = SP /\ All(t, 1, m - 1, Token) /\ All(t, m + 1, n, NonBlank)
    BY <1>1 DEF InUri
  <2>2. CASE m = n
    <3>1. n - 1 >= 1
      BY <2>2
    <3>2. t[n] = SP
      BY <2>1, <2>2
    <3>3. m - 1 = n - 1
      BY <2>2
    <3>4. All(t, 1, n - 1, Token)
      BY <2>1, <3>3
    <3> QED BY <3>1, <3>2, <3>4 DEF InMethod
  <2>3. CASE m < n
    <3>1. m \in 2 .. n - 1 /\ All(t, m + 1, n - 1, NonBlank) /\ t[n] \in NonBlank
      BY <2>1, <2>3 DEF All
    <3> QED BY <2>1, <3>1 DEF InUri
  <2> QED BY <2>2, <2>3
<1>2. ASSUME InMethod(t, n - 1), t[n] = SP
      PROVE  InUri(t, n)
  <2>1. n \in 2..n /\ All(t, n + 1, n, NonBlank)
    BY <1>2 DEF InMethod, All
  <2> QED BY <1>2, <2>1 DEF InMethod, InUri
<1>3. ASSUME InUri(t, n - 1), t[n] \in NonBlank
      PROVE  InUri(t, n)
  <2>1. PICK m \in 2 .. n - 1 :
               t[m] = SP /\ All(t, 1, m - 1, Token) /\ All(t, m + 1, n - 1, NonBlank)
    BY <1>3 DEF InUri
  <2>2. m \in 2..n /\ All(t, m + 1, n, NonBlank)
    BY <1>3, <2>1 DEF All
  <2> QED BY <2>1, <2>2 DEF InUri
<1> QED BY <1>1, <1>2, <1>3

LEMMA VersionGrows ==
  ASSUME NEW t, NEW n \in Nat \ {0}
  PROVE  /\ AtVersion(t, n, 0) <=> InUri(t, n - 1) /\ t[n] = SP
         /\ \A k \in 1..5 :
              AtVersion(t, n, k) <=> AtVersion(t, n - 1, k - 1) /\ t[n] = Version[k]
<1>1. AtVersion(t, n, 0) <=> InUri(t, n - 1) /\ t[n] = SP
  BY n - 0 = n, n - 0 - 1 = n - 1 DEF AtVersion
<1>2. ASSUME NEW k \in 1..5
      PROVE  AtVersion(t, n, k) <=> AtVersion(t, n - 1, k - 1) /\ t[n] = Version[k]
  <2>1. /\ (n - 1) - (k - 1) - 1 = n - k - 1 /\ (n - 1) - (k - 1) = n - k
        /\ \A j \in 1 .. k - 1 : (n - 1) - (k - 1) + j = n - k + j
        /\ n - k + k = n
    OBVIOUS
  <2>2. (\A j \in 1..k : t[n - k + j] = Version[j])
          <=> (\A j \in 1 .. k - 1 : t[n - k + j] = Version[j]) /\ t[n] = Version[k]
    <3>1. 1..k = 1 .. k - 1 \cup {k}
      OBVIOUS
    <3> QED BY <2>1, <3>1
  <2> QED BY <2>1, <2>2 DEF AtVersion
<1> QED BY <1>1, <1>2

\* A run of bytes of one class after a position of some kind.
LEMMA RunGrows ==
  ASSUME NEW t, NEW n \in Nat \ {0}, NEW S \in SUBSET Nat, NEW class
  PROVE  (\E s \in 1 .. n - 1 : s \in S /\ All(t, s + 1, n, class))
           <=> /\ \/ n - 1 \in S /\ n > 1
                  \/ \E s \in 1 .. n - 2 : s \in S /\ All(t, s + 1, n - 1, class)
               /\ t[n] \in class
<1>1. ASSUME NEW s \in 1 .. n - 1, s \in S, All(t, s + 1, n, class)
      PROVE  /\ \/ n - 1 \in S /\ n > 1
                \/ \E r \in 1 .. n - 2 : r \in S /\ All(t, r + 1, n - 1, class)
             /\ t[n] \in class
  <2>1. t[n] \in class /\ All(t, s + 1, n - 1, class)
    BY <1>1 DEF All
  <2> QED BY <1>1, <2>1
<1>2. ASSUME n - 1 \in S, n > 1, t[n] \in class
      PROVE  \E s \in 1 .. n - 1 : s \in S /\ All(t, s + 1, n, class)
  BY <1>2 DEF All
<1>3. ASSUME NEW s \in 1 .. n - 2, s \in S, All(t, s + 1, n - 1, class), t[n] \in class
      PROVE  \E r \in 1 .. n - 1 : r \in S /\ All(t, r + 1, n, class)
  BY <1>3 DEF All
<1> QED BY <1>1, <1>2, <1>3

LEMMA NumbersGrow ==
  ASSUME NEW t, NEW n \in Nat \ {0}
  PROVE  /\ InMajor(t, n) <=> (AtVersion(t, n - 1, 5) \/ InMajor(t, n - 1)) /\ t[n] \in is_digit
         /\ InMinor(t, n) <=> (AtDot(t, n - 1) \/ InMinor(t, n - 1)) /\ t[n] \in is_digit
<1>1. AtVersion(t, n - 1, 5) => n > 1
  BY DEF AtVersion, InUri
<1>2. AtDot(t, n - 1) => n > 1
  BY DEF AtDot, InMajor
<1>3. InMajor(t, n) <=> (AtVersion(t, n - 1, 5) \/ InMajor(t, n - 1)) /\ t[n] \in is_digit
  <2> DEFINE S == {s \in Nat : AtVersion(t, s, 5)}
  <2>1. \A m \in Nat : InMajor(t, m) <=> \E s \in 1 .. m - 1 : s \in S /\ All(t, s + 1, m, is_digit)
    BY DEF InMajor
  <2>2. n - 1 \in S <=> AtVersion(t, n - 1, 5)
    OBVIOUS
  <2>3. S \in SUBSET Nat /\ n - 1 \in Nat /\ n - 1 - 1 = n - 2
    OBVIOUS
  <2> HIDE DEF S
  <2> QED BY <1>1, <2>1, <2>2, <2>3, RunGrows
<1>4. InMinor(t, n) <=> (AtDot(t, n - 1) \/ InMinor(t, n - 1)) /\ t[n] \in is_digit
  <2> DEFINE S == {s \in Nat : AtDot(t, s)}
  <2>1. \A m \in Nat : InMinor(t, m) <=> \E s \in 1 .. m - 1 : s \in S /\ All(t, s + 1, m, is_digit)
    BY DEF InMinor
  <2>2. n - 1 \in S <=> AtDot(t, n - 1)
    OBVIOUS
  <2>3. S \in SUBSET Nat /\ n - 1 \in Nat /\ n - 1 - 1 = n - 2
    OBVIOUS
  <2> HIDE DEF S
  <2> QED BY <1>2, <2>1, <2>2, <2>3, RunGrows
<1> QED BY <1>3, <1>4

LEMMA NamesGrow ==
  ASSUME NEW t, NEW n \in Nat \ {0}
  PROVE  /\ InName(t, n) <=> (AtLine(t, n - 1) \/ InName(t, n - 1)) /\ t[n] \in Token
         /\ InBlank(t, n) <=> (AtLaterLine(t, n - 1) \/ InBlank(t, n - 1)) /\ t[n] \in {SP, HT}
<1>1. AtLine(t, n - 1) => n > 1
  BY DEF AtLine
<1>2. AtLaterLine(t, n - 1) => n > 1
  BY DEF AtLaterLine
<1>3. InName(t, n) <=> (AtLine(t, n - 1) \/ InName(t, n - 1)) /\ t[n] \in Token
  <2> DEFINE S == {s \in Nat : AtLine(t, s)}
  <2>1. \A m \in Nat : InName(t, m) <=> \E s \in 1 .. m - 1 : s \in S /\ All(t, s + 1, m, Token)
    BY DEF InName
  <2>2. n - 1 \in S <=> AtLine(t, n - 1)
    OBVIOUS
  <2>3. S \in SUBSET Nat /\ n - 1 \in Nat /\ n - 1 - 1 = n - 2
    OBVIOUS
  <2> HIDE DEF S
  <2> QED BY <1>1, <2>1, <2>2, <2>3, RunGrows
<1>4. InBlank(t, n) <=> (AtLaterLine(t, n - 1) \/ InBlank(t, n - 1)) /\ t[n] \in {SP, HT}
  <2> DEFINE S == {s \in Nat : AtLaterLine(t, s)}
             class == {SP, HT}
  <2>1. \A m \in Nat : InBlank(t, m) <=> \E s \in 1 .. m - 1 : s \in S /\ All(t, s + 1, m, class)
    BY DEF InBlank
  <2>2. n - 1 \in S <=> AtLaterLine(t, n - 1)
    OBVIOUS
  <2>3. S \in SUBSET Nat /\ n - 1 \in Nat /\ n - 1 - 1 = n - 2
    OBVIOUS
  <2> HIDE DEF S, class
  <2>4. InBlank(t, n) <=> (AtLaterLine(t, n - 1) \/ InBlank(t, n - 1)) /\ t[n] \in class
    BY <1>2, <2>1, <2>2, <2>3, RunGrows
  <2> QED BY <2>4 DEF class
<1> QED BY <1>3, <1>4

LEMMA VersionIs ==
  ASSUME NEW t \in Seq(Char), NEW u \in Nat, u + 5 <= Len(t)
  PROVE  SubSeq(t, u + 1, u + 5) = Version <=> \A j \in 1..5 : t[u + j] = Version[j]
<1> PICK v : v = SubSeq(t, u + 1, u + 5)
  OBVIOUS
<1>1. v \in Seq(Char) /\ Len(v) = 5 /\ \A j \in 1..5 : v[j] = t[u + j]
  <2>1. u + 1 \in 1 .. Len(t) + 1 /\ u + 5 \in u + 1 - 1 .. Len(t)
    BY LenProperties
  <2>2. /\ u + 5 - (u + 1) + 1 = 5
        /\ \A j \in 1..5 : u + 1 + j - 1 = u + j
    OBVIOUS
  <2> QED BY <2>1, <2>2, SubSeqProperties
<1>2. Version \in Seq(Char) /\ Len(Version) = 5
  BY DEF Version, Char, SLASH
<1>3. v = Version <=> \A j \in 1..5 : v[j] = Version[j]
  BY <1>1, <1>2, SeqEqual
<1> QED BY <1>1, <1>3

LEMMA RequestLine ==
  ASSUME NEW t \in Seq(Char), NEW n \in Nat, n <= Len(t) + 1
  PROVE  IsRequestLine(t, n) <=> InMinor(t, n - 1)
<1>l. PICK l \in Nat : l = Len(t)
  BY LenProperties
<1>1. ASSUME IsRequestLine(t, n) PROVE InMinor(t, n - 1)
  <2>1. PICK m \in 2..n, u \in Int, d \in Int :
          /\ u \in m + 1 .. n - 8 /\ d \in u + 7 .. n - 2
          /\ t[m] = SP /\ All(t, 1, m - 1, Token)
          /\ t[u] = SP /\ All(t, m + 1, u - 1, NonBlank)
          /\ SubSeq(t, u + 1, u + 5) = Version
          /\ t[d] = DOT
          /\ All(t, u + 6, d - 1, is_digit)
          /\ All(t, d + 1, n - 1, is_digit)
    BY <1>1 DEF IsRequestLine
  <2>2. InUri(t, u - 1)
    BY <2>1 DEF InUri
  <2> DEFINE v == u + 5
  <2>3. v - 5 = u /\ v - 5 - 1 = u - 1 /\ v + 1 = u + 6 /\ v \in 1 .. d - 1 - 1
    BY <2>1
  <2>4. \A j \in 1..5 : t[u + j] = Version[j]
    BY <2>1, <1>l, VersionIs
  <2> HIDE DEF v
  <2>5. AtVersion(t, v, 5)
    BY <2>1, <2>2, <2>3, <2>4 DEF AtVersion
  <2>6. InMajor(t, d - 1)
    BY <2>1, <2>3, <2>5 DEF InMajor
  <2>7. AtDot(t, d) /\ d \in 1 .. n - 1 - 1
    BY <2>1, <2>6 DEF AtDot
  <2> QED BY <2>1, <2>7 DEF InMinor
<1>2. ASSUME InMinor(t, n - 1) PROVE IsRequestLine(t, n)
  <2>1. PICK d \in 1 .. n - 1 - 1 : AtDot(t, d) /\ All(t, d + 1, n - 1, is_digit)
    BY <1>2 DEF InMinor
  <2>2. PICK v \in 1 .. d - 1 - 1 : AtVersion(t, v, 5) /\ All(t, v + 1, d - 1, is_digit)
    BY <2>1 DEF AtDot, InMajor
  <2> DEFINE u == v - 5
  <2>3. v - 5 - 1 = u - 1 /\ v + 1 = u + 6
    OBVIOUS
  <2>4. InUri(t, u - 1) /\ t[u] = SP /\ \A j \in 1..5 : t[u + j] = Version[j]
    BY <2>2, <2>3 DEF AtVersion
  <2>5. PICK m \in 2 .. u - 1 :
               t[m] = SP /\ All(t, 1, m - 1, Token) /\ All(t, m + 1, u - 1, NonBlank)
    BY <2>4 DEF InUri
  <2>6. u \in m + 1 .. n - 8 /\ m \in 2..n /\ d \in u + 7 .. n - 2 /\ u \in Nat
    OBVIOUS
  <2>8. t[d] = DOT /\ All(t, u + 6, d - 1, is_digit)
    BY <2>1, <2>2, <2>3 DEF AtDot
  <2> HIDE DEF u
  <2>7. SubSeq(t, u + 1, u + 5) = Version
    <3>1. u \in Nat /\ u + 5 <= Len(t)
      BY <2>6, <1>l
    <3> QED BY <2>4, <3>1, VersionIs
  <2> QED BY <2>1, <2>4, <2>5, <2>6, <2>7, <2>8 DEF IsRequestLine
<1> QED BY <1>1, <1>2

\* No line contains a CR.
LEMMA RequestLineIs ==
  ASSUME NEW t \in Seq(Char), NEW n \in Nat, n <= Len(t) + 1, IsRequestLine(t, n)
  PROVE  n > 1 /\ \A i \in 1 .. n - 1 : t[i] # CR
<1>l. PICK l \in Nat : l = Len(t)
  BY LenProperties
<1>1. PICK m \in 2..n, u \in Int, d \in Int :
        /\ u \in m + 1 .. n - 8 /\ d \in u + 7 .. n - 2
        /\ t[m] = SP /\ All(t, 1, m - 1, Token)
        /\ t[u] = SP /\ All(t, m + 1, u - 1, NonBlank)
        /\ SubSeq(t, u + 1, u + 5) = Version
        /\ t[d] = DOT
        /\ All(t, u + 6, d - 1, is_digit)
        /\ All(t, d + 1, n - 1, is_digit)
  BY DEF IsRequestLine
<1>2. \A j \in 1..5 : t[u + j] = Version[j]
  <2>1. u \in Nat /\ u + 5 <= Len(t) /\ SubSeq(t, u + 1, u + 5) = Version
    BY <1>1, <1>l
  <2> QED BY <2>1, VersionIs
<1>3. t[u + 1] # CR /\ t[u + 2] # CR /\ t[u + 3] # CR /\ t[u + 4] # CR /\ t[u + 5] # CR
  <2>1. \A j \in 1..5 : Version[j] # CR
    BY DEF Version, CR, SLASH
  <2>2. \A j \in 1..5 : t[u + j] # CR
    BY <1>2, <2>1
  <2>3. 1 \in 1..5 /\ 2 \in 1..5 /\ 3 \in 1..5 /\ 4 \in 1..5 /\ 5 \in 1..5
    OBVIOUS
  <2> QED BY <2>2, <2>3
<1>4. t[m] # CR /\ t[u] # CR /\ t[d] # CR
  BY <1>1 DEF SP, DOT, CR
<1> SUFFICES ASSUME NEW i \in 1 .. n - 1 PROVE t[i] # CR
  BY <1>1
<1>5. CASE i \in 1 .. m - 1
  BY <1>1, <1>5, Classes DEF All
<1>6. CASE i \in m + 1 .. u - 1
  BY <1>1, <1>6, Classes DEF All
<1>7. CASE i \in u + 6 .. d - 1 \/ i \in d + 1 .. n - 1
  BY <1>1, <1>7, Classes DEF All
<1>8. CASE i \in {m, u, d, u + 1, u + 2, u + 3, u + 4, u + 5}
  BY <1>3, <1>4, <1>8
<1>9. i \in 1 .. m - 1 \cup m + 1 .. u - 1 \cup u + 6 .. d - 1 \cup d + 1 .. n - 1
            \cup {m, u, d, u + 1, u + 2, u + 3, u + 4, u + 5}
  BY <1>1
<1> QED BY <1>5, <1>6, <1>7, <1>8, <1>9

\* A continuation is blank, or it has a first byte that is not.
LEMMA ContinuationIs ==
  ASSUME NEW t, NEW a \in Nat \ {0}, NEW b \in Nat
  PROVE  IsContinuation(t, a, b) <=> \/ a <= b /\ All(t, a, b, {SP, HT})
                                     \/ IsContinued(t, a, b)
<1>1. ASSUME IsContinuation(t, a, b), ~ All(t, a, b, {SP, HT}) PROVE IsContinued(t, a, b)
  <2> DEFINE K == {k \in a..b : All(t, a, k, {SP, HT}) /\ All(t, k + 1, b, Text)}
  <2>1. K # {} /\ K \in SUBSET Nat /\ \A k \in K : k <= b
    BY <1>1 DEF IsContinuation
  <2>2. PICK k \in K : \A x \in K : x <= k
    <3> HIDE DEF K
    <3> QED BY <2>1, Greatest
  <2>3. k < b
    BY <1>1, k # b
  <2>4. t[k + 1] \in Text /\ All(t, k + 2, b, Text)
    <3>1. \A i \in k + 2 .. b : i \in k + 1 .. b
      OBVIOUS
    <3> QED BY <2>2, <2>3, <3>1 DEF All
  <2>5. t[k + 1] # SP
    <3> SUFFICES ASSUME t[k + 1] = SP PROVE FALSE
      OBVIOUS
    <3>1. All(t, a, k + 1, {SP, HT})
      BY <2>2 DEF All
    <3>2. k + 1 + 1 = k + 2 /\ k + 1 \in a..b
      BY <2>3
    <3>3. k + 1 \in K
      BY <2>4, <3>1, <3>2
    <3> QED BY <2>2, <3>3
  <2>6. k \in a .. b - 1 /\ t[k + 1] \in NonBlank
    BY <2>3, <2>4, <2>5 DEF NonBlank
  <2> QED BY <2>2, <2>4, <2>6 DEF IsContinued
<1>2. ASSUME IsContinuation(t, a, b) PROVE a <= b
  BY <1>2 DEF IsContinuation
<1>3. ASSUME a <= b, All(t, a, b, {SP, HT}) PROVE IsContinuation(t, a, b)
  BY <1>3 DEF IsContinuation, All
<1>4. ASSUME IsContinued(t, a, b) PROVE IsContinuation(t, a, b)
  <2>1. PICK k \in a .. b - 1 :
               All(t, a, k, {SP, HT}) /\ t[k + 1] \in NonBlank /\ All(t, k + 2, b, Text)
    BY <1>4 DEF IsContinued
  <2>2. \A i \in k + 1 .. b : i = k + 1 \/ i \in k + 2 .. b
    OBVIOUS
  <2>3. k \in a..b /\ All(t, k + 1, b, Text)
    BY <2>1, <2>2 DEF All, NonBlank
  <2> QED BY <2>1, <2>3 DEF IsContinuation
<1> QED BY <1>1, <1>2, <1>3, <1>4

LEMMA LinesHaveNoCR ==
  ASSUME NEW t, NEW a \in Nat \ {0}, NEW b \in Nat,
         IsField(t, a, b) \/ IsContinuation(t, a, b)
  PROVE  a <= b /\ \A i \in a..b : t[i] # CR
<1>1. CASE IsField(t, a, b)
  <2>1. PICK k \in a + 1 .. b - 1 : /\ t[k] = COLON /\ t[k + 1] = SP
                                    /\ All(t, a, k - 1, Token) /\ All(t, k + 2, b, Text)
    BY <1>1 DEF IsField
  <2> QED BY <2>1, Classes DEF All
<1>2. CASE IsContinuation(t, a, b)
  <2>1. PICK k \in a..b : All(t, a, k, {SP, HT}) /\ All(t, k + 1, b, Text)
    BY <1>2 DEF IsContinuation
  <2> QED BY <2>1, Classes DEF All
<1> QED BY <1>1, <1>2
--------------------------------------------------------------------------------
\* How far the header goes: the request line ends it, or one more line does.
LEMMA HeadBegins ==
  ASSUME NEW t \in Seq(Char), NEW n \in Nat \ {0}, n <= Len(t)
  PROVE  IsHead(t, n, n - 1) <=> IsRequestLine(t, n - 1) /\ t[n - 1] = CR /\ t[n] = LF
<1>1. ASSUME IsHead(t, n, n - 1)
      PROVE  IsRequestLine(t, n - 1) /\ t[n - 1] = CR /\ t[n] = LF
  <2>1. n - 1 \in Ends(t, n) /\ n - 1 + 1 = n
    BY <1>1 DEF IsHead
  <2>2. t[n] = LF
    BY <1>1, <2>1 DEF IsHead
  <2> QED BY <1>1, <2>1, <2>2 DEF IsHead, Ends
<1>2. ASSUME IsRequestLine(t, n - 1), t[n - 1] = CR, t[n] = LF
      PROVE  IsHead(t, n, n - 1)
  <2>l. PICK l \in Nat : l = Len(t)
    BY LenProperties
  <2>1. n - 1 > 1 /\ \A i \in 1 .. n - 1 - 1 : t[i] # CR
    BY <1>2, <2>l, RequestLineIs
  <2>2. Ends(t, n) = {n - 1}
    BY <1>2, <2>1, Classes DEF Ends
  <2> QED BY <1>2, <2>2 DEF IsHead, Adjacent
<1> QED BY <1>1, <1>2

LEMMA HeadGrows ==
  ASSUME NEW t \in Seq(Char), NEW n \in Nat \ {0}, NEW request \in 1 .. n - 2
  PROVE  IsHead(t, n, request)
           <=> /\ t[n - 1] = CR /\ t[n] = LF
               /\ \E s \in 1 .. n - 2 :
                    /\ IsHead(t, s, request)
                    /\ \/ IsField(t, s + 1, n - 2)
                       \/ IsContinuation(t, s + 1, n - 2) /\ request # s - 1
<1>1. ASSUME IsHead(t, n, request)
      PROVE  /\ t[n - 1] = CR /\ t[n] = LF
             /\ \E s \in 1 .. n - 2 :
                  /\ IsHead(t, s, request)
                  /\ \/ IsField(t, s + 1, n - 2)
                     \/ IsContinuation(t, s + 1, n - 2) /\ request # s - 1
  <2>1. /\ IsRequestLine(t, request)
        /\ request \in Ends(t, n) /\ n - 1 \in Ends(t, n)
        /\ \A i \in Ends(t, n) : i < n /\ t[i + 1] = LF
        /\ \A i, j \in Ends(t, n) : Adjacent(t, i, j) =>
             \/ IsField(t, i + 2, j - 1)
             \/ IsContinuation(t, i + 2, j - 1) /\ i # request
    BY <1>1 DEF IsHead
  <2>2. t[n - 1] = CR /\ t[n] = LF
    BY <2>1, n - 1 + 1 = n DEF Ends
  <2> DEFINE E == {i \in Ends(t, n) : i < n - 1}
  <2>3. E \in SUBSET Nat /\ (\A x \in E : x <= n) /\ request \in E
    BY <2>1 DEF Ends
  <2>4. PICK j \in E : \A x \in E : x <= j
    <3> HIDE DEF E
    <3> QED BY <2>3, Greatest
  <2>5. j \in Ends(t, n) /\ j \in Nat /\ j < n - 1 /\ j >= 1 /\ request <= j
    BY <2>3, <2>4 DEF Ends
  <2>6. Adjacent(t, j, n - 1)
    <3> SUFFICES ASSUME NEW k \in j + 1 .. n - 1 - 1, t[k] = CR PROVE FALSE
      BY <2>5 DEF Adjacent
    <3>1. k \in E /\ ~ (k <= j)
      BY <2>5 DEF Ends
    <3> QED BY <2>4, <3>1
  <2> DEFINE s == j + 1
  <2>7. /\ j + 2 = s + 1 /\ n - 1 - 1 = n - 2 /\ j = s - 1 /\ s \in 1 .. n - 1
        /\ t[s] = LF
    BY <2>1, <2>5
  <2>8. \/ IsField(t, s + 1, n - 2)
        \/ IsContinuation(t, s + 1, n - 2) /\ request # s - 1
    BY <2>1, <2>5, <2>6, <2>7
  <2>9. s + 1 <= n - 2
    BY <2>5, <2>7, <2>8, LinesHaveNoCR
  <2>10. Ends(t, s) = E
    <3>1. ASSUME NEW i \in Ends(t, s) PROVE i \in E
      <4>1. i \in 1..s /\ t[i] = CR /\ i # s
        BY <2>7, Classes DEF Ends
      <4> QED BY <2>5, <4>1 DEF Ends
    <3>2. ASSUME NEW i \in E PROVE i \in Ends(t, s)
      BY <2>4, <2>5 DEF Ends
    <3> QED BY <3>1, <3>2
  <2>11. \A i \in Ends(t, s) : i < s /\ t[i + 1] = LF /\ i \in Ends(t, n)
    BY <2>1, <2>3, <2>4, <2>5, <2>10
  <2>12. request \in Ends(t, s) /\ s - 1 \in Ends(t, s)
    BY <2>3, <2>4, <2>7, <2>10
  <2> HIDE DEF E, s
  <2>13. IsHead(t, s, request)
    BY <2>1, <2>11, <2>12 DEF IsHead
  <2>14. s \in 1 .. n - 2
    BY <2>7, <2>9
  <2> QED BY <2>2, <2>8, <2>13, <2>14
<1>2. ASSUME NEW s \in 1 .. n - 2, IsHead(t, s, request), t[n - 1] = CR, t[n] = LF,
             \/ IsField(t, s + 1, n - 2)
             \/ IsContinuation(t, s + 1, n - 2) /\ request # s - 1
      PROVE  IsHead(t, n, request)
  <2>1. /\ IsRequestLine(t, request)
        /\ request \in Ends(t, s) /\ s - 1 \in Ends(t, s)
        /\ \A i \in Ends(t, s) : i < s /\ t[i + 1] = LF
        /\ \A i, j \in Ends(t, s) : Adjacent(t, i, j) =>
             \/ IsField(t, i + 2, j - 1)
             \/ IsContinuation(t, i + 2, j - 1) /\ i # request
    BY <1>2 DEF IsHead
  <2>2. s + 1 <= n - 2 /\ \A i \in s + 1 .. n - 2 : t[i] # CR
    BY <1>2, LinesHaveNoCR
  <2>3. Ends(t, n) = Ends(t, s) \cup {n - 1}
    <3>1. ASSUME NEW i \in Ends(t, n), i # n - 1 PROVE i \in Ends(t, s)
      <4>1. i \in 1..n /\ t[i] = CR /\ i # n
        BY <1>2, Classes DEF Ends
      <4>2. i \notin s + 1 .. n - 2
        BY <2>2, <4>1
      <4> QED BY <3>1, <4>1, <4>2 DEF Ends
    <3>2. Ends(t, s) \subseteq Ends(t, n) /\ n - 1 \in Ends(t, n)
      BY <1>2 DEF Ends
    <3> QED BY <3>1, <3>2
  <2>4. Ends(t, s) \subseteq 1 .. s - 1
    BY <2>1 DEF Ends
  <2>5. \A i \in Ends(t, n) : i < n /\ t[i + 1] = LF
    BY <1>2, <2>1, <2>3, <2>4, n - 1 + 1 = n
  <2>6. ASSUME NEW i \in Ends(t, n), NEW j \in Ends(t, n), Adjacent(t, i, j)
        PROVE  \/ IsField(t, i + 2, j - 1)
               \/ IsContinuation(t, i + 2, j - 1) /\ i # request
    <3>1. CASE j \in Ends(t, s)
      <4>1. i \in Ends(t, s)
        BY <2>3, <2>4, <2>6, <3>1 DEF Adjacent
      <4> QED BY <2>1, <2>6, <3>1, <4>1
    <3>2. CASE j = n - 1
      <4>1. i \in Ends(t, s) /\ i \in 1 .. s - 1
        BY <2>3, <2>4, <2>6, <3>2 DEF Adjacent
      <4>2. t[s - 1] = CR
        BY <2>1 DEF Ends
      <4>3. i = s - 1
        <5> SUFFICES ASSUME i < s - 1 PROVE FALSE
          BY <4>1
        <5>1. s - 1 \in i + 1 .. j - 1
          BY <3>2, <4>1
        <5> QED BY <2>6, <4>2, <5>1 DEF Adjacent
      <4>4. i + 2 = s + 1 /\ j - 1 = n - 2
        BY <3>2, <4>3
      <4> QED BY <1>2, <4>3, <4>4
    <3> QED BY <2>3, <3>1, <3>2
  <2> QED BY <2>1, <2>3, <2>5, <2>6 DEF IsHead
<1> QED BY <1>1, <1>2

LEMMA LineStarts ==
  ASSUME NEW t \in Seq(Char), NEW n \in Nat \ {0}, n <= Len(t)
  PROVE  /\ AtLine(t, n) <=> (RequestEnds(t, n - 1) \/ LineEnds(t, n - 1)) /\ t[n] = LF
         /\ AtLaterLine(t, n) <=> LineEnds(t, n - 1) /\ t[n] = LF
<1>n. n - 1 - 1 = n - 2 /\ n - 2 - 1 = n - 3 /\ n - 1 \in Nat
  OBVIOUS
<1>1. ASSUME AtLaterLine(t, n) PROVE LineEnds(t, n - 1) /\ t[n] = LF
  <2>1. PICK request \in 1 .. n - 2 : IsHead(t, n, request)
    BY <1>1 DEF AtLaterLine
  <2>2. /\ t[n - 1] = CR /\ t[n] = LF
        /\ \E s \in 1 .. n - 2 :
             /\ IsHead(t, s, request)
             /\ \/ IsField(t, s + 1, n - 2)
                \/ IsContinuation(t, s + 1, n - 2) /\ request # s - 1
    BY <2>1, HeadGrows
  <2>3. PICK s \in 1 .. n - 2 :
          /\ IsHead(t, s, request)
          /\ \/ IsField(t, s + 1, n - 2)
             \/ IsContinuation(t, s + 1, n - 2) /\ request # s - 1
    BY <2>2
  <2>4. s + 1 <= n - 2
    BY <2>3, LinesHaveNoCR
  <2>5. s \in 1 .. n - 2 - 1 /\ request \in 1 .. s - 1
    BY <2>3, <2>4 DEF IsHead, Ends
  <2>6. InBlank(t, n - 2) \/ InValue(t, n - 2)
    <3>1. CASE IsField(t, s + 1, n - 2)
      <4>1. AtLine(t, s)
        BY <2>3, <2>5 DEF AtLine
      <4> QED BY <2>5, <3>1, <4>1 DEF InValue
    <3>2. CASE IsContinuation(t, s + 1, n - 2) /\ request # s - 1
      <4>1. AtLaterLine(t, s)
        BY <2>3, <2>5, <3>2 DEF AtLaterLine
      <4>2. All(t, s + 1, n - 2, {SP, HT}) \/ IsContinued(t, s + 1, n - 2)
        <5>1. s + 1 \in Nat \ {0} /\ n - 2 \in Nat
          OBVIOUS
        <5> QED BY <3>2, <5>1, ContinuationIs
      <4> QED BY <2>5, <4>1, <4>2 DEF InBlank, InValue
    <3> QED BY <2>3, <3>1, <3>2
  <2> QED BY <1>n, <2>2, <2>6 DEF LineEnds
<1>2. ASSUME LineEnds(t, n - 1), t[n] = LF PROVE AtLaterLine(t, n)
  <2>1. t[n - 1] = CR /\ (InBlank(t, n - 2) \/ InValue(t, n - 2))
    BY <1>2, <1>n DEF LineEnds
  <2>2. PICK s \in 1 .. n - 2 - 1 :
          \/ AtLine(t, s) /\ IsField(t, s + 1, n - 2)
          \/ AtLaterLine(t, s) /\ IsContinuation(t, s + 1, n - 2)
    <3>1. CASE InBlank(t, n - 2)
      <4>1. PICK s \in 1 .. n - 2 - 1 : AtLaterLine(t, s) /\ All(t, s + 1, n - 2, {SP, HT})
        BY <3>1 DEF InBlank
      <4>2. s + 1 <= n - 2 /\ s + 1 \in Nat \ {0} /\ n - 2 \in Nat
        OBVIOUS
      <4> QED BY <4>1, <4>2, ContinuationIs
    <3>2. CASE InValue(t, n - 2)
      <4>1. PICK s \in 1 .. n - 2 - 1 :
              \/ AtLine(t, s) /\ IsField(t, s + 1, n - 2)
              \/ AtLaterLine(t, s) /\ IsContinued(t, s + 1, n - 2)
        BY <3>2 DEF InValue
      <4>2. s + 1 \in Nat \ {0} /\ n - 2 \in Nat
        OBVIOUS
      <4> QED BY <4>1, <4>2, ContinuationIs
    <3> QED BY <2>1, <3>1, <3>2
  <2>3. PICK request \in 1 .. s - 1 :
          /\ IsHead(t, s, request)
          /\ \/ IsField(t, s + 1, n - 2)
             \/ IsContinuation(t, s + 1, n - 2) /\ request # s - 1
    <3>1. CASE AtLine(t, s) /\ IsField(t, s + 1, n - 2)
      BY <3>1 DEF AtLine
    <3>2. CASE AtLaterLine(t, s) /\ IsContinuation(t, s + 1, n - 2)
      BY <3>2 DEF AtLaterLine
    <3> QED BY <2>2, <3>1, <3>2
  <2>4. s \in 1 .. n - 2 /\ request \in 1 .. n - 2
    OBVIOUS
  <2>5. IsHead(t, n, request)
    BY <1>2, <2>1, <2>3, <2>4, HeadGrows
  <2> QED BY <2>4, <2>5 DEF AtLaterLine
<1>3. AtLine(t, n) <=> AtLaterLine(t, n) \/ IsHead(t, n, n - 1)
  <2>1. IsHead(t, n, n - 1) => n - 1 \in 1 .. n - 1
    BY DEF IsHead, Ends
  <2>2. 1 .. n - 1 \subseteq 1 .. n - 2 \cup {n - 1} /\ 1 .. n - 2 \subseteq 1 .. n - 1
    OBVIOUS
  <2> QED BY <2>1, <2>2 DEF AtLine, AtLaterLine
<1>4. IsHead(t, n, n - 1) <=> RequestEnds(t, n - 1) /\ t[n] = LF
  <2>l. PICK l \in Nat : l = Len(t)
    BY LenProperties
  <2>1. IsRequestLine(t, n - 1) <=> InMinor(t, n - 2)
    <3>1. n - 1 <= Len(t) + 1
      BY <2>l
    <3> QED BY <1>n, <3>1, RequestLine
  <2> QED BY <1>n, <2>1, HeadBegins DEF RequestEnds
<1> QED BY <1>1, <1>2, <1>3, <1>4

LEMMA FieldGrows ==
  ASSUME NEW t, NEW a \in Nat \ {0}, NEW n \in Nat \ {0}
  PROVE  IsField(t, a, n)
           <=> \/ /\ a <= n - 2 /\ All(t, a, n - 2, Token)
                  /\ t[n - 1] = COLON /\ t[n] = SP
               \/ IsField(t, a, n - 1) /\ t[n] \in Text
<1>n. n - 1 - 1 = n - 2 /\ n - 1 + 1 = n /\ n - 1 + 2 = n + 1
  OBVIOUS
<1>1. ASSUME NEW k \in a + 1 .. n - 1, t[k] = COLON, t[k + 1] = SP,
             All(t, a, k - 1, Token), All(t, k + 2, n, Text)
      PROVE  \/ /\ a <= n - 2 /\ All(t, a, n - 2, Token)
                /\ t[n - 1] = COLON /\ t[n] = SP
             \/ IsField(t, a, n - 1) /\ t[n] \in Text
  <2>1. CASE k = n - 1
    <3>1. k + 1 = n /\ k - 1 = n - 2 /\ a <= n - 2
      BY <2>1
    <3> QED BY <1>1, <2>1, <3>1
  <2>2. CASE k < n - 1
    <3>1. k \in a + 1 .. n - 1 - 1 /\ All(t, k + 2, n - 1, Text) /\ t[n] \in Text
      BY <1>1, <2>2 DEF All
    <3> QED BY <1>1, <3>1 DEF IsField
  <2> QED BY <2>1, <2>2
<1>2. ASSUME a <= n - 2, All(t, a, n - 2, Token), t[n - 1] = COLON, t[n] = SP
      PROVE  IsField(t, a, n)
  <2>1. n - 1 \in a + 1 .. n - 1 /\ All(t, n + 1, n, Text)
    BY <1>2 DEF All
  <2> QED BY <1>2, <1>n, <2>1 DEF IsField
<1>3. ASSUME IsField(t, a, n - 1), t[n] \in Text PROVE IsField(t, a, n)
  <2>1. PICK k \in a + 1 .. n - 1 - 1 :
          /\ t[k] = COLON /\ t[k + 1] = SP
          /\ All(t, a, k - 1, Token) /\ All(t, k + 2, n - 1, Text)
    BY <1>3 DEF IsField
  <2>2. k \in a + 1 .. n - 1 /\ All(t, k + 2, n, Text)
    BY <1>3, <2>1 DEF All
  <2> QED BY <2>1, <2>2 DEF IsField
<1> QED BY <1>1, <1>2, <1>3 DEF IsField

LEMMA ContinuedGrows ==
  ASSUME NEW t, NEW a \in Nat \ {0}, NEW n \in Nat \ {0}
  PROVE  IsContinued(t, a, n)
           <=> \/ a <= n - 1 /\ All(t, a, n - 1, {SP, HT}) /\ t[n] \in NonBlank
               \/ IsContinued(t, a, n - 1) /\ t[n] \in Text
<1>n. n - 1 + 1 = n /\ n - 1 + 2 = n + 1
  OBVIOUS
<1>1. ASSUME NEW k \in a .. n - 1, All(t, a, k, {SP, HT}), t[k + 1] \in NonBlank,
             All(t, k + 2, n, Text)
      PROVE  \/ a <= n - 1 /\ All(t, a, n - 1, {SP, HT}) /\ t[n] \in NonBlank
             \/ IsContinued(t, a, n - 1) /\ t[n] \in Text
  <2>1. CASE k = n - 1
    <3>1. k + 1 = n /\ a <= n - 1
      BY <2>1
    <3> QED BY <1>1, <2>1, <3>1
  <2>2. CASE k < n - 1
    <3>1. k \in a .. n - 1 - 1 /\ All(t, k + 2, n - 1, Text) /\ t[n] \in Text
      BY <1>1, <2>2 DEF All
    <3> QED BY <1>1, <3>1 DEF IsContinued
  <2> QED BY <2>1, <2>2
<1>2. ASSUME a <= n - 1, All(t, a, n - 1, {SP, HT}), t[n] \in NonBlank
      PROVE  IsContinued(t, a, n)
  <2>1. n - 1 \in a .. n - 1 /\ All(t, n + 1, n, Text)
    BY <1>2 DEF All
  <2> QED BY <1>2, <1>n, <2>1 DEF IsContinued
<1>3. ASSUME IsContinued(t, a, n - 1), t[n] \in Text PROVE IsContinued(t, a, n)
  <2>1. PICK k \in a .. n - 1 - 1 :
          All(t, a, k, {SP, HT}) /\ t[k + 1] \in NonBlank /\ All(t, k + 2, n - 1, Text)
    BY <1>3 DEF IsContinued
  <2>2. k \in a .. n - 1 /\ All(t, k + 2, n, Text)
    BY <1>3, <2>1 DEF All
  <2> QED BY <2>1, <2>2 DEF IsContinued
<1> QED BY <1>1, <1>2, <1>3 DEF IsContinued

LEMMA ValueGrows ==
  ASSUME NEW t, NEW n \in Nat \ {0}
  PROVE  InValue(t, n) <=> \/ AtColon(t, n - 1) /\ t[n] = SP
                           \/ InBlank(t, n - 1) /\ t[n] \in NonBlank
                           \/ InValue(t, n - 1) /\ t[n] \in Text
<1>n. n - 1 - 1 = n - 2 /\ n - 1 \in Nat
  OBVIOUS
<1>1. ASSUME NEW s \in 1 .. n - 1,
             \/ AtLine(t, s) /\ IsField(t, s + 1, n)
             \/ AtLaterLine(t, s) /\ IsContinued(t, s + 1, n)
      PROVE  \/ AtColon(t, n - 1) /\ t[n] = SP
             \/ InBlank(t, n - 1) /\ t[n] \in NonBlank
             \/ InValue(t, n - 1) /\ t[n] \in Text
  <2>s. s + 1 \in Nat \ {0}
    OBVIOUS
  <2>1. CASE AtLine(t, s) /\ IsField(t, s + 1, n)
    <3>1. CASE /\ s + 1 <= n - 2 /\ All(t, s + 1, n - 2, Token)
               /\ t[n - 1] = COLON /\ t[n] = SP
      <4>1. s \in 1 .. n - 2 - 1
        BY <3>1
      <4> QED BY <1>n, <2>1, <3>1, <4>1 DEF AtColon, InName
    <3>2. CASE IsField(t, s + 1, n - 1) /\ t[n] \in Text
      <4>1. s \in 1 .. n - 1 - 1
        BY <3>2 DEF IsField
      <4> QED BY <2>1, <3>2, <4>1 DEF InValue
    <3> QED BY <2>s, <2>1, <3>1, <3>2, FieldGrows
  <2>2. CASE AtLaterLine(t, s) /\ IsContinued(t, s + 1, n)
    <3>1. CASE s + 1 <= n - 1 /\ All(t, s + 1, n - 1, {SP, HT}) /\ t[n] \in NonBlank
      <4>1. s \in 1 .. n - 1 - 1
        BY <3>1
      <4> QED BY <2>2, <3>1, <4>1 DEF InBlank
    <3>2. CASE IsContinued(t, s + 1, n - 1) /\ t[n] \in Text
      <4>1. s \in 1 .. n - 1 - 1
        BY <3>2 DEF IsContinued
      <4> QED BY <2>2, <3>2, <4>1 DEF InValue
    <3> QED BY <2>s, <2>2, <3>1, <3>2, ContinuedGrows
  <2> QED BY <1>1, <2>1, <2>2
<1>2. ASSUME AtColon(t, n - 1), t[n] = SP PROVE InValue(t, n)
  <2>1. PICK s \in 1 .. n - 2 - 1 :
               AtLine(t, s) /\ All(t, s + 1, n - 2, Token) /\ t[n - 1] = COLON
    BY <1>2, <1>n DEF AtColon, InName
  <2>2. s + 1 \in Nat \ {0} /\ s + 1 <= n - 2 /\ s \in 1 .. n - 1
    OBVIOUS
  <2>3. IsField(t, s + 1, n)
    BY <1>2, <2>1, <2>2, FieldGrows
  <2> QED BY <2>1, <2>2, <2>3 DEF InValue
<1>3. ASSUME InBlank(t, n - 1), t[n] \in NonBlank PROVE InValue(t, n)
  <2>1. PICK s \in 1 .. n - 1 - 1 : AtLaterLine(t, s) /\ All(t, s + 1, n - 1, {SP, HT})
    BY <1>3 DEF InBlank
  <2>2. s + 1 \in Nat \ {0} /\ s + 1 <= n - 1 /\ s \in 1 .. n - 1
    OBVIOUS
  <2>3. IsContinued(t, s + 1, n)
    BY <1>3, <2>1, <2>2, ContinuedGrows
  <2> QED BY <2>1, <2>2, <2>3 DEF InValue
<1>4. ASSUME InValue(t, n - 1), t[n] \in Text PROVE InValue(t, n)
  <2>1. PICK s \in 1 .. n - 1 - 1 :
               \/ AtLine(t, s) /\ IsField(t, s + 1, n - 1)
               \/ AtLaterLine(t, s) /\ IsContinued(t, s + 1, n - 1)
    BY <1>4 DEF InValue
  <2>2. s + 1 \in Nat \ {0} /\ s \in 1 .. n - 1
    OBVIOUS
  <2>3. \/ AtLine(t, s) /\ IsField(t, s + 1, n)
        \/ AtLaterLine(t, s) /\ IsContinued(t, s + 1, n)
    BY <1>4, <2>1, <2>2, FieldGrows, ContinuedGrows
  <2> QED BY <2>2, <2>3 DEF InValue
<1> QED BY <1>1, <1>2, <1>3, <1>4 DEF InValue

LEMMA RequestIs ==
  ASSUME NEW t, NEW n \in Nat \ {0}
  PROVE  IsRequest(t, n) <=> HeadEnds(t, n - 1) /\ t[n] = LF
<1>1. n - 1 - 1 = n - 2
  OBVIOUS
<1>2. \A request \in 1 .. n - 2 : IsHead(t, n - 2, request) => request \in 1 .. n - 2 - 1
  BY DEF IsHead, Ends
<1>3. AtLine(t, n - 2) <=> \E request \in 1 .. n - 2 : IsHead(t, n - 2, request)
  BY <1>2 DEF AtLine
<1> QED BY <1>1, <1>3 DEF HeadEnds, IsRequest
--------------------------------------------------------------------------------
(***************************************************************************)
(* The parser recognises the forms.                                        *)
(***************************************************************************)
LEMMA StartIsParser == Start \in Parsers
BY DEF Start, Parsers, States, Edges

LEMMA FitsStart ==
  ASSUME NEW t
  PROVE  Fits(t, 0, Start)
<1>1. ~ InMethod(t, 0) /\ \A n \in Int : n < 1 => ~ InUri(t, n)
  BY DEF InMethod, InUri
<1>2. \A k \in 0..5 : ~ AtVersion(t, 0, k)
  BY <1>1 DEF AtVersion
<1>3. \A n \in Int : n < 1 => ~ InMajor(t, n) /\ ~ InMinor(t, n) /\ ~ AtDot(t, n)
  BY DEF InMajor, InMinor, AtDot
<1>4. ~ RequestEnds(t, 0)
  BY <1>3 DEF RequestEnds
<1>5. \A n \in Int : n < 1 => /\ ~ AtLine(t, n) /\ ~ AtLaterLine(t, n)
                              /\ ~ InName(t, n) /\ ~ InBlank(t, n) /\ ~ InValue(t, n)
  BY DEF AtLine, AtLaterLine, InName, InBlank, InValue
<1>6. ~ AtColon(t, 0) /\ ~ LineEnds(t, 0) /\ ~ HeadEnds(t, 0)
  BY <1>5 DEF AtColon, LineEnds, HeadEnds
<1>7. ~ \E k \in 1..0 : IsRequest(t, k)
  OBVIOUS
<1> QED BY <1>1, <1>2, <1>3, <1>4, <1>5, <1>6, <1>7 DEF Fits, Start, Early, Late

LEMMA FitsStep ==
  ASSUME NEW t \in Seq(Char), NEW n \in Nat \ {0}, n <= Len(t),
         NEW p \in Parsers, Fits(t, n - 1, p),
         NEW q, q = Consume(t[n])[p]
  PROVE  Fits(t, n, q)
<1> DEFINE c == t[n]
<1>1. MovesAre(p, c, q.state)
  BY Steps
<1>2. q.state = "good" <=> (p.state = "expecting_newline_3" /\ c = LF) \/ p.state = "good"
  BY Steps
<1>3. q.headers <=> p.headers \/ (p.state \notin Verdicts /\ q.state = "header_name")
  BY Steps
<1> HIDE DEF c
<1>4. /\ q.state = "method_start" <=> n = 0
      /\ q.state = "method" <=> InMethod(t, n)
      /\ q.state = "uri" <=> InUri(t, n)
  BY <1>1, MethodGrows, UriGrows DEF MovesAre, Fits, c
<1>5. /\ q.state = "http_version_h" <=> AtVersion(t, n, 0)
      /\ q.state = "http_version_t_1" <=> AtVersion(t, n, 1)
      /\ q.state = "http_version_t_2" <=> AtVersion(t, n, 2)
      /\ q.state = "http_version_p" <=> AtVersion(t, n, 3)
      /\ q.state = "http_version_slash" <=> AtVersion(t, n, 4)
      /\ q.state = "http_version_major_start" <=> AtVersion(t, n, 5)
  <2>1. /\ AtVersion(t, n, 1) <=> AtVersion(t, n - 1, 0) /\ c = 72
        /\ AtVersion(t, n, 2) <=> AtVersion(t, n - 1, 1) /\ c = 84
        /\ AtVersion(t, n, 3) <=> AtVersion(t, n - 1, 2) /\ c = 84
        /\ AtVersion(t, n, 4) <=> AtVersion(t, n - 1, 3) /\ c = 80
        /\ AtVersion(t, n, 5) <=> AtVersion(t, n - 1, 4) /\ c = SLASH
    BY VersionGrows DEF c, Version
  <2> QED BY <1>1, <2>1, VersionGrows DEF MovesAre, Fits, c
<1>6. /\ q.state = "http_version_major" <=> InMajor(t, n)
      /\ q.state = "http_version_minor_start" <=> AtDot(t, n)
      /\ q.state = "http_version_minor" <=> InMinor(t, n)
      /\ q.state = "expecting_newline_1" <=> RequestEnds(t, n)
  BY <1>1, NumbersGrow DEF MovesAre, Fits, c, AtDot, RequestEnds
<1>7. /\ q.state = "header_line_start" <=> AtLine(t, n)
      /\ q.state = "expecting_newline_3" <=> HeadEnds(t, n)
  BY <1>1, LineStarts DEF MovesAre, Fits, c, HeadEnds
<1>8. p.state = "header_line_start" /\ p.headers <=> AtLaterLine(t, n - 1)
  <2>1. AtLaterLine(t, n - 1) => AtLine(t, n - 1)
    BY DEF AtLine, AtLaterLine
  <2> QED BY <2>1 DEF Fits
<1>9. /\ q.state = "header_name" <=> InName(t, n)
      /\ q.state = "space_before_header_value" <=> AtColon(t, n)
      /\ q.state = "header_lws" <=> InBlank(t, n)
  BY <1>1, <1>8, NamesGrow DEF MovesAre, Fits, c, AtColon
<1>10. /\ q.state = "header_value" <=> InValue(t, n)
       /\ q.state = "expecting_newline_2" <=> LineEnds(t, n)
  BY <1>1, ValueGrows DEF MovesAre, Fits, c, LineEnds
<1>11. q.state = "good" <=> \E k \in 1..n : IsRequest(t, k)
  <2>1. (\E k \in 1..n : IsRequest(t, k))
          <=> (\E k \in 1 .. n - 1 : IsRequest(t, k)) \/ IsRequest(t, n)
    <3>1. 1..n = 1 .. n - 1 \cup {n}
      OBVIOUS
    <3> QED BY <3>1
  <2> QED BY <1>2, <2>1, RequestIs DEF Fits, c
<1>12. q.state \in Early => ~ q.headers
  <2>1. q.state \in Early => p.state \in Early
    BY <1>1 DEF MovesAre, Early
  <2> QED BY <1>3, <2>1 DEF Fits, Early
<1>13. q.state \in Late => q.headers
  <2>1. CASE q.state = "header_name"
    BY <1>1, <1>3, <2>1 DEF MovesAre, Verdicts
  <2>2. CASE q.state \in Late \ {"header_name"}
    <3>1. p.state \in Late \/ p.headers
      BY <1>1, <2>2 DEF MovesAre, Late
    <3> QED BY <1>3, <3>1 DEF Fits
  <2> QED BY <2>1, <2>2
<1>14. q.state = "header_line_start" => (q.headers <=> AtLaterLine(t, n))
  <2> SUFFICES ASSUME q.state = "header_line_start"
               PROVE  q.headers <=> AtLaterLine(t, n)
    OBVIOUS
  <2>1. p.state \in {"expecting_newline_1", "expecting_newline_2"} /\ c = LF
    BY <1>1 DEF MovesAre
  <2>2. q.headers <=> p.headers
    BY <1>3
  <2>3. p.headers <=> p.state = "expecting_newline_2"
    BY <2>1 DEF Fits, Early, Late
  <2> QED BY <2>1, <2>2, <2>3, LineStarts DEF Fits, c
<1> QED BY <1>4, <1>5, <1>6, <1>7, <1>9, <1>10, <1>11, <1>12, <1>13, <1>14 DEF Fits

LEMMA RunFits ==
  ASSUME NEW t \in Seq(Char), NEW r, IsRun(r, Start, t), NEW n \in 0..Len(t)
  PROVE  Fits(t, n, r[n])
<1>l. PICK l \in Nat : l = Len(t)
  BY LenProperties
<1> DEFINE S == {i \in Nat : i <= l => Fits(t, i, r[i])}
<1>1. 0 \in S
  BY FitsStart DEF IsRun
<1>2. ASSUME NEW i \in Nat, i \in S PROVE i + 1 \in S
  <2> SUFFICES ASSUME i + 1 <= l PROVE Fits(t, i + 1, r[i + 1])
    OBVIOUS
  <2>1. Fits(t, i + 1 - 1, r[i])
    BY <1>2
  <2>2. r[i] \in Parsers /\ r[i + 1] = Consume(t[i + 1])[r[i]]
    BY <1>l DEF IsRun
  <2>3. i + 1 \in Nat \ {0} /\ i + 1 <= Len(t)
    BY <1>l
  <2> QED BY <2>1, <2>2, <2>3, FitsStep
<1> HIDE DEF S
<1>3. n \in S
  BY <1>1, <1>2, <1>l, Induction
<1> QED BY <1>3, <1>l DEF S

\* The state before each byte of Short.
OnShort == <<
  "method_start", "method", "uri", "uri", "http_version_h", "http_version_t_1",
  "http_version_t_2", "http_version_p", "http_version_slash", "http_version_major_start",
  "http_version_major", "http_version_minor_start", "http_version_minor",
  "expecting_newline_1", "header_line_start", "header_name", "space_before_header_value",
  "header_value", "header_value", "expecting_newline_2", "header_line_start",
  "expecting_newline_3">>

LEMMA ShortBytes ==
  /\ Short \in Seq(Char) /\ Len(Short) = 22
  /\ Short[1] \in Token /\ Short[2] = SP /\ Short[3] \in NonBlank /\ Short[4] = SP
  /\ Short[5] = 72 /\ Short[6] = 84 /\ Short[7] = 84 /\ Short[8] = 80 /\ Short[9] = SLASH
  /\ Short[10] \in is_digit /\ Short[11] = DOT /\ Short[12] \in is_digit
  /\ Short[13] = CR /\ Short[14] = LF
  /\ Short[15] \in Token /\ Short[16] = COLON /\ Short[17] = SP /\ Short[18] \in Text
  /\ Short[19] = CR /\ Short[20] = LF /\ Short[21] = CR /\ Short[22] = LF
<1>1. Short \in Seq(Char) /\ Len(Short) = 22
  BY DEF Short, Char, SP, SLASH, DOT, CR, LF, COLON
<1>2. 71 \in Token /\ 65 \in Token /\ SLASH \in NonBlank /\ 98 \in Text
      /\ 49 \in is_digit /\ 48 \in is_digit
  BY DEF NonBlank, Token, Text, is_digit, is_char, is_ctl, is_tspecial, Char,
         SP, COLON, HT, SLASH, QUERY
<1> QED BY <1>1, <1>2 DEF Short

LEMMA OnShortIs ==
  /\ OnShort[1] = "method_start" /\ OnShort[2] = "method" /\ OnShort[3] = "uri"
  /\ OnShort[4] = "uri" /\ OnShort[5] = "http_version_h"
  /\ OnShort[6] = "http_version_t_1" /\ OnShort[7] = "http_version_t_2"
  /\ OnShort[8] = "http_version_p" /\ OnShort[9] = "http_version_slash"
  /\ OnShort[10] = "http_version_major_start" /\ OnShort[11] = "http_version_major"
  /\ OnShort[12] = "http_version_minor_start" /\ OnShort[13] = "http_version_minor"
  /\ OnShort[14] = "expecting_newline_1" /\ OnShort[15] = "header_line_start"
  /\ OnShort[16] = "header_name" /\ OnShort[17] = "space_before_header_value"
  /\ OnShort[18] = "header_value" /\ OnShort[19] = "header_value"
  /\ OnShort[20] = "expecting_newline_2" /\ OnShort[21] = "header_line_start"
  /\ OnShort[22] = "expecting_newline_3"
BY DEF OnShort

LEMMA ShortStep ==
  ASSUME NEW p \in Parsers, NEW n \in 1..21,
         p.state = OnShort[n] \/ (n = 19 /\ p.state = "header_lws")
  PROVE  Consume(Short[n])[p].state = OnShort[n + 1]
<1> DEFINE c == Short[n]
<1>q. PICK q : q = Consume(c)[p]
  OBVIOUS
<1>1. MovesAre(p, c, q.state)
  BY <1>q, Steps
<1> SUFFICES q.state = OnShort[n + 1]
  BY <1>q
<1> HIDE DEF c
<1>2. CASE n = 1
  <2>1. p.state = "method_start" /\ c \in Token
    BY <1>2, OnShortIs, ShortBytes DEF c
  <2> QED BY <1>1, <1>2, <2>1, OnShortIs DEF MovesAre
<1>3. CASE n = 2
  <2>1. p.state = "method" /\ c = SP
    BY <1>3, OnShortIs, ShortBytes DEF c
  <2> QED BY <1>1, <1>3, <2>1, OnShortIs DEF MovesAre
<1>4. CASE n = 3
  <2>1. p.state = "uri" /\ c \in NonBlank
    BY <1>4, OnShortIs, ShortBytes DEF c
  <2> QED BY <1>1, <1>4, <2>1, OnShortIs DEF MovesAre
<1>5. CASE n = 4
  <2>1. p.state = "uri" /\ c = SP
    BY <1>5, OnShortIs, ShortBytes DEF c
  <2> QED BY <1>1, <1>5, <2>1, OnShortIs DEF MovesAre
<1>6. CASE n = 5
  <2>1. p.state = "http_version_h" /\ c = 72
    BY <1>6, OnShortIs, ShortBytes DEF c
  <2> QED BY <1>1, <1>6, <2>1, OnShortIs DEF MovesAre
<1>7. CASE n = 6
  <2>1. p.state = "http_version_t_1" /\ c = 84
    BY <1>7, OnShortIs, ShortBytes DEF c
  <2> QED BY <1>1, <1>7, <2>1, OnShortIs DEF MovesAre
<1>8. CASE n = 7
  <2>1. p.state = "http_version_t_2" /\ c = 84
    BY <1>8, OnShortIs, ShortBytes DEF c
  <2> QED BY <1>1, <1>8, <2>1, OnShortIs DEF MovesAre
<1>9. CASE n = 8
  <2>1. p.state = "http_version_p" /\ c = 80
    BY <1>9, OnShortIs, ShortBytes DEF c
  <2> QED BY <1>1, <1>9, <2>1, OnShortIs DEF MovesAre
<1>10. CASE n = 9
  <2>1. p.state = "http_version_slash" /\ c = SLASH
    BY <1>10, OnShortIs, ShortBytes DEF c
  <2> QED BY <1>1, <1>10, <2>1, OnShortIs DEF MovesAre
<1>11. CASE n = 10
  <2>1. p.state = "http_version_major_start" /\ c \in is_digit
    BY <1>11, OnShortIs, ShortBytes DEF c
  <2> QED BY <1>1, <1>11, <2>1, OnShortIs DEF MovesAre
<1>12. CASE n = 11
  <2>1. p.state = "http_version_major" /\ c = DOT
    BY <1>12, OnShortIs, ShortBytes DEF c
  <2> QED BY <1>1, <1>12, <2>1, OnShortIs DEF MovesAre
<1>13. CASE n = 12
  <2>1. p.state = "http_version_minor_start" /\ c \in is_digit
    BY <1>13, OnShortIs, ShortBytes DEF c
  <2> QED BY <1>1, <1>13, <2>1, OnShortIs DEF MovesAre
<1>14. CASE n = 13
  <2>1. p.state = "http_version_minor" /\ c = CR
    BY <1>14, OnShortIs, ShortBytes DEF c
  <2> QED BY <1>1, <1>14, <2>1, OnShortIs DEF MovesAre
<1>15. CASE n = 14
  <2>1. p.state = "expecting_newline_1" /\ c = LF
    BY <1>15, OnShortIs, ShortBytes DEF c
  <2> QED BY <1>1, <1>15, <2>1, OnShortIs DEF MovesAre
<1>16. CASE n = 15
  <2>1. p.state = "header_line_start" /\ c \in Token
    BY <1>16, OnShortIs, ShortBytes DEF c
  <2> QED BY <1>1, <1>16, <2>1, OnShortIs DEF MovesAre
<1>17. CASE n = 16
  <2>1. p.state = "header_name" /\ c = COLON
    BY <1>17, OnShortIs, ShortBytes DEF c
  <2> QED BY <1>1, <1>17, <2>1, OnShortIs DEF MovesAre
<1>18. CASE n = 17
  <2>1. p.state = "space_before_header_value" /\ c = SP
    BY <1>18, OnShortIs, ShortBytes DEF c
  <2> QED BY <1>1, <1>18, <2>1, OnShortIs DEF MovesAre
<1>19. CASE n = 18
  <2>1. p.state = "header_value" /\ c \in Text
    BY <1>19, OnShortIs, ShortBytes DEF c
  <2> QED BY <1>1, <1>19, <2>1, OnShortIs DEF MovesAre
<1>20. CASE n = 19
  <2>1. p.state \in {"header_value", "header_lws"} /\ c = CR
    BY <1>20, OnShortIs, ShortBytes DEF c
  <2> QED BY <1>1, <1>20, <2>1, OnShortIs DEF MovesAre
<1>21. CASE n = 20
  <2>1. p.state = "expecting_newline_2" /\ c = LF
    BY <1>21, OnShortIs, ShortBytes DEF c
  <2> QED BY <1>1, <1>21, <2>1, OnShortIs DEF MovesAre
<1>22. CASE n = 21
  <2>1. p.state = "header_line_start" /\ c = CR
    BY <1>22, OnShortIs, ShortBytes DEF c
  <2> QED BY <1>1, <1>22, <2>1, OnShortIs DEF MovesAre
<1> QED BY <1>2, <1>3, <1>4, <1>5, <1>6, <1>7, <1>8, <1>9, <1>10, <1>11, <1>12, <1>13, <1>14, <1>15, <1>16, <1>17, <1>18, <1>19, <1>20, <1>21, <1>22

LEMMA EndingIs ==
  ASSUME NEW n \in 1..22
  PROVE  LET w == SubSeq(Short, n, Len(Short)) IN
         /\ w \in Endings /\ w \in Seq(Char) /\ Len(w) = 23 - n
         /\ \A i \in 1 .. 23 - n : w[i] = Short[n + i - 1]
<1> PICK l \in Nat : l = Len(Short) /\ l = 22
  BY ShortBytes
<1> PICK w : w = SubSeq(Short, n, l)
  OBVIOUS
<1>1. w \in Endings
  BY DEF Endings
<1>2. n <= l /\ l - n + 1 = 23 - n
  OBVIOUS
<1>3. w \in Seq(Char) /\ Len(w) = 23 - n /\ \A i \in 1 .. 23 - n : w[i] = Short[n + i - 1]
  <2>1. ASSUME NEW i \in n..l PROVE Short[i] \in Char
    <3>1. i \in 1 .. Len(Short)
      OBVIOUS
    <3> QED BY <3>1, ShortBytes, ElementOfSeq
  <2>2. /\ w \in Seq(Char) /\ Len(w) = l - n + 1
        /\ \A i \in 1 .. l - n + 1 : w[i] = Short[n + i - 1]
    BY <1>2, <2>1, SubSeqProperties
  <2> QED BY <1>2, <2>2
<1> QED BY <1>1, <1>3

LEMMA RunOfPrefix ==
  ASSUME NEW t \in Seq(Char), NEW w \in Seq(Char), NEW r, IsRun(r, Start, t \o w)
  PROVE  r[Len(t)] = Parse(Start, t)
<1>l. PICK k \in Nat, l \in Nat : k = Len(t) /\ l = Len(w)
  BY LenProperties
<1>x. PICK x : x = t \o w
  OBVIOUS
<1>1. Len(x) = k + l /\ \A i \in 1..k : x[i] = t[i]
  BY <1>l, <1>x, ConcatProperties
<1> DEFINE v == [i \in 0..k |-> r[i]]
<1>2. IsRun(v, Start, t)
  BY <1>l, <1>x, <1>1 DEF IsRun
<1>3. v[k] = r[k]
  OBVIOUS
<1> HIDE DEF v
<1> QED BY <1>2, <1>3, <1>l, ParseRun

\* From every state but "bad", what is left of Short leads to a request.
LEMMA Completes ==
  ASSUME NEW t \in Seq(Char), NEW n \in 1..22, NEW p, p = Parse(Start, t),
         p.state = OnShort[n] \/ (n = 19 /\ p.state = "header_lws")
  PROVE  \E w \in Endings : IsRequest(t \o w, Len(t \o w))
<1> PICK w : w = SubSeq(Short, n, Len(Short))
  OBVIOUS
<1>1. /\ w \in Endings /\ w \in Seq(Char) /\ Len(w) = 23 - n
      /\ \A i \in 1 .. 23 - n : w[i] = Short[n + i - 1]
  BY EndingIs
<1>l. PICK l \in Nat : l = Len(t)
  BY LenProperties
<1>x. PICK x : x = t \o w
  OBVIOUS
<1> DEFINE m == l + (23 - n)
<1>2. /\ x \in Seq(Char) /\ Len(x) = m
      /\ \A i \in 1 .. 23 - n : x[l + i] = Short[n + i - 1]
  <2>1. x \in Seq(Char) /\ Len(x) = m
    BY <1>1, <1>l, <1>x, ConcatProperties
  <2>2. ASSUME NEW i \in 1 .. 23 - n PROVE x[l + i] = w[i]
    <3>1. l + i \in 1 .. Len(t) + Len(w) /\ ~ (l + i <= Len(t)) /\ l + i - Len(t) = i
      BY <1>1, <1>l
    <3>2. x[l + i] = w[l + i - Len(t)]
      BY <1>1, <1>x, <3>1, ConcatProperties
    <3> QED BY <3>1, <3>2
  <2> QED BY <1>1, <2>1, <2>2
<1>3. PICK v : IsRun(v, Start, x)
  BY <1>2, StartIsParser, RunExists
<1>4. v[l] = p
  BY <1>1, <1>3, <1>l, <1>x, RunOfPrefix
<1>5. \A i \in 0..m : v[i] \in Parsers
  BY <1>2, <1>3 DEF IsRun
<1> DEFINE Near(i) == v[l + i].state = OnShort[n + i] \/ (n + i = 19 /\ v[l + i].state = "header_lws")
           S == {i \in Nat : i <= 22 - n => Near(i)}
<1>6. 0 \in S
  BY <1>4
<1>7. ASSUME NEW i \in Nat, i \in S PROVE i + 1 \in S
  <2> SUFFICES ASSUME i + 1 <= 22 - n PROVE Near(i + 1)
    OBVIOUS
  <2>1. Near(i) /\ n + i \in 1..21 /\ l + i \in 0..m /\ l + i + 1 \in 1..m /\ l + i + 1 - 1 = l + i
    BY <1>7
  <2>2. v[l + i + 1] = Consume(x[l + i + 1])[v[l + i]]
    <3>1. \A j \in 1..m : v[j] = Consume(x[j])[v[j - 1]]
      BY <1>2, <1>3 DEF IsRun
    <3> QED BY <2>1, <3>1
  <2>3. x[l + i + 1] = Short[n + i]
    <3>1. i + 1 \in 1 .. 23 - n /\ l + (i + 1) = l + i + 1 /\ n + (i + 1) - 1 = n + i
      OBVIOUS
    <3>2. x[l + (i + 1)] = Short[n + (i + 1) - 1]
      BY <1>2, <3>1
    <3> QED BY <3>1, <3>2
  <2>4. v[l + i] \in Parsers
    BY <1>5, <2>1
  <2>5. Consume(Short[n + i])[v[l + i]].state = OnShort[n + i + 1]
    BY <2>1, <2>4, ShortStep
  <2>6. l + (i + 1) = l + i + 1 /\ n + (i + 1) = n + i + 1
    OBVIOUS
  <2> QED BY <2>2, <2>3, <2>5, <2>6
<1> HIDE DEF S
<1>8. 22 - n \in S
  BY <1>6, <1>7, Induction, 22 - n \in Nat
<1>9. l + (22 - n) = m - 1 /\ n + (22 - n) = 22 /\ m \in Nat \ {0}
  OBVIOUS
<1>10. v[m - 1].state = OnShort[22]
  <2>1. Near(22 - n)
    BY <1>8 DEF S
  <2> QED BY <1>9, <2>1
<1>11. x[m] = LF
  <2>1. 23 - n \in 1 .. 23 - n /\ l + (23 - n) = m /\ n + (23 - n) - 1 = 22
    OBVIOUS
  <2>2. x[l + (23 - n)] = Short[n + (23 - n) - 1]
    BY <1>2, <2>1
  <2> QED BY <2>1, <2>2, ShortBytes
<1> HIDE DEF m
<1>12. Fits(x, m - 1, v[m - 1])
  BY <1>2, <1>3, <1>9, RunFits
<1>13. HeadEnds(x, m - 1)
  BY <1>10, <1>12, OnShortIs DEF Fits
<1>14. IsRequest(x, m)
  BY <1>9, <1>11, <1>13, RequestIs
<1> QED BY <1>1, <1>2, <1>14, <1>x

\* The parser decides every text as the grammar does.
THEOREM ParserIsCorrect ==
  \A t \in Seq(Char) : Verdict(Parse(Start, t)) = Meaning(t)
<1> TAKE t \in Seq(Char)
<1>l. PICK l \in Nat : l = Len(t)
  BY LenProperties
<1> PICK p : p = Parse(Start, t)
  OBVIOUS
<1>1. p \in Parsers /\ Fits(t, l, p)
  <2>1. PICK r : IsRun(r, Start, t)
    BY StartIsParser, RunExists
  <2>2. p = r[l] /\ r[l] \in Parsers
    <3>1. r[l] \in Parsers
      BY <2>1, <1>l DEF IsRun
    <3> QED BY <2>1, <3>1, <1>l, ParseRun
  <2>3. Fits(t, l, r[l])
    BY <2>1, <1>l, RunFits, l \in 0..l
  <2> QED BY <2>2, <2>3
<1>2. p.state = "good" <=> \E n \in 1 .. Len(t) : IsRequest(t, n)
  BY <1>1, <1>l DEF Fits
<1>3. CASE p.state = "good"
  BY <1>2, <1>3 DEF Verdict, Verdicts, Meaning
<1>4. CASE p.state = "bad"
  <2>1. ASSUME NEW w \in Endings PROVE ~ IsRequest(t \o w, Len(t \o w))
    <3>1. PICK n \in 1..22 : w = SubSeq(Short, n, Len(Short))
      BY ShortBytes DEF Endings
    <3>2. w \in Seq(Char) /\ Len(w) = 23 - n
      BY <3>1, EndingIs
    <3>x. PICK x : x = t \o w
      OBVIOUS
    <3>m. PICK m \in Nat \ {0} : m = l + (23 - n)
      OBVIOUS
    <3>3. x \in Seq(Char) /\ Len(x) = m
      BY <1>l, <3>2, <3>x, <3>m, ConcatProperties
    <3>4. Parse(Start, x) = p
      <4>1. Parse(Start, x) = Parse(p, w)
        BY <3>2, <3>x, StartIsParser, ParsePieces
      <4> QED BY <1>1, <1>4, <3>2, <4>1, VerdictStays DEF Verdicts
    <3>5. PICK r : IsRun(r, Start, x)
      BY <3>3, StartIsParser, RunExists
    <3>6. r[m] = p /\ Fits(x, m, r[m])
      BY <3>3, <3>4, <3>5, ParseRun, RunFits, m \in 0..m
    <3>7. ~ \E k \in 1..m : IsRequest(x, k)
      BY <1>4, <3>6 DEF Fits
    <3> QED BY <3>x, <3>3, <3>7, m \in 1..m
  <2> QED BY <1>2, <1>4, <2>1 DEF Verdict, Verdicts, Meaning
<1>5. CASE p.state \notin Verdicts
  <2>1. \E n \in 1..22 : p.state = OnShort[n] \/ (n = 19 /\ p.state = "header_lws")
    <3> SUFFICES ASSUME \A n \in 1..22 : p.state # OnShort[n], p.state # "header_lws" PROVE FALSE
      BY 19 \in 1..22
    <3>1. /\ p.state # OnShort[1] /\ p.state # OnShort[2] /\ p.state # OnShort[3] /\ p.state # OnShort[5]
          /\ p.state # OnShort[6] /\ p.state # OnShort[7] /\ p.state # OnShort[8] /\ p.state # OnShort[9]
          /\ p.state # OnShort[10] /\ p.state # OnShort[11] /\ p.state # OnShort[12] /\ p.state # OnShort[13]
          /\ p.state # OnShort[14] /\ p.state # OnShort[15] /\ p.state # OnShort[16] /\ p.state # OnShort[17]
          /\ p.state # OnShort[18] /\ p.state # OnShort[20] /\ p.state # OnShort[22]
      OBVIOUS
    <3> DEFINE line == {"method_start", "method", "uri", "http_version_h", "http_version_t_1",
                        "http_version_t_2", "http_version_p", "http_version_slash",
                        "http_version_major_start", "http_version_major",
                        "http_version_minor_start", "http_version_minor"}
               head == {"expecting_newline_1", "header_line_start", "header_name",
                        "space_before_header_value", "header_value", "header_lws",
                        "expecting_newline_2", "expecting_newline_3"}
    <3>2. p.state \in line \cup head
      BY <1>1, <1>5 DEF Parsers, States, Edges
    <3>3. p.state \notin line
      BY <3>1, OnShortIs
    <3>4. p.state \notin head
      BY <3>1, OnShortIs
    <3> HIDE DEF line, head
    <3> QED BY <3>2, <3>3, <3>4
  <2>2. \E w \in Endings : IsRequest(t \o w, Len(t \o w))
    BY <2>1, Completes
  <2> QED BY <1>2, <1>5, <2>2 DEF Verdict, Verdicts, Meaning
<1> QED BY <1>3, <1>4, <1>5 DEF Verdicts
--------------------------------------------------------------------------------
(***************************************************************************)
(* The server.  Of a connection that is not doubled one process at most    *)
(* reads, and what its parser has seen is what was read.                   *)
(***************************************************************************)
HttpTypes ==
  /\ peer \in [Clients -> {"away", "there", "closed", "reset"}]
  /\ text \in [Clients -> Seq(Char)]
  /\ read \in [Clients -> Nat]
  /\ reply \in [Clients -> Seq({"200", "404", "400", "output", "log"})]
  /\ backlog \subseteq Clients /\ file \in Files
  /\ touched \subseteq Clients /\ inherited \subseteq Clients
  /\ mode \in [Processes -> {"unborn", "serves", "forked", "program", "ended", "dead"}]
  /\ acceptor \in [Processes -> Clients \cup {NoClient}]
  /\ open \in [Processes -> SUBSET Clients]
  /\ stdio \in [Processes -> Clients \cup {NoClient}]
  /\ op \in [Processes ->
               [Clients -> {"none", "reading", "read", "failed", "sent", "sendfailed"}]]
  /\ piece \in [Processes -> [Clients -> Seq(Char)]]
  /\ parser \in [Processes -> [Clients -> Parsers]]

\* What is read is part of the text, and what was meant is what the text says.
Says(t) == [verdict |-> Meaning(t), path |-> FilePath(Parse(Start, t).uri)]
Texts ==
  /\ \A c \in Clients : read[c] <= Len(text[c])
  /\ meant = [c \in Clients |-> IF peer[c] = "away"
                                THEN [verdict |-> "indeterminate", path |-> <<>>]
                                ELSE Says(text[c])]

\* Nothing has happened to a connection before a process accepts it.
Untouched(c) ==
  /\ read[c] = 0 /\ reply[c] = <<>>
  /\ \A p \in Processes : /\ c \notin open[p] /\ stdio[p] # c /\ acceptor[p] # c
                          /\ op[p][c] = "none" /\ parser[p][c] = Start
Waiting ==
  \A c \in Clients : /\ peer[c] = "away" \/ c \in backlog => Untouched(c)
                     /\ c \in backlog => peer[c] # "away"

\* The tables of a process.
Tables ==
  \A p \in Processes :
    /\ \A c \in Clients : acceptor[p] = c =>
         c \in open[p] /\ op[p][c] = "none" /\ parser[p][c] = Start
    /\ \A c \in Clients : mode[p] = "serves" /\ op[p][c] = "reading" => c \in open[p]
    /\ mode[p] \in {"forked", "program"} => stdio[p] # NoClient

RootTables ==
  /\ mode[Root] \in {"serves", "dead"} /\ stdio[Root] = NoClient
  /\ \A c \in Clients : mode[Root] = "serves" /\ op[Root][c] # "none" => c \in open[Root]

Holds(p, c) == mode[p] = "serves" /\ c \in open[p]
SoFar(c) == SubSeq(text[c], 1, read[c])

\* What was told to a client whose request has been parsed.
Told(p, c) ==
  /\ parser[p][c] = Parse(Start, SoFar(c)) /\ parser[p][c].state \in Verdicts
  /\ Len(reply[c]) = 1
  /\ parser[p][c].state = "good" =>
       \/ reply[c][1] = "200"
       \/ /\ reply[c][1] = "404"
          /\ \/ c \in touched \/ meant[c].path # Path
             \/ file = "absent" \/ Path \in TooLong

\* The process that reads from c.
Holder(p, c) ==
  /\ acceptor[p] = c => read[c] = 0
  /\ acceptor[p] = c \/ op[p][c] \in {"reading", "read"} => reply[c] = <<>>
  /\ op[p][c] = "reading" => parser[p][c] = Parse(Start, SoFar(c))
  /\ op[p][c] = "read" => Parse(parser[p][c], piece[p][c]) = Parse(Start, SoFar(c))
  /\ op[p][c] = "sent" => Told(p, c)
  /\ ~ Wrote(c, {"output", "log"})
  /\ \A q \in Processes : stdio[q] # c /\ (Holds(q, c) => q = p)

\* The child whose standard streams c is.
Child(p, c) ==
  /\ reply[c] # <<>>
  /\ mode[p] \in {"forked", "program"} =>
       ~ Wrote(c, {"log"}) /\ (reply[c][1] = "200" \/ c \in touched)
  /\ mode[p] \in {"forked", "serves"} => ~ Wrote(c, {"output"})
  /\ \A q \in Processes : stdio[q] = c => q = p

StatusFits(c) ==
  \A i \in DOMAIN reply[c] : reply[c][i] \in StatusLines =>
    /\ i = 1
    /\ IF meant[c].verdict = "bad" THEN reply[c][i] = "400"
       ELSE meant[c].verdict = "good" /\ reply[c][i] # "400"

ClientInv(c) ==
  /\ \A p \in Processes : Holds(p, c) => Holder(p, c)
  /\ \A p \in Processes : stdio[p] = c => Child(p, c)
  /\ StatusFits(c)
  /\ Wrote(c, {"output"}) =>
       ~ Wrote(c, {"log"}) /\ (reply[c][1] = "200" \/ c \in touched)

HttpInv ==
  /\ HttpTypes /\ Texts /\ Waiting /\ Tables /\ RootTables /\ RootSurvives
  /\ \A c \in Clients : ~ Doubled(c) => ClientInv(c)

--------------------------------------------------------------------------------
LEMMA ParseKept ==
  ASSUME NEW p \in Parsers, NEW s \in Seq(Char)
  PROVE  Parse(p, s) \in Parsers
BY ParsePieces

Lines == {"200", "404", "400", "output", "log"}

LEMMA Appended ==
  ASSUME NEW s \in Seq(Lines), NEW x \in Lines
  PROVE  /\ Append(s, x) \in Seq(Lines) /\ Append(s, x) # <<>>
         /\ Len(Append(s, x)) = Len(s) + 1
         /\ DOMAIN Append(s, x) = 1 .. Len(s) + 1 /\ DOMAIN s = 1..Len(s)
         /\ Append(s, x)[Len(s) + 1] = x
         /\ \A i \in 1..Len(s) : Append(s, x)[i] = s[i]
<1>1. /\ Append(s, x) \in Seq(Lines) /\ Len(Append(s, x)) = Len(s) + 1
      /\ \A i \in 1..Len(s) : Append(s, x)[i] = s[i]
      /\ Append(s, x)[Len(s) + 1] = x
  BY AppendProperties
<1>2. DOMAIN Append(s, x) = 1 .. Len(s) + 1 /\ DOMAIN s = 1..Len(s)
  BY <1>1, LenProperties
<1>3. Append(s, x) # <<>>
  BY AppendProperties
<1> QED BY <1>1, <1>2, <1>3

LEMMA PieceIs ==
  ASSUME NEW t \in Seq(Char), NEW m \in Nat, NEW n \in Nat, m <= n, n <= Len(t)
  PROVE  /\ SubSeq(t, 1, m) \in Seq(Char) /\ SubSeq(t, m + 1, n) \in Seq(Char)
         /\ SubSeq(t, 1, n) = SubSeq(t, 1, m) \o SubSeq(t, m + 1, n)
<1>l. PICK l \in Nat : l = Len(t) /\ \A i \in 1..l : t[i] \in Char
  BY LenProperties, ElementOfSeq
<1> PICK a, b, c : a = SubSeq(t, 1, m) /\ b = SubSeq(t, m + 1, n) /\ c = SubSeq(t, 1, n)
  OBVIOUS
<1>1. a \in Seq(Char) /\ Len(a) = m /\ \A i \in 1..m : a[i] = t[i]
  <2>1. (\A i \in 1..m : t[i] \in Char) /\ m - 1 + 1 = m /\ \A i \in 1..m : 1 + i - 1 = i
    BY <1>l
  <2> QED BY <2>1, SubSeqProperties
<1>2. c \in Seq(Char) /\ Len(c) = n /\ \A i \in 1..n : c[i] = t[i]
  <2>1. (\A i \in 1..n : t[i] \in Char) /\ n - 1 + 1 = n /\ \A i \in 1..n : 1 + i - 1 = i
    BY <1>l
  <2> QED BY <2>1, SubSeqProperties
<1>3. b \in Seq(Char) /\ Len(b) = n - m /\ \A i \in 1 .. n - m : b[i] = t[m + i]
  <2>1. /\ \A i \in m + 1 .. n : t[i] \in Char
        /\ n - (m + 1) + 1 = n - m /\ \A i \in 1 .. n - m : m + 1 + i - 1 = m + i
    BY <1>l
  <2> QED BY <2>1, SubSeqProperties
<1>4. c = a \o b
  <2> PICK d : d = a \o b
    OBVIOUS
  <2>1. d \in Seq(Char) /\ Len(d) = n
    BY <1>1, <1>3, ConcatProperties
  <2>2. ASSUME NEW i \in 1..n PROVE c[i] = d[i]
    <3>1. CASE i <= m
      <4>1. i \in 1 .. Len(a) + Len(b) /\ i <= Len(a)
        BY <1>1, <1>3, <3>1
      <4>2. d[i] = a[i]
        BY <1>1, <1>3, <4>1, ConcatProperties
      <4> QED BY <1>1, <1>2, <3>1, <4>2
    <3>2. CASE i > m
      <4>1. PICK j \in 1 .. n - m : j = i - m /\ i = m + j
        BY <3>2
      <4>2. i \in 1 .. Len(a) + Len(b) /\ ~ (i <= Len(a)) /\ i - Len(a) = j
        BY <1>1, <1>3, <3>2, <4>1
      <4>3. d[i] = b[i - Len(a)]
        BY <1>1, <1>3, <4>2, ConcatProperties
      <4>4. d[i] = b[j]
        BY <4>2, <4>3
      <4>5. b[j] = t[m + j] /\ t[m + j] = t[i]
        BY <1>3, <4>1
      <4>6. c[i] = t[i]
        BY <1>2
      <4> QED BY <4>4, <4>5, <4>6
    <3>3. i <= m \/ i > m
      OBVIOUS
    <3> QED BY <3>1, <3>2, <3>3, Zenon
  <2> QED BY <1>2, <2>1, <2>2, SeqEqual
<1> QED BY <1>1, <1>3, <1>4

\* A text whose beginning is decided is decided.
LEMMA Decided ==
  ASSUME NEW t \in Seq(Char), NEW n \in Nat, n <= Len(t), NEW q,
         q = Parse(Start, SubSeq(t, 1, n)), q.state \in Verdicts
  PROVE  Says(t) = [verdict |-> q.state, path |-> FilePath(q.uri)]
<1>l. PICK l \in Nat : l = Len(t)
  BY LenProperties
<1> PICK a, b, c : a = SubSeq(t, 1, n) /\ b = SubSeq(t, n + 1, l) /\ c = SubSeq(t, 1, l)
  OBVIOUS
<1>1. a \in Seq(Char) /\ b \in Seq(Char) /\ c = a \o b
  BY <1>l, PieceIs, n <= l /\ l <= Len(t)
<1>2. c = t
  <2>1. /\ \A i \in 1..l : t[i] \in Char
        /\ l - 1 + 1 = l /\ \A i \in 1..l : 1 + i - 1 = i
    BY <1>l, ElementOfSeq
  <2>2. c \in Seq(Char) /\ Len(c) = l /\ \A i \in 1..l : c[i] = t[i]
    BY <2>1, SubSeqProperties
  <2> QED BY <1>l, <2>2, SeqEqual
<1>3. q \in Parsers
  BY <1>1, StartIsParser, ParseKept
<1>4. Parse(Start, t) = q
  <2>1. Parse(Start, a \o b) = Parse(Parse(Start, a), b)
    BY <1>1, StartIsParser, ParsePieces
  <2>2. Parse(q, b) = q
    BY <1>1, <1>3, VerdictStays
  <2> QED BY <1>1, <1>2, <2>1, <2>2
<1>5. Meaning(t) = q.state
  <2>1. Verdict(q) = Meaning(t)
    BY <1>4, ParserIsCorrect
  <2> QED BY <2>1 DEF Verdict
<1> QED BY <1>4, <1>5 DEF Says

LEMMA Logs ==
  ASSUME HttpTypes, NEW p \in Processes
  PROVE  Logged(p) \in [Clients -> Seq(Lines)]
<1>1. "log" \in Lines /\ reply \in [Clients -> Seq(Lines)]
  BY DEF Lines, HttpTypes
<1>2. \A c \in Clients : Append(reply[c], "log") \in Seq(Lines)
  BY <1>1, Appended
<1> QED BY <1>1, <1>2 DEF Logged

LEMMA TypesInit == HttpInit => HttpTypes
<1> SUFFICES ASSUME HttpInit PROVE HttpTypes
  OBVIOUS
<1>1. <<>> \in Seq(Char) /\ <<>> \in Seq(Lines)
  BY EmptySeq
<1> QED BY <1>1, StartIsParser, ProcessesAssumption
        DEF HttpInit, HttpTypes, Files, NoOps, NoPieces, Starts, Lines

LEMMA TypesEnd ==
  ASSUME HttpTypes, NEW p \in Processes, NEW how \in {"ended", "dead"}, End(p, how),
         reply' \in [Clients -> Seq(Lines)]
  PROVE  HttpTypes'
<1>1. <<>> \in Seq(Char)
  BY EmptySeq
<1> QED BY <1>1, StartIsParser
        DEF HttpTypes, End, NoOps, NoPieces, Starts, peers, environment, Lines

LEMMA TypesNext ==
  ASSUME HttpTypes, [HttpNext]_hvars
  PROVE  HttpTypes'
<1>1. <<>> \in Seq(Char) /\ reply \in [Clients -> Seq(Lines)]
  BY EmptySeq DEF HttpTypes, Lines
<1>2. ASSUME NEW c \in Clients, Connect(c) PROVE HttpTypes'
  <2>1. PICK s \in Requests[c] :
          /\ text' = [text EXCEPT ![c] = s]
          /\ peer' = [peer EXCEPT ![c] = "there"]
          /\ backlog' = backlog \cup {c}
    BY <1>2 DEF Connect
  <2>2. s \in Seq(Char)
    BY TextsAssumption
  <2> QED BY <1>2, <2>1, <2>2 DEF Connect, HttpTypes, environment, tables
<1>3. ASSUME NEW c \in Clients, Leave(c) PROVE HttpTypes'
  BY <1>3 DEF Leave, HttpTypes, environment, tables
<1>4. ASSUME ChangeFile PROVE HttpTypes'
  BY <1>4 DEF ChangeFile, HttpTypes, peers, tables
<1>5. ASSUME NEW p \in Processes, Accept(p) PROVE HttpTypes'
  BY <1>5 DEF Accept, HttpTypes, peers, environment, tables
<1>6. ASSUME NEW p \in Processes, Accepted(p) PROVE HttpTypes'
  BY <1>6 DEF Accepted, HttpTypes, peers, environment
<1>7. ASSUME NEW p \in Processes, NEW c \in Clients, Receive(p, c) PROVE HttpTypes'
  <2>1. CASE \E n \in Cuts \cup {Len(text[c])} :
               /\ read[c] < n /\ n <= Len(text[c])
               /\ piece' = [piece EXCEPT ![p][c] = SubSeq(text[c], read[c] + 1, n)]
               /\ read' = [read EXCEPT ![c] = n]
               /\ op' = [op EXCEPT ![p][c] = "read"]
    <3>1. PICK n \in Cuts \cup {Len(text[c])} :
            /\ read[c] < n /\ n <= Len(text[c])
            /\ piece' = [piece EXCEPT ![p][c] = SubSeq(text[c], read[c] + 1, n)]
            /\ read' = [read EXCEPT ![c] = n]
            /\ op' = [op EXCEPT ![p][c] = "read"]
      BY <2>1
    <3>2. text[c] \in Seq(Char) /\ read[c] \in Nat
      BY DEF HttpTypes
    <3>3. n \in Nat
      BY <3>2, LenProperties, TextsAssumption
    <3>4. SubSeq(text[c], read[c] + 1, n) \in Seq(Char)
      BY <3>1, <3>2, <3>3, PieceIs, read[c] <= n
    <3> QED BY <1>7, <3>1, <3>3, <3>4 DEF Receive, HttpTypes, peers, environment
  <2>2. CASE op' = [op EXCEPT ![p][c] = "failed"] /\ UNCHANGED <<read, piece>>
    BY <1>7, <2>2 DEF Receive, HttpTypes, peers, environment
  <2> QED BY <1>7, <2>1, <2>2 DEF Receive
<1>8. ASSUME NEW p \in Processes, NEW c \in Clients, ReadFailed(p, c) PROVE HttpTypes'
  BY <1>8, StartIsParser DEF ReadFailed, Stop, HttpTypes, peers, environment
<1>9. ASSUME NEW p \in Processes, NEW c \in Clients, ReadDone(p, c) PROVE HttpTypes'
  <2>1. Parsed(p, c) \in Parsers
    BY ParseKept DEF Parsed, HttpTypes
  <2>2. PICK q : q = Parsed(p, c) /\ (ParseMore(p, c, q) \/ HandleThrows(p, c, q) \/ HandleRequest(p, c, q))
    BY <1>9 DEF ReadDone
  <2>3. CASE ParseMore(p, c, q)
    BY <1>1, <2>1, <2>2, <2>3 DEF ParseMore, HttpTypes, peers, environment
  <2>4. CASE HandleThrows(p, c, q)
    <3>1. reply' \in [Clients -> Seq(Lines)]
      BY <1>1, <2>4, Logs DEF HandleThrows
    <3> QED BY <2>4, <3>1, TypesEnd DEF HandleThrows
  <2>5. CASE HandleRequest(p, c, q)
    <3>1. reply' \in [Clients -> Seq(Lines)]
      <4>1. StatusLine(q) \in Lines
        BY DEF StatusLine, Lines
      <4>2. Append(Logged(p)[c], StatusLine(q)) \in Seq(Lines)
        BY <4>1, Logs, Appended
      <4> QED BY <2>5, <4>2, Logs DEF HandleRequest
    <3>2. op' \in [Processes ->
                 [Clients -> {"none", "reading", "read", "failed", "sent", "sendfailed"}]]
      <4>1. PICK w \in {"sent", "sendfailed"} : op' = [op EXCEPT ![p][c] = w]
        BY <2>5 DEF HandleRequest
      <4> QED BY <4>1 DEF HttpTypes
    <3>3. /\ parser' \in [Processes -> [Clients -> Parsers]]
          /\ piece' \in [Processes -> [Clients -> Seq(Char)]]
      BY <1>1, <2>1, <2>2, <2>5 DEF HandleRequest, HttpTypes
    <3> QED BY <2>5, <3>1, <3>2, <3>3 DEF HandleRequest, HttpTypes, peers, environment, Lines
  <2> QED BY <2>2, <2>3, <2>4, <2>5
<1>10. ASSUME NEW p \in Processes, NEW c \in Clients, SendDone(p, c) PROVE HttpTypes'
  BY <1>10, StartIsParser DEF SendDone, Stop, HttpTypes, peers, environment
<1>11. ASSUME NEW p \in Processes, NEW c \in Clients, SendThrows(p, c) PROVE HttpTypes'
  <2>1. reply' \in [Clients -> Seq(Lines)]
    BY <1>1, <1>11, Logs DEF SendThrows
  <2> QED BY <1>11, <2>1, TypesEnd DEF SendThrows
<1>12. ASSUME NEW p \in Processes, NEW c \in Clients, Fork(p, c) PROVE HttpTypes'
  <2>1. reply' \in [Clients -> Seq({"200", "404", "400", "output", "log"})]
    BY <1>12, Logs DEF Fork, Lines
  <2>2. CASE Stop(p, c) /\ UNCHANGED <<mode, acceptor, stdio, piece>>
    BY <1>12, <2>1, <2>2, StartIsParser DEF Fork, Stop, HttpTypes, peers, environment
  <2>3. CASE Free # {}
    <3>1. PICK k \in Processes :
            /\ mode' = [mode EXCEPT ![k] = "forked"]
            /\ acceptor' = [acceptor EXCEPT ![k] = acceptor[p]]
            /\ stdio' = [stdio EXCEPT ![k] = c]
            /\ open' = [open EXCEPT ![k] = open[p], ![p] = @ \ {c}]
            /\ op' = [op EXCEPT ![k] = op[p], ![p][c] = "none"]
            /\ piece' = [piece EXCEPT ![k] = piece[p]]
            /\ parser' = [parser EXCEPT ![k] = parser[p], ![p][c] = Start]
      BY <1>12, <2>3 DEF Fork, Free, NewProcess
    <3> QED BY <1>12, <2>1, <3>1, StartIsParser DEF Fork, HttpTypes, peers, environment
  <2> QED BY <1>12, <2>2, <2>3 DEF Fork
<1>13. ASSUME NEW p \in Processes, Exec(p) PROVE HttpTypes'
  <2>1. Unstarted(p) \subseteq Clients /\ {acceptor[p]} \ {NoClient} \subseteq Clients
    BY DEF Unstarted, HttpTypes
  <2>2. open' \in [Processes -> SUBSET Clients] /\ inherited' \subseteq Clients
    BY <1>13, <2>1 DEF Exec, HttpTypes
  <2>3. /\ mode' \in [Processes -> {"unborn", "serves", "forked", "program", "ended", "dead"}]
        /\ acceptor' \in [Processes -> Clients \cup {NoClient}]
    BY <1>13 DEF Exec, HttpTypes
  <2>4. op' \in [Processes ->
               [Clients -> {"none", "reading", "read", "failed", "sent", "sendfailed"}]]
    <3> DEFINE o == [c \in Clients |-> IF Aborted(p, c) THEN "none" ELSE op[p][c]]
    <3>1. /\ NoOps \in [Clients -> {"none", "reading", "read", "failed", "sent", "sendfailed"}]
          /\ o \in [Clients -> {"none", "reading", "read", "failed", "sent", "sendfailed"}]
      BY DEF NoOps, HttpTypes
    <3>2. op' = [op EXCEPT ![p] = NoOps] \/ op' = [op EXCEPT ![p] = o]
      BY <1>13 DEF Exec
    <3> HIDE DEF o
    <3> QED BY <3>1, <3>2 DEF HttpTypes
  <2>5. piece' \in [Processes -> [Clients -> Seq(Char)]]
    <3>1. CASE file = "program"
      <4>1. piece' = [piece EXCEPT ![p] = NoPieces]
        BY <1>13, <3>1 DEF Exec
      <4> QED BY <1>1, <4>1 DEF NoPieces, HttpTypes
    <3>2. CASE file # "program"
      BY <1>13, <3>2 DEF Exec, HttpTypes
    <3> QED BY <3>1, <3>2
  <2>6. parser' \in [Processes -> [Clients -> Parsers]]
    <3> DEFINE r == [c \in Clients |-> IF Aborted(p, c) THEN Start ELSE parser[p][c]]
    <3>1. Starts \in [Clients -> Parsers] /\ r \in [Clients -> Parsers]
      BY StartIsParser DEF Starts, HttpTypes
    <3>2. parser' = [parser EXCEPT ![p] = Starts] \/ parser' = [parser EXCEPT ![p] = r]
      BY <1>13 DEF Exec
    <3> HIDE DEF r
    <3> QED BY <3>1, <3>2 DEF HttpTypes
  <2> QED BY <1>13, <2>2, <2>3, <2>4, <2>5, <2>6 DEF Exec, HttpTypes, peers, environment
<1>14. ASSUME NEW p \in Processes, ProgramWrites(p) PROVE HttpTypes'
  <2>1. reply' \in [Clients -> Seq(Lines)]
    <3>1. \A c \in Clients : Append(reply[c], "output") \in Seq(Lines)
      BY <1>1, Appended, "output" \in Lines DEF Lines
    <3> QED BY <1>1, <1>14, <3>1 DEF ProgramWrites
  <2> QED BY <1>14, <2>1 DEF ProgramWrites, HttpTypes, peers, environment, tables, Lines
<1>15. ASSUME NEW p \in Processes, ProgramEnds(p) PROVE HttpTypes'
  BY <1>1, <1>15, TypesEnd DEF ProgramEnds
<1>16. CASE UNCHANGED hvars
  BY <1>16 DEF hvars, HttpTypes
<1> QED BY <1>2, <1>3, <1>4, <1>5, <1>6, <1>7, <1>8, <1>9, <1>10, <1>11, <1>12, <1>13, <1>14,
           <1>15, <1>16 DEF HttpNext, Handler

LEMMA LoggedIs ==
  ASSUME HttpTypes, NEW p \in Processes, NEW c \in Clients
  PROVE  Logged(p)[c] = IF stdio[p] = c THEN Append(reply[c], "log") ELSE reply[c]
BY ClientsAssumption DEF Logged, HttpTypes

\* What exec does, table by table.
LEMMA ExecIs ==
  ASSUME HttpTypes, NEW k \in Processes, Exec(k)
  PROVE  /\ mode[k] = "forked"
         /\ mode' = [mode EXCEPT ![k] = IF file = "program" THEN "program" ELSE "serves"]
         /\ open' = [open EXCEPT ![k] = Unstarted(k)]
         /\ inherited' = inherited \cup Unstarted(k)
         /\ acceptor' = IF file = "program" THEN [acceptor EXCEPT ![k] = NoClient] ELSE acceptor
         /\ \A q \in Processes \ {k} :
              op'[q] = op[q] /\ piece'[q] = piece[q] /\ parser'[q] = parser[q]
         /\ \A c \in Clients :
              /\ op'[k][c] = IF file = "program" \/ Aborted(k, c) THEN "none" ELSE op[k][c]
              /\ parser'[k][c] = IF file = "program" \/ Aborted(k, c) THEN Start ELSE parser[k][c]
         /\ UNCHANGED <<peer, text, meant, read, reply, backlog, file, touched, stdio>>
<1>1. CASE file = "program"
  <2>1. /\ mode' = [mode EXCEPT ![k] = "program"]
        /\ acceptor' = [acceptor EXCEPT ![k] = NoClient]
        /\ op' = [op EXCEPT ![k] = NoOps]
        /\ piece' = [piece EXCEPT ![k] = NoPieces]
        /\ parser' = [parser EXCEPT ![k] = Starts]
    BY <1>1 DEF Exec
  <2>2. \A q \in Processes \ {k} :
          op'[q] = op[q] /\ piece'[q] = piece[q] /\ parser'[q] = parser[q]
    BY <2>1 DEF HttpTypes
  <2>3. op'[k] = NoOps /\ parser'[k] = Starts
    BY <2>1 DEF HttpTypes
  <2> QED BY <1>1, <2>1, <2>2, <2>3 DEF Exec, Unstarted, NoOps, Starts, peers, environment
<1>2. CASE file # "program"
  <2>1. /\ mode' = [mode EXCEPT ![k] = "serves"] /\ acceptor' = acceptor /\ piece' = piece
        /\ op' = [op EXCEPT ![k] = [c \in Clients |-> IF Aborted(k, c) THEN "none" ELSE @[c]]]
        /\ parser' = [parser EXCEPT ![k] =
                        [c \in Clients |-> IF Aborted(k, c) THEN Start ELSE @[c]]]
    BY <1>2 DEF Exec
  <2>2. \A q \in Processes \ {k} :
          op'[q] = op[q] /\ piece'[q] = piece[q] /\ parser'[q] = parser[q]
    BY <2>1 DEF HttpTypes
  <2>3. /\ op'[k] = [c \in Clients |-> IF Aborted(k, c) THEN "none" ELSE op[k][c]]
        /\ parser'[k] = [c \in Clients |-> IF Aborted(k, c) THEN Start ELSE parser[k][c]]
    BY <2>1 DEF HttpTypes
  <2> QED BY <1>2, <2>1, <2>2, <2>3 DEF Exec, Unstarted, peers, environment
<1> QED BY <1>1, <1>2

\* The steps that neither connect nor read.
Unread == UNCHANGED <<peer, text, meant, read>>

LEMMA UnreadSteps ==
  ASSUME NEW p \in Processes
  PROVE  /\ Accept(p) \/ Accepted(p) \/ Exec(p) \/ ProgramWrites(p) \/ ProgramEnds(p) => Unread
         /\ \A c \in Clients : Handler(p, c) => Unread
<1>1. \A how : End(p, how) => Unread
  BY DEF End, peers, Unread
<1>2. Accept(p) \/ Accepted(p) \/ Exec(p) \/ ProgramWrites(p) \/ ProgramEnds(p) => Unread
  BY <1>1 DEF Accept, Accepted, Exec, ProgramWrites, ProgramEnds, peers, Unread
<1>3. \A c : ReadFailed(p, c) \/ SendDone(p, c) \/ SendThrows(p, c) \/ Fork(p, c) => Unread
  BY <1>1 DEF ReadFailed, SendDone, SendThrows, Fork, peers, Unread
<1>4. ASSUME NEW c, ReadDone(p, c) PROVE Unread
  <2>1. PICK q : ParseMore(p, c, q) \/ HandleThrows(p, c, q) \/ HandleRequest(p, c, q)
    BY <1>4 DEF ReadDone
  <2> QED BY <1>1, <2>1 DEF ParseMore, HandleThrows, HandleRequest, peers, Unread
<1> QED BY <1>2, <1>3, <1>4 DEF Handler

LEMMA TextsNext ==
  ASSUME HttpTypes, Texts, Waiting, [HttpNext]_hvars
  PROVE  Texts'
<1>1. CASE Unread
  BY <1>1 DEF Unread, Texts
<1>2. ASSUME NEW c \in Clients, Connect(c) PROVE Texts'
  <2>1. PICK s \in Requests[c] :
          /\ text' = [text EXCEPT ![c] = s]
          /\ meant' = [meant EXCEPT ![c] = Says(s)]
          /\ peer' = [peer EXCEPT ![c] = "there"]
          /\ read' = read /\ peer[c] = "away"
    BY <1>2 DEF Connect, Says
  <2>2. s \in Seq(Char) /\ Len(s) \in Nat /\ read[c] = 0
    BY <2>1, TextsAssumption, LenProperties DEF Waiting, Untouched
  <2>3. \A d \in Clients : read'[d] <= Len(text'[d])
    BY <2>1, <2>2 DEF Texts, HttpTypes
  <2>4. meant' = [d \in Clients |-> IF peer'[d] = "away"
                                   THEN [verdict |-> "indeterminate", path |-> <<>>]
                                   ELSE Says(text'[d])]
    BY <2>1 DEF Texts, HttpTypes
  <2> QED BY <2>3, <2>4 DEF Texts
<1>3. ASSUME NEW c \in Clients, Leave(c) PROVE Texts'
  BY <1>3 DEF Leave, Texts, HttpTypes
<1>4. ASSUME NEW p \in Processes, NEW c \in Clients, Receive(p, c) PROVE Texts'
  BY <1>4 DEF Receive, peers, Texts, HttpTypes
<1>5. ChangeFile \/ UNCHANGED hvars => Unread
  BY DEF ChangeFile, peers, hvars, Unread
<1> QED BY <1>1, <1>2, <1>3, <1>4, <1>5, UnreadSteps DEF HttpNext

LEMMA WaitingNext ==
  ASSUME HttpTypes, Waiting, Tables, [HttpNext]_hvars
  PROVE  Waiting'
<1>1. ASSUME NEW c \in Clients, Connect(c) PROVE Waiting'
  BY <1>1 DEF Connect, environment, tables, HttpTypes, Waiting, Untouched
<1>2. ASSUME NEW c \in Clients, Leave(c) PROVE Waiting'
  BY <1>2 DEF Leave, environment, tables, HttpTypes, Waiting, Untouched
<1>3. ASSUME ChangeFile PROVE Waiting'
  BY <1>3 DEF ChangeFile, peers, tables, HttpTypes, Waiting, Untouched
<1>4. ASSUME NEW p \in Processes, Accept(p) PROVE Waiting'
  BY <1>4 DEF Accept, peers, environment, tables, HttpTypes, Waiting, Untouched
<1>5. ASSUME NEW p \in Processes, Accepted(p) PROVE Waiting'
  <2>1. ASSUME NEW d \in Clients, Untouched(d) PROVE Untouched(d)'
    <3>1. d # acceptor[p]
      BY <2>1 DEF Untouched
    <3>2. \A q \in Processes : op'[q][d] = op[q][d] /\ (acceptor'[q] = d => acceptor[q] = d)
      BY <1>5, <3>1, ClientsAssumption DEF Accepted, HttpTypes
    <3> QED BY <1>5, <2>1, <3>2 DEF Accepted, Untouched
  <2> QED BY <1>5, <2>1 DEF Accepted, peers, Waiting
<1>6. ASSUME NEW p \in Processes, NEW c \in Clients, Receive(p, c) PROVE Waiting'
  <2>1. op[p][c] # "none" /\ UNCHANGED <<peer, reply, backlog, open, stdio, acceptor, parser>>
    BY <1>6 DEF Receive, peers
  <2>2. \A d \in Clients \ {c} :
          read'[d] = read[d] /\ \A q \in Processes : op'[q][d] = op[q][d]
    <3>1. \E w : op' = [op EXCEPT ![p][c] = w]
      BY <1>6 DEF Receive
    <3>2. read' = read \/ \E n : read' = [read EXCEPT ![c] = n]
      BY <1>6 DEF Receive
    <3> QED BY <3>1, <3>2 DEF HttpTypes
  <2>3. ASSUME NEW d \in Clients, Untouched(d) PROVE Untouched(d)'
    <3>1. d # c
      BY <2>1, <2>3 DEF Untouched
    <3> QED BY <2>1, <2>2, <2>3, <3>1 DEF Untouched
  <2> QED BY <2>1, <2>3 DEF Waiting
<1>7. ASSUME NEW p \in Processes, NEW c \in Clients, ReadFailed(p, c) PROVE Waiting'
  BY <1>7 DEF ReadFailed, Stop, peers, environment, HttpTypes, Waiting, Untouched
<1>8. ASSUME NEW p \in Processes, NEW how, End(p, how),
             reply' = reply \/ reply' = Logged(p)
      PROVE  Waiting'
  <2>1. \A c \in Clients : stdio[p] # c => reply'[c] = reply[c]
    BY <1>8, LoggedIs
  <2>2. peer' = peer /\ read' = read /\ backlog' \subseteq backlog
    BY <1>8 DEF End, peers
  <2>3. ASSUME NEW d \in Clients, Untouched(d) PROVE Untouched(d)'
    <3>1. \A q \in Processes : /\ open'[q] \subseteq open[q]
                               /\ stdio'[q] = d => stdio[q] = d
                               /\ acceptor'[q] = d => acceptor[q] = d
                               /\ op'[q][d] = "none" \/ op'[q] = op[q]
                               /\ parser'[q][d] = Start \/ parser'[q] = parser[q]
      BY <1>8, ClientsAssumption DEF End, NoOps, Starts, HttpTypes
    <3> QED BY <2>1, <2>2, <2>3, <3>1 DEF Untouched
  <2> QED BY <2>2, <2>3 DEF Waiting
<1>9. ASSUME NEW p \in Processes, NEW c \in Clients, ReadDone(p, c) PROVE Waiting'
  <2>1. PICK q : ParseMore(p, c, q) \/ HandleThrows(p, c, q) \/ HandleRequest(p, c, q)
    BY <1>9 DEF ReadDone
  <2>2. CASE ParseMore(p, c, q)
    BY <1>9, <2>2 DEF ReadDone, ParseMore, peers, environment, HttpTypes, Waiting, Untouched
  <2>3. CASE HandleThrows(p, c, q)
    BY <1>8, <2>3 DEF HandleThrows
  <2>4. CASE HandleRequest(p, c, q)
    <3>1. \A d \in Clients \ {c} : stdio[p] # d => reply'[d] = reply[d]
      BY <2>4, LoggedIs, Logs DEF HandleRequest
    <3> QED BY <1>9, <2>4, <3>1
            DEF ReadDone, HandleRequest, peers, environment, HttpTypes, Waiting, Untouched
  <2> QED BY <2>1, <2>2, <2>3, <2>4
<1>10. ASSUME NEW p \in Processes, NEW c \in Clients, SendDone(p, c) PROVE Waiting'
  BY <1>10 DEF SendDone, Stop, peers, environment, HttpTypes, Waiting, Untouched
<1>11. ASSUME NEW p \in Processes, NEW c \in Clients, SendThrows(p, c) PROVE Waiting'
  BY <1>8, <1>11 DEF SendThrows
<1>12. ASSUME NEW p \in Processes, NEW c \in Clients, Fork(p, c) PROVE Waiting'
  <2>1. \A d \in Clients : stdio[p] # d => reply'[d] = reply[d]
    BY <1>12, LoggedIs DEF Fork
  <2>2. op[p][c] = "sent" /\ UNCHANGED <<peer, read, backlog>>
    BY <1>12 DEF Fork, Again, peers
  <2>3. CASE Free = {}
    <3>1. /\ open' = [open EXCEPT ![p] = @ \ {c}]
          /\ op' = [op EXCEPT ![p][c] = "none"]
          /\ parser' = [parser EXCEPT ![p][c] = Start]
          /\ UNCHANGED <<acceptor, stdio>>
      BY <1>12, <2>3 DEF Fork, Stop
    <3> QED BY <2>1, <2>2, <3>1 DEF HttpTypes, Waiting, Untouched
  <2>4. CASE Free # {}
    <3>1. PICK k \in Processes :
            /\ acceptor' = [acceptor EXCEPT ![k] = acceptor[p]]
            /\ stdio' = [stdio EXCEPT ![k] = c]
            /\ open' = [open EXCEPT ![k] = open[p], ![p] = @ \ {c}]
            /\ op' = [op EXCEPT ![k] = op[p], ![p][c] = "none"]
            /\ parser' = [parser EXCEPT ![k] = parser[p], ![p][c] = Start]
      BY <1>12, <2>4 DEF Fork, Free, NewProcess
    <3> QED BY <2>1, <2>2, <3>1 DEF HttpTypes, Waiting, Untouched
  <2> QED BY <2>3, <2>4
<1>13. ASSUME NEW p \in Processes, Exec(p) PROVE Waiting'
  <2>1. ASSUME NEW d \in Clients, Untouched(d) PROVE Untouched(d)'
    <3>1. \A q \in Processes : d \notin open'[q] /\ acceptor'[q] # d
      <4>1. \A q \in Processes : d \notin open[q] /\ acceptor[q] # d
        BY <2>1 DEF Untouched
      <4>e. /\ open' = [open EXCEPT ![p] = Unstarted(p)]
            /\ acceptor' = [acceptor EXCEPT ![p] = NoClient] \/ acceptor' = acceptor
        BY <1>13, ExecIs
      <4>2. \A q \in Processes : d \notin open'[q]
        BY <4>e, <4>1 DEF Unstarted, HttpTypes
      <4>3. \A q \in Processes : acceptor'[q] # d
        BY <4>e, <4>1, ClientsAssumption DEF HttpTypes
      <4> QED BY <4>2, <4>3
    <3>2. op'[p][d] = "none" /\ parser'[p][d] = Start
      BY <1>13, <2>1, ExecIs DEF Untouched
    <3>3. \A q \in Processes \ {p} : op'[q][d] = "none" /\ parser'[q][d] = Start
      BY <1>13, <2>1, ExecIs DEF Untouched
    <3> QED BY <1>13, <2>1, <3>1, <3>2, <3>3, ExecIs DEF Untouched
  <2> QED BY <1>13, <2>1, ExecIs DEF Waiting
<1>14. ASSUME NEW p \in Processes, ProgramWrites(p) PROVE Waiting'
  BY <1>14 DEF ProgramWrites, peers, environment, tables, HttpTypes, Waiting, Untouched
<1>15. ASSUME NEW p \in Processes, ProgramEnds(p) PROVE Waiting'
  BY <1>8, <1>15 DEF ProgramEnds
<1>16. CASE UNCHANGED hvars
  BY <1>16 DEF hvars, Waiting, Untouched
<1> QED BY <1>1, <1>2, <1>3, <1>4, <1>5, <1>6, <1>7, <1>9, <1>10, <1>11, <1>12, <1>13, <1>14,
           <1>15, <1>16 DEF HttpNext, Handler

LEMMA ForkIs ==
  ASSUME HttpTypes, NEW p \in Processes, NEW c \in Clients, Fork(p, c)
  PROVE  /\ mode[p] = "serves" /\ op[p][c] = "sent" /\ c \in open[p]
         /\ parser[p][c].state = "good" /\ Regular(parser[p][c].uri)
         /\ reply' = Logged(p)
         /\ UNCHANGED <<peer, text, meant, read, backlog, file, touched, inherited>>
         /\ \/ Stop(p, c) /\ UNCHANGED <<mode, acceptor, stdio, piece>>
            \/ \E k \in Processes \ {p} :
                 /\ mode[k] = "unborn"
                 /\ mode' = [mode EXCEPT ![k] = "forked"]
                 /\ acceptor' = [acceptor EXCEPT ![k] = acceptor[p]]
                 /\ stdio' = [stdio EXCEPT ![k] = c]
                 /\ open' = [open EXCEPT ![k] = open[p], ![p] = @ \ {c}]
                 /\ op' = [op EXCEPT ![k] = op[p], ![p][c] = "none"]
                 /\ piece' = [piece EXCEPT ![k] = piece[p]]
                 /\ parser' = [parser EXCEPT ![k] = parser[p], ![p][c] = Start]
<1>1. mode[p] = "serves"
  BY DEF Fork, Serves
<1>2. Free # {} => NewProcess \in Processes \ {p} /\ mode[NewProcess] = "unborn"
  BY <1>1 DEF Free, NewProcess
<1> QED BY <1>1, <1>2 DEF Fork, Again, peers, environment

LEMMA TablesNext ==
  ASSUME HttpTypes, Waiting, Tables, [HttpNext]_hvars
  PROVE  Tables'
<1>1. CASE UNCHANGED <<mode, acceptor, open, stdio, op, parser>>
  BY <1>1 DEF Tables
<1>2. ASSUME NEW p \in Processes, Accept(p) PROVE Tables'
  <2>1. PICK c \in backlog : /\ acceptor' = [acceptor EXCEPT ![p] = c]
                             /\ open' = [open EXCEPT ![p] = @ \cup {c}]
    BY <1>2 DEF Accept
  <2>2. Untouched(c) /\ c \in Clients
    BY DEF Waiting, HttpTypes
  <2> QED BY <1>2, <2>1, <2>2, ClientsAssumption
          DEF Accept, Tables, Untouched, HttpTypes, tables
<1>3. ASSUME NEW p \in Processes, Accepted(p) PROVE Tables'
  <2>1. PICK c \in Clients : acceptor[p] = c
    BY <1>3 DEF Accepted, HttpTypes
  <2>2. c \in open[p] /\ op' = [op EXCEPT ![p][c] = "reading"]
        /\ acceptor' = [acceptor EXCEPT ![p] = NoClient]
        /\ UNCHANGED <<mode, open, stdio, parser>>
    BY <1>3, <2>1 DEF Accepted, Tables
  <2> QED BY <2>1, <2>2, ClientsAssumption DEF Tables, HttpTypes
\* One connection gets past its accept handler.
<1>4. ASSUME NEW p \in Processes, NEW c \in Clients, op[p][c] # "none",
             NEW w, w = "reading" => c \in open[p], op' = [op EXCEPT ![p][c] = w],
             NEW q, parser' = [parser EXCEPT ![p][c] = q],
             \/ open' = open
             \/ open' = [open EXCEPT ![p] = @ \ {c}] /\ w = "none",
             UNCHANGED <<mode, acceptor, stdio>>
      PROVE  Tables'
  <2>1. ASSUME NEW r \in Processes, NEW d \in Clients, acceptor'[r] = d
        PROVE  d \in open'[r] /\ op'[r][d] = "none" /\ parser'[r][d] = Start
    <3>1. acceptor[r] = d /\ d \in open[r] /\ op[r][d] = "none" /\ parser[r][d] = Start
      BY <1>4, <2>1 DEF Tables
    <3> QED BY <1>4, <3>1 DEF HttpTypes
  <2>2. ASSUME NEW r \in Processes, NEW d \in Clients, mode'[r] = "serves", op'[r][d] = "reading"
        PROVE  d \in open'[r]
    <3>1. CASE r = p /\ d = c
      BY <1>4, <2>2, <3>1 DEF HttpTypes
    <3>2. CASE ~ (r = p /\ d = c)
      <4>1. d \in open[r]
        BY <1>4, <2>2, <3>2 DEF HttpTypes, Tables
      <4> QED BY <1>4, <3>2, <4>1 DEF HttpTypes
    <3> QED BY <3>1, <3>2
  <2> QED BY <1>4, <2>1, <2>2 DEF Tables
<1>5. ASSUME NEW p \in Processes, NEW c \in Clients, Receive(p, c) PROVE Tables'
  <2>1. PICK w : w # "reading" /\ op' = [op EXCEPT ![p][c] = w]
    BY <1>5 DEF Receive
  <2>2. parser' = [parser EXCEPT ![p][c] = parser[p][c]]
    BY <1>5 DEF Receive, HttpTypes
  <2>3. op[p][c] # "none" /\ UNCHANGED <<mode, acceptor, stdio, open>>
    BY <1>5 DEF Receive
  <2> QED BY <1>4, <2>1, <2>2, <2>3
<1>6. ASSUME NEW p \in Processes, NEW c \in Clients, ReadFailed(p, c) \/ SendDone(p, c) PROVE Tables'
  <2>1. op[p][c] # "none" /\ Stop(p, c) /\ UNCHANGED <<mode, acceptor, stdio>>
    BY <1>6 DEF ReadFailed, SendDone
  <2> QED BY <1>4, <2>1 DEF Stop
<1>7. ASSUME NEW p \in Processes, NEW how \in {"ended", "dead"}, End(p, how) PROVE Tables'
  BY <1>7, ClientsAssumption DEF End, NoOps, Starts, HttpTypes, Tables
<1>8. ASSUME NEW p \in Processes, NEW c \in Clients, ReadDone(p, c) PROVE Tables'
  <2>1. PICK q : ParseMore(p, c, q) \/ HandleThrows(p, c, q) \/ HandleRequest(p, c, q)
    BY <1>8 DEF ReadDone
  <2>2. op[p][c] # "none"
    BY <1>8 DEF ReadDone
  <2>3. CASE ParseMore(p, c, q)
    <3>1. PICK w : (w = "reading" => c \in open[p]) /\ op' = [op EXCEPT ![p][c] = w]
      BY <2>3 DEF ParseMore
    <3> QED BY <1>4, <2>2, <2>3, <3>1 DEF ParseMore
  <2>4. CASE HandleThrows(p, c, q)
    BY <1>7, <2>4 DEF HandleThrows
  <2>5. CASE HandleRequest(p, c, q)
    <3>1. PICK w : w # "reading" /\ op' = [op EXCEPT ![p][c] = w]
      BY <2>5 DEF HandleRequest
    <3> QED BY <1>4, <2>2, <2>5, <3>1 DEF HandleRequest
  <2> QED BY <2>1, <2>3, <2>4, <2>5
<1>9. ASSUME NEW p \in Processes, NEW c \in Clients, SendThrows(p, c) PROVE Tables'
  BY <1>7, <1>9 DEF SendThrows
<1>10. ASSUME NEW p \in Processes, NEW c \in Clients, Fork(p, c) PROVE Tables'
  <2>1. op[p][c] = "sent"
    BY <1>10, ForkIs
  <2>2. CASE Stop(p, c) /\ UNCHANGED <<mode, acceptor, stdio, piece>>
    BY <1>4, <2>1, <2>2 DEF Stop
  <2>3. ASSUME NEW k \in Processes \ {p},
               /\ mode' = [mode EXCEPT ![k] = "forked"]
               /\ acceptor' = [acceptor EXCEPT ![k] = acceptor[p]]
               /\ stdio' = [stdio EXCEPT ![k] = c]
               /\ open' = [open EXCEPT ![k] = open[p], ![p] = @ \ {c}]
               /\ op' = [op EXCEPT ![k] = op[p], ![p][c] = "none"]
               /\ parser' = [parser EXCEPT ![k] = parser[p], ![p][c] = Start]
        PROVE  Tables'
    <3>1. ASSUME NEW d \in Clients, acceptor[p] = d
          PROVE  d # c /\ d \in open[p] /\ op[p][d] = "none" /\ parser[p][d] = Start
      BY <2>1, <3>1 DEF Tables
    <3>2. ASSUME NEW r \in Processes, NEW d \in Clients, acceptor'[r] = d
          PROVE  d \in open'[r] /\ op'[r][d] = "none" /\ parser'[r][d] = Start
      <4>1. CASE r = k
        BY <2>3, <3>1, <3>2, <4>1 DEF HttpTypes
      <4>2. CASE r = p
        BY <2>3, <3>1, <3>2, <4>2 DEF HttpTypes
      <4>3. CASE r \notin {k, p}
        BY <2>3, <3>2, <4>3 DEF HttpTypes, Tables
      <4> QED BY <4>1, <4>2, <4>3
    <3>3. ASSUME NEW r \in Processes, NEW d \in Clients,
                 mode'[r] = "serves", op'[r][d] = "reading"
          PROVE  d \in open'[r]
      <4>1. r # k /\ mode[r] = "serves"
        BY <2>3, <3>3 DEF HttpTypes
      <4>2. op[r][d] = "reading" /\ ~ (r = p /\ d = c)
        BY <2>3, <3>3, <4>1 DEF HttpTypes
      <4> QED BY <2>3, <4>1, <4>2 DEF HttpTypes, Tables
    <3>4. \A r \in Processes : mode'[r] \in {"forked", "program"} => stdio'[r] # NoClient
      BY <2>3, ClientsAssumption DEF HttpTypes, Tables
    <3> QED BY <3>2, <3>3, <3>4 DEF Tables
  <2> QED BY <1>10, <2>2, <2>3, ForkIs
<1>11. ASSUME NEW k \in Processes, Exec(k) PROVE Tables'
  <2>1. /\ mode[k] = "forked" /\ stdio' = stdio
        /\ mode' = [mode EXCEPT ![k] = IF file = "program" THEN "program" ELSE "serves"]
        /\ open' = [open EXCEPT ![k] = Unstarted(k)]
        /\ acceptor' = IF file = "program" THEN [acceptor EXCEPT ![k] = NoClient] ELSE acceptor
        /\ \A q \in Processes \ {k} : op'[q] = op[q] /\ parser'[q] = parser[q]
        /\ \A c \in Clients :
             /\ op'[k][c] = IF file = "program" \/ Aborted(k, c) THEN "none" ELSE op[k][c]
             /\ parser'[k][c] = IF file = "program" \/ Aborted(k, c) THEN Start ELSE parser[k][c]
    BY <1>11, ExecIs
  <2>2. ASSUME NEW r \in Processes, NEW d \in Clients, acceptor'[r] = d
        PROVE  d \in open'[r] /\ op'[r][d] = "none" /\ parser'[r][d] = Start
    <3>1. acceptor[r] = d
      BY <2>1, <2>2, ClientsAssumption DEF HttpTypes
    <3>2. d \in open[r] /\ op[r][d] = "none" /\ parser[r][d] = Start
      BY <3>1 DEF Tables
    <3>3. d \in open'[r]
      BY <2>1, <3>1, <3>2, ClientsAssumption DEF Unstarted, HttpTypes
    <3> QED BY <2>1, <3>2, <3>3
  <2>3. ASSUME NEW r \in Processes, NEW d \in Clients, mode'[r] = "serves", op'[r][d] = "reading"
        PROVE  d \in open'[r]
    <3>1. r # k
      BY <2>1, <2>3 DEF Aborted
    <3> QED BY <2>1, <2>3, <3>1 DEF HttpTypes, Tables
  <2>4. \A r \in Processes : mode'[r] \in {"forked", "program"} => stdio'[r] # NoClient
    BY <2>1 DEF HttpTypes, Tables
  <2> QED BY <2>2, <2>3, <2>4 DEF Tables
<1>12. \A c \in Clients :
         Connect(c) \/ Leave(c) => UNCHANGED <<mode, acceptor, open, stdio, op, parser>>
  BY DEF Connect, Leave, tables
<1>13. ChangeFile \/ UNCHANGED hvars => UNCHANGED <<mode, acceptor, open, stdio, op, parser>>
  BY DEF ChangeFile, hvars, tables
<1>14. \A p \in Processes :
         ProgramWrites(p) => UNCHANGED <<mode, acceptor, open, stdio, op, parser>>
  BY DEF ProgramWrites, tables
<1>15. ASSUME NEW p \in Processes, ProgramEnds(p) PROVE Tables'
  BY <1>7, <1>15 DEF ProgramEnds
<1> QED BY <1>1, <1>2, <1>3, <1>5, <1>6, <1>8, <1>9, <1>10, <1>11, <1>12, <1>13, <1>14, <1>15
        DEF HttpNext, Handler

LEMMA RootTablesNext ==
  ASSUME HttpTypes, Tables, RootTables, [HttpNext]_hvars
  PROVE  RootTables'
<1> USE ProcessesAssumption
<1>1. CASE UNCHANGED <<mode, open, stdio, op>>
  BY <1>1 DEF RootTables
<1>2. ASSUME NEW p \in Processes, NEW c \in Clients,
             NEW w, w # "none" /\ p = Root => c \in open[p], op' = [op EXCEPT ![p][c] = w],
             \/ open' = open \/ open' = [open EXCEPT ![p] = @ \cup {c}]
             \/ open' = [open EXCEPT ![p] = @ \ {c}] /\ w = "none",
             UNCHANGED <<mode, stdio>>
      PROVE  RootTables'
  <2>1. ASSUME NEW d \in Clients, mode'[Root] = "serves", op'[Root][d] # "none"
        PROVE  d \in open'[Root]
    <3>1. CASE p = Root /\ d = c
      BY <1>2, <2>1, <3>1 DEF HttpTypes
    <3>2. CASE ~ (p = Root /\ d = c)
      <4>1. op'[Root][d] = op[Root][d]
        BY <1>2, <3>2 DEF HttpTypes
      <4>2. d \in open[Root]
        BY <1>2, <2>1, <4>1 DEF RootTables
      <4>3. CASE open' = open
        BY <4>2, <4>3
      <4>4. CASE open' = [open EXCEPT ![p] = @ \cup {c}]
        BY <4>2, <4>4 DEF HttpTypes
      <4>5. CASE open' = [open EXCEPT ![p] = @ \ {c}]
        <5>1. CASE p = Root
          BY <3>2, <4>2, <4>5, <5>1 DEF HttpTypes
        <5>2. CASE p # Root
          BY <4>2, <4>5, <5>2 DEF HttpTypes
        <5> QED BY <5>1, <5>2
      <4> QED BY <1>2, <4>3, <4>4, <4>5
    <3> QED BY <3>1, <3>2
  <2> QED BY <1>2, <2>1 DEF RootTables
<1>3. ASSUME NEW p \in Processes, Accept(p) PROVE RootTables'
  <2>1. PICK c : open' = [open EXCEPT ![p] = @ \cup {c}]
    BY <1>3 DEF Accept
  <2> QED BY <1>3, <2>1 DEF Accept, RootTables, tables, HttpTypes
<1>4. ASSUME NEW p \in Processes, Accepted(p) PROVE RootTables'
  <2>1. PICK c \in Clients : acceptor[p] = c
    BY <1>4 DEF Accepted, HttpTypes
  <2>2. c \in open[p]
    BY <2>1 DEF Tables
  <2> QED BY <1>2, <1>4, <2>1, <2>2 DEF Accepted
<1>5. ASSUME NEW p \in Processes, NEW c \in Clients, Receive(p, c) PROVE RootTables'
  <2>1. PICK w : op' = [op EXCEPT ![p][c] = w]
    BY <1>5 DEF Receive
  <2>2. c \in open[p]
    BY <1>5 DEF Receive, Serves, Tables
  <2> QED BY <1>2, <1>5, <2>1, <2>2 DEF Receive
<1>6. ASSUME NEW p \in Processes, NEW c \in Clients, ReadFailed(p, c) \/ SendDone(p, c)
      PROVE  RootTables'
  BY <1>2, <1>6 DEF ReadFailed, SendDone, Stop
<1>7. ASSUME NEW p \in Processes, NEW how, End(p, how), p = Root => how = "dead" PROVE RootTables'
  BY <1>7 DEF End, RootTables, HttpTypes
<1>8. ASSUME NEW p \in Processes, NEW c \in Clients, ReadDone(p, c) PROVE RootTables'
  <2>1. PICK q : ParseMore(p, c, q) \/ HandleThrows(p, c, q) \/ HandleRequest(p, c, q)
    BY <1>8 DEF ReadDone
  <2>2. p = Root => c \in open[p]
    BY <1>8 DEF ReadDone, Serves, RootTables
  <2>3. CASE ParseMore(p, c, q)
    <3>1. PICK w : op' = [op EXCEPT ![p][c] = w]
      BY <2>3 DEF ParseMore
    <3> QED BY <1>2, <2>2, <2>3, <3>1 DEF ParseMore
  <2>4. CASE HandleThrows(p, c, q)
    BY <1>7, <2>4 DEF HandleThrows
  <2>5. CASE HandleRequest(p, c, q)
    <3>1. PICK w : op' = [op EXCEPT ![p][c] = w]
      BY <2>5 DEF HandleRequest
    <3> QED BY <1>2, <2>2, <2>5, <3>1 DEF HandleRequest
  <2> QED BY <2>1, <2>3, <2>4, <2>5
<1>9. ASSUME NEW p \in Processes, NEW c \in Clients, SendThrows(p, c) PROVE RootTables'
  BY <1>7, <1>9 DEF SendThrows
<1>10. ASSUME NEW p \in Processes, NEW c \in Clients, Fork(p, c) PROVE RootTables'
  <2>1. CASE Stop(p, c) /\ UNCHANGED <<mode, acceptor, stdio, piece>>
    BY <1>2, <2>1 DEF Stop
  <2>2. ASSUME NEW k \in Processes \ {p}, mode[k] = "unborn",
               /\ mode' = [mode EXCEPT ![k] = "forked"]
               /\ stdio' = [stdio EXCEPT ![k] = c]
               /\ open' = [open EXCEPT ![k] = open[p], ![p] = @ \ {c}]
               /\ op' = [op EXCEPT ![k] = op[p], ![p][c] = "none"]
        PROVE  RootTables'
    <3>1. k # Root
      BY <2>2 DEF RootTables
    <3> QED BY <2>2, <3>1 DEF RootTables, HttpTypes
  <2> QED BY <1>10, <2>1, <2>2, ForkIs
<1>11. ASSUME NEW k \in Processes, Exec(k) PROVE RootTables'
  <2>1. k # Root
    BY <1>11 DEF Exec, RootTables
  <2>2. /\ mode' = [mode EXCEPT ![k] = IF file = "program" THEN "program" ELSE "serves"]
        /\ open' = [open EXCEPT ![k] = Unstarted(k)]
        /\ op'[Root] = op[Root] /\ stdio' = stdio
    BY <1>11, <2>1, ExecIs
  <2> QED BY <2>1, <2>2 DEF RootTables, HttpTypes
<1>12. \A c \in Clients : Connect(c) \/ Leave(c) => UNCHANGED <<mode, open, stdio, op>>
  BY DEF Connect, Leave, tables
<1>13. ChangeFile \/ UNCHANGED hvars => UNCHANGED <<mode, open, stdio, op>>
  BY DEF ChangeFile, hvars, tables
<1>14. \A p \in Processes : ProgramWrites(p) => UNCHANGED <<mode, open, stdio, op>>
  BY DEF ProgramWrites, tables
<1>15. ASSUME NEW p \in Processes, ProgramEnds(p) PROVE RootTables'
  <2>1. p # Root
    BY <1>15 DEF ProgramEnds, RootTables
  <2> QED BY <1>7, <1>15, <2>1 DEF ProgramEnds
<1> QED BY <1>1, <1>3, <1>4, <1>5, <1>6, <1>8, <1>9, <1>10, <1>11, <1>12, <1>13, <1>14, <1>15
        DEF HttpNext, Handler

\* Two servers remain two servers.
LEMMA DoubledStays ==
  ASSUME HttpTypes, [HttpNext]_hvars, NEW c, Doubled(c)
  PROVE  Doubled(c)'
<1> DEFINE Stays == /\ inherited \subseteq inherited'
                    /\ \A p \in Processes : mode[p] \in {"serves", "dead"} =>
                                              mode'[p] \in {"serves", "dead"}
<1>1. UNCHANGED <<mode, inherited>> => Stays
  OBVIOUS
<1>2. ASSUME NEW d \in Clients, Connect(d) \/ Leave(d) PROVE Stays
  BY <1>2 DEF Connect, Leave
<1>3. ASSUME ChangeFile \/ UNCHANGED hvars PROVE Stays
  BY <1>3 DEF ChangeFile, hvars
<1>4. ASSUME NEW p \in Processes, Accept(p) \/ Accepted(p) \/ ProgramWrites(p) PROVE Stays
  BY <1>4 DEF Accept, Accepted, ProgramWrites
<1>5. ASSUME NEW p \in Processes, NEW d \in Clients, Receive(p, d) \/ ReadFailed(p, d) \/ SendDone(p, d)
      PROVE  Stays
  BY <1>5 DEF Receive, ReadFailed, SendDone
<1>6. ASSUME NEW p \in Processes, NEW how, End(p, how), how = "dead" \/ mode[p] = "program"
      PROVE  Stays
  BY <1>6 DEF End, HttpTypes
<1>7. ASSUME NEW p \in Processes, NEW d \in Clients, ReadDone(p, d) PROVE Stays
  <2>1. PICK q : ParseMore(p, d, q) \/ HandleThrows(p, d, q) \/ HandleRequest(p, d, q)
    BY <1>7 DEF ReadDone
  <2> QED BY <1>6, <2>1 DEF ParseMore, HandleThrows, HandleRequest
<1>8. ASSUME NEW p \in Processes, NEW d \in Clients, SendThrows(p, d) PROVE Stays
  BY <1>6, <1>8 DEF SendThrows
<1>9. ASSUME NEW p \in Processes, NEW d \in Clients, Fork(p, d) PROVE Stays
  <2>1. inherited' = inherited
    BY <1>9, ForkIs
  <2>2. mode' = mode \/ \E k \in Processes : mode[k] = "unborn" /\ mode' = [mode EXCEPT ![k] = "forked"]
    BY <1>9, ForkIs
  <2> QED BY <2>1, <2>2 DEF HttpTypes
<1>10. ASSUME NEW k \in Processes, Exec(k) PROVE Stays
  <2>1. /\ mode[k] = "forked" /\ inherited' = inherited \cup Unstarted(k)
        /\ mode' = [mode EXCEPT ![k] = IF file = "program" THEN "program" ELSE "serves"]
    BY <1>10, ExecIs
  <2> QED BY <2>1 DEF HttpTypes
<1>11. ASSUME NEW p \in Processes, ProgramEnds(p) PROVE Stays
  BY <1>6, <1>11 DEF ProgramEnds
<1>12. Stays
  BY <1>2, <1>3, <1>4, <1>5, <1>7, <1>8, <1>9, <1>10, <1>11 DEF HttpNext, Handler
<1> QED BY <1>12 DEF Doubled, SecondServer

\* Nothing that was written is taken back.
LEMMA RepliesGrow ==
  ASSUME HttpTypes, [HttpNext]_hvars, NEW c \in Clients, NEW S, Wrote(c, S)
  PROVE  Wrote(c, S)'
<1> DEFINE Grows(r) == \/ r = reply[c]
                       \/ \E x \in Lines : r = Append(reply[c], x)
                       \/ \E x \in Lines, y \in Lines : r = Append(Append(reply[c], x), y)
<1>0. reply[c] \in Seq(Lines) /\ "log" \in Lines /\ "output" \in Lines
  BY DEF HttpTypes, Lines
<1>1. ASSUME Grows(reply'[c]) PROVE Wrote(c, S)'
  <2>1. PICK i \in DOMAIN reply[c] : reply[c][i] \in S
    BY DEF Wrote
  <2>2. \A s \in Seq(Lines), x \in Lines :
          i \in DOMAIN s => i \in DOMAIN Append(s, x) /\ Append(s, x)[i] = s[i]
    <3> TAKE s \in Seq(Lines), x \in Lines
    <3>1. Len(s) \in Nat
      BY LenProperties
    <3> QED BY <3>1, Appended
  <2>3. \A x \in Lines : Append(reply[c], x) \in Seq(Lines)
    BY <1>0, Appended
  <2>4. i \in DOMAIN reply'[c] /\ reply'[c][i] = reply[c][i]
    BY <1>0, <1>1, <2>2, <2>3
  <2> QED BY <2>1, <2>4 DEF Wrote
<1>2. \A p \in Processes : Grows(Logged(p)[c])
  BY <1>0, LoggedIs
<1>3. UNCHANGED reply => Grows(reply'[c])
  OBVIOUS
<1> HIDE DEF Grows
<1>4. ASSUME NEW p \in Processes, NEW d \in Clients, ReadDone(p, d) PROVE Grows(reply'[c])
  <2>1. PICK q : ParseMore(p, d, q) \/ HandleThrows(p, d, q) \/ HandleRequest(p, d, q)
    BY <1>4 DEF ReadDone
  <2>2. CASE ParseMore(p, d, q) \/ HandleThrows(p, d, q)
    BY <1>2, <1>3, <2>2 DEF ParseMore, HandleThrows
  <2>3. CASE HandleRequest(p, d, q)
    <3>1. \/ reply' = Logged(p)
          \/ reply' = [Logged(p) EXCEPT ![d] = Append(@, StatusLine(q))]
      BY <2>3 DEF HandleRequest
    <3>2. CASE reply' = Logged(p)
      BY <1>2, <3>2
    <3>3. CASE reply' = [Logged(p) EXCEPT ![d] = Append(@, StatusLine(q))]
      <4>1. StatusLine(q) \in Lines
        BY DEF StatusLine, Lines
      <4>2. reply'[c] = Logged(p)[c] \/ reply'[c] = Append(Logged(p)[c], StatusLine(q))
        BY <3>3, Logs
      <4>3. Logged(p)[c] = reply[c] \/ Logged(p)[c] = Append(reply[c], "log")
        BY LoggedIs
      <4> QED BY <1>0, <4>1, <4>2, <4>3 DEF Grows
    <3> QED BY <3>1, <3>2, <3>3
  <2> QED BY <2>1, <2>2, <2>3
<1>5. ASSUME NEW p \in Processes, NEW d \in Clients, SendThrows(p, d) \/ Fork(p, d)
      PROVE  Grows(reply'[c])
  BY <1>2, <1>3, <1>5 DEF SendThrows, Fork
<1>6. ASSUME NEW p \in Processes, ProgramWrites(p) PROVE Grows(reply'[c])
  <2>1. reply'[c] = reply[c] \/ reply'[c] = Append(reply[c], "output")
    BY <1>6 DEF ProgramWrites, HttpTypes
  <2> QED BY <1>0, <2>1 DEF Grows
<1>7. \A d \in Clients : Connect(d) \/ Leave(d) => UNCHANGED reply
  BY DEF Connect, Leave
<1>8. ChangeFile \/ UNCHANGED hvars => UNCHANGED reply
  BY DEF ChangeFile, hvars
<1>9. \A p \in Processes : Accept(p) \/ Accepted(p) \/ Exec(p) \/ ProgramEnds(p) => UNCHANGED reply
  BY DEF Accept, Accepted, Exec, ProgramEnds
<1>10. \A p \in Processes, d \in Clients :
         Receive(p, d) \/ ReadFailed(p, d) \/ SendDone(p, d) => UNCHANGED reply
  BY DEF Receive, ReadFailed, SendDone
<1>11. Grows(reply'[c])
  BY <1>3, <1>4, <1>5, <1>6, <1>7, <1>8, <1>9, <1>10 DEF HttpNext, Handler
<1> QED BY <1>1, <1>11

--------------------------------------------------------------------------------
(***************************************************************************)
(* The clients.  A step is quiet for a connection when it neither reads    *)
(* from it nor answers it: at most it closes it, or logs to it.            *)
(***************************************************************************)
LEMMA ParseNothing ==
  ASSUME NEW p \in Parsers
  PROVE  Parse(p, <<>>) = p
<1>1. <<>> \in Seq(Char) /\ Len(<<>>) = 0
  BY EmptySeq
<1>2. IsRun([i \in 0..0 |-> p], p, <<>>)
  BY <1>1 DEF IsRun
<1> QED BY <1>1, <1>2, ParseRun

LEMMA WroteMore ==
  ASSUME HttpTypes, NEW c \in Clients, NEW x \in Lines, reply'[c] = Append(reply[c], x), NEW S
  PROVE  /\ Wrote(c, S)' <=> Wrote(c, S) \/ x \in S
         /\ reply[c] # <<>> => reply'[c][1] = reply[c][1]
         /\ reply'[c] # <<>>
<1> PICK s \in Seq(Lines), t \in Seq(Lines) : s = reply[c] /\ t = reply'[c] /\ t = Append(s, x)
  BY Appended DEF HttpTypes, Lines
<1>l. PICK l \in Nat : l = Len(s)
  BY LenProperties
<1>1. /\ DOMAIN t = 1 .. l + 1 /\ DOMAIN s = 1..l /\ t # <<>>
      /\ t[l + 1] = x /\ \A i \in 1..l : t[i] = s[i]
  BY <1>l, Appended
<1>2. s # <<>> => 1 \in 1..l
  BY <1>l, EmptySeq, LenProperties
<1>3. l + 1 \in 1 .. l + 1 /\ \A i \in 1 .. l + 1 : i \in 1..l \/ i = l + 1
  OBVIOUS
<1>4. Wrote(c, S)' <=> \E i \in DOMAIN t : t[i] \in S
  BY DEF Wrote
<1>5. Wrote(c, S) <=> \E i \in DOMAIN s : s[i] \in S
  BY DEF Wrote
<1>6. (\E i \in DOMAIN t : t[i] \in S) <=> (\E i \in DOMAIN s : s[i] \in S) \/ x \in S
  <2>1. ASSUME NEW i \in DOMAIN t, t[i] \in S PROVE (\E j \in DOMAIN s : s[j] \in S) \/ x \in S
    BY <1>1, <1>3, <2>1
  <2>2. ASSUME NEW i \in DOMAIN s, s[i] \in S PROVE \E j \in DOMAIN t : t[j] \in S
    BY <1>1, <2>2, i \in 1 .. l + 1
  <2>3. x \in S => \E j \in DOMAIN t : t[j] \in S
    BY <1>1, <1>3
  <2> QED BY <2>1, <2>2, <2>3
<1> QED BY <1>1, <1>2, <1>4, <1>5, <1>6

\* A line that is no status line leaves StatusFits alone.
LEMMA StatusKept ==
  ASSUME HttpTypes, NEW c \in Clients, NEW x \in Lines \ StatusLines, StatusFits(c),
         reply'[c] = Append(reply[c], x), meant'[c] = meant[c]
  PROVE  StatusFits(c)'
<1> PICK s \in Seq(Lines), t \in Seq(Lines) : s = reply[c] /\ t = reply'[c] /\ t = Append(s, x)
  BY Appended DEF HttpTypes, Lines
<1>l. PICK l \in Nat : l = Len(s)
  BY LenProperties
<1>1. /\ DOMAIN t = 1 .. l + 1 /\ DOMAIN s = 1..l
      /\ t[l + 1] = x /\ \A i \in 1..l : t[i] = s[i]
  BY <1>l, Appended
<1>2. ASSUME NEW i \in DOMAIN t, t[i] \in StatusLines PROVE i \in DOMAIN s /\ t[i] = s[i]
  BY <1>1, <1>2, i \in 1..l \/ i = l + 1
<1> QED BY <1>2 DEF StatusFits

Quiet(c) ==
  /\ read'[c] = read[c] /\ text'[c] = text[c] /\ meant'[c] = meant[c]
  /\ c \in touched => c \in touched'
  /\ file' = file \/ reply[c] = <<>> \/ meant[c].path # Path \/ c \in touched'
  /\ \/ reply'[c] = reply[c]
     \/ /\ reply'[c] = Append(reply[c], "log")
        /\ \E p \in Processes : stdio[p] = c /\ mode[p] = "serves"
  /\ \A p \in Processes : Holds(p, c)' =>
       /\ Holds(p, c)
       /\ op'[p][c] = op[p][c] /\ piece'[p][c] = piece[p][c] /\ parser'[p][c] = parser[p][c]
       /\ acceptor'[p] = c => acceptor[p] = c
  /\ \A p \in Processes :
       stdio'[p] = c => stdio[p] = c /\ (mode'[p] = mode[p] \/ mode[p] = "forked")

LEMMA QuietKeeps ==
  ASSUME HttpTypes, NEW c \in Clients, ClientInv(c), Quiet(c)
  PROVE  ClientInv(c)'
<1>1. CASE reply'[c] = reply[c]
  <2>1. \A S : Wrote(c, S)' <=> Wrote(c, S)
    BY <1>1 DEF Wrote
  <2>2. ASSUME NEW p \in Processes, Holds(p, c)' PROVE Holder(p, c)'
    <3>1. /\ Holds(p, c) /\ Holder(p, c)
          /\ op'[p][c] = op[p][c] /\ piece'[p][c] = piece[p][c] /\ parser'[p][c] = parser[p][c]
          /\ acceptor'[p] = c => acceptor[p] = c
      BY <2>2 DEF Quiet, ClientInv
    <3>2. SoFar(c)' = SoFar(c) /\ read'[c] = read[c]
      BY DEF Quiet, SoFar
    <3>3. Told(p, c) => Told(p, c)'
      <4> SUFFICES ASSUME Told(p, c) PROVE Told(p, c)'
        OBVIOUS
      <4>1. reply[c] # <<>>
        BY EmptySeq DEF Told
      <4>2. /\ file' = file \/ meant[c].path # Path \/ c \in touched'
            /\ c \in touched => c \in touched'
            /\ meant'[c] = meant[c]
        BY <4>1 DEF Quiet
      <4> QED BY <1>1, <3>1, <3>2, <4>2 DEF Told
    <3>4. \A q \in Processes : stdio'[q] # c /\ (Holds(q, c)' => q = p)
      BY <3>1 DEF Quiet, Holder
    <3> QED BY <1>1, <2>1, <3>1, <3>2, <3>3, <3>4 DEF Holder
  <2>3. ASSUME NEW p \in Processes, stdio'[p] = c PROVE Child(p, c)'
    <3>1. Child(p, c) /\ (mode'[p] = mode[p] \/ mode[p] = "forked")
      BY <2>3 DEF Quiet, ClientInv
    <3>2. \A q \in Processes : stdio'[q] = c => q = p
      BY <3>1 DEF Quiet, Child
    <3> QED BY <1>1, <2>1, <3>1, <3>2 DEF Child, Quiet
  <2>4. StatusFits(c)'
    BY <1>1 DEF ClientInv, Quiet, StatusFits
  <2> QED BY <1>1, <2>1, <2>2, <2>3, <2>4 DEF ClientInv, Quiet
<1>2. ASSUME reply'[c] = Append(reply[c], "log"),
             NEW p \in Processes, stdio[p] = c, mode[p] = "serves"
      PROVE  ClientInv(c)'
  <2>0. "log" \in Lines \ StatusLines
    BY DEF Lines, StatusLines
  <2>1. Child(p, c)
    BY <1>2 DEF ClientInv
  <2>2. ~ Wrote(c, {"output"})'
    BY <1>2, <2>0, <2>1, WroteMore DEF Child
  <2>3. \A q \in Processes : ~ Holds(q, c)'
    BY <1>2 DEF ClientInv, Holder, Quiet
  <2>4. ASSUME NEW q \in Processes, stdio'[q] = c PROVE Child(q, c)'
    <3>1. q = p /\ mode'[q] = "serves"
      BY <1>2, <2>1, <2>4 DEF Quiet, Child
    <3>2. \A r \in Processes : stdio'[r] = c => r = q
      BY <2>1, <3>1 DEF Quiet, Child
    <3>3. reply'[c] # <<>>
      BY <1>2, <2>0, WroteMore
    <3> QED BY <2>2, <3>1, <3>2, <3>3 DEF Child
  <2>5. StatusFits(c)'
    BY <1>2, <2>0, StatusKept DEF ClientInv, Quiet
  <2> QED BY <2>2, <2>3, <2>4, <2>5 DEF ClientInv
<1> QED BY <1>1, <1>2 DEF Quiet

LEMMA QuietLog ==
  ASSUME HttpTypes, NEW p \in Processes, mode[p] = "serves", NEW c \in Clients,
         reply' = reply \/ reply' = Logged(p)
  PROVE  \/ reply'[c] = reply[c]
         \/ /\ reply'[c] = Append(reply[c], "log")
            /\ \E q \in Processes : stdio[q] = c /\ mode[q] = "serves"
<1>1. \/ Logged(p)[c] = reply[c]
      \/ stdio[p] = c /\ Logged(p)[c] = Append(reply[c], "log")
  BY LoggedIs
<1> QED BY <1>1

LEMMA QuietEnd ==
  ASSUME HttpTypes, NEW p \in Processes, NEW how, End(p, how), NEW c \in Clients,
         how \in {"ended", "dead"},
         \/ reply' = reply
         \/ mode[p] = "serves" /\ reply' = Logged(p)
  PROVE  Quiet(c)
<1>1. /\ mode' = [mode EXCEPT ![p] = how]
      /\ acceptor' = [acceptor EXCEPT ![p] = NoClient]
      /\ open' = [open EXCEPT ![p] = {}]
      /\ stdio' = [stdio EXCEPT ![p] = NoClient]
      /\ op' = [op EXCEPT ![p] = NoOps]
      /\ piece' = [piece EXCEPT ![p] = NoPieces]
      /\ parser' = [parser EXCEPT ![p] = Starts]
      /\ UNCHANGED <<read, text, meant, file, touched>>
  BY DEF End, peers, environment
<1>2. ASSUME NEW q \in Processes, Holds(q, c)'
      PROVE  /\ Holds(q, c)
             /\ op'[q][c] = op[q][c] /\ piece'[q][c] = piece[q][c] /\ parser'[q][c] = parser[q][c]
             /\ acceptor'[q] = c => acceptor[q] = c
  <2>1. q # p
    BY <1>1, <1>2 DEF Holds, HttpTypes
  <2> QED BY <1>1, <1>2, <2>1 DEF Holds, HttpTypes
<1>3. ASSUME NEW q \in Processes, stdio'[q] = c PROVE stdio[q] = c /\ mode'[q] = mode[q]
  BY <1>1, <1>3, ClientsAssumption DEF HttpTypes
<1>4. \/ reply'[c] = reply[c]
      \/ /\ reply'[c] = Append(reply[c], "log")
         /\ \E q \in Processes : stdio[q] = c /\ mode[q] = "serves"
  BY QuietLog
<1> QED BY <1>1, <1>2, <1>3, <1>4 DEF Quiet

\* A handler of another connection, or one that closes the connection.
LEMMA QuietElsewhere ==
  ASSUME HttpTypes, NEW p \in Processes, NEW c \in Clients, NEW d \in Clients, mode[p] = "serves",
         NEW w, op' = [op EXCEPT ![p][d] = w],
         NEW s, piece' = [piece EXCEPT ![p][d] = s],
         NEW q, parser' = [parser EXCEPT ![p][d] = q],
         UNCHANGED <<text, meant, file, touched, mode, acceptor, stdio>>,
         \/ open' = open /\ (d # c \/ c \notin open[p])
         \/ open' = [open EXCEPT ![p] = @ \ {d}],
         read'[c] = read[c],
         \/ reply'[c] = reply[c]
         \/ /\ reply'[c] = Append(reply[c], "log")
            /\ \E k \in Processes : stdio[k] = c /\ mode[k] = "serves"
  PROVE  Quiet(c)
<1>1. ASSUME NEW k \in Processes, Holds(k, c)'
      PROVE  /\ Holds(k, c)
             /\ op'[k][c] = op[k][c] /\ piece'[k][c] = piece[k][c] /\ parser'[k][c] = parser[k][c]
  <2>1. Holds(k, c)
    <3>1. mode[k] = "serves" /\ c \in open'[k]
      BY <1>1 DEF Holds
    <3>2. CASE open' = open
      BY <3>1, <3>2 DEF Holds
    <3>3. CASE open' = [open EXCEPT ![p] = @ \ {d}]
      BY <3>1, <3>3 DEF Holds, HttpTypes
    <3> QED BY <3>2, <3>3
  <2>2. ~ (k = p /\ d = c)
    BY <1>1 DEF Holds, HttpTypes
  <2> QED BY <2>1, <2>2 DEF HttpTypes
<1> QED BY <1>1 DEF Quiet

LEMMA QuietStop ==
  ASSUME HttpTypes, NEW p \in Processes, mode[p] = "serves", NEW d \in Clients, Stop(p, d),
         UNCHANGED <<text, meant, read, file, touched, mode, acceptor, stdio, piece>>,
         reply' = reply \/ reply' = Logged(p),
         NEW c \in Clients
  PROVE  Quiet(c)
<1>1. /\ op' = [op EXCEPT ![p][d] = "none"]
      /\ piece' = [piece EXCEPT ![p][d] = piece[p][d]]
      /\ parser' = [parser EXCEPT ![p][d] = Start]
      /\ open' = [open EXCEPT ![p] = @ \ {d}]
  BY DEF Stop, HttpTypes
<1> QED BY <1>1, QuietLog, QuietElsewhere

LEMMA QuietFork ==
  ASSUME HttpTypes, NEW p \in Processes, NEW d \in Clients, Fork(p, d), NEW c \in Clients,
         NEW k \in Processes, mode[k] = "unborn", mode' = [mode EXCEPT ![k] = "forked"],
         acceptor' = [acceptor EXCEPT ![k] = acceptor[p]],
         stdio' = [stdio EXCEPT ![k] = d],
         open' = [open EXCEPT ![k] = open[p], ![p] = @ \ {d}],
         op' = [op EXCEPT ![k] = op[p], ![p][d] = "none"],
         piece' = [piece EXCEPT ![k] = piece[p]],
         parser' = [parser EXCEPT ![k] = parser[p], ![p][d] = Start],
         c # d
  PROVE  Quiet(c)
<1>1. /\ mode[p] = "serves" /\ reply' = Logged(p)
      /\ UNCHANGED <<text, meant, read, file, touched>>
  BY ForkIs
<1>2. ASSUME NEW q \in Processes, Holds(q, c)'
      PROVE  /\ Holds(q, c)
             /\ op'[q][c] = op[q][c] /\ piece'[q][c] = piece[q][c] /\ parser'[q][c] = parser[q][c]
             /\ acceptor'[q] = c => acceptor[q] = c
  <2>1. q # k /\ mode[q] = "serves"
    BY <1>2 DEF Holds, HttpTypes
  <2>2. Holds(q, c)
    BY <1>2, <2>1 DEF Holds, HttpTypes
  <2> QED BY <2>1, <2>2 DEF HttpTypes
<1>3. ASSUME NEW q \in Processes, stdio'[q] = c PROVE stdio[q] = c /\ mode'[q] = mode[q]
  BY <1>3 DEF HttpTypes
<1> QED BY <1>1, <1>2, <1>3, QuietLog DEF Quiet

\* The child of fork serves what it accepted, and that connection is doubled then.
LEMMA QuietExec ==
  ASSUME HttpTypes, RootTables, NEW k \in Processes, Exec(k), NEW c \in Clients, ~ Doubled(c)'
  PROVE  Quiet(c)
<1>1. /\ mode[k] = "forked"
      /\ mode' = [mode EXCEPT ![k] = IF file = "program" THEN "program" ELSE "serves"]
      /\ open' = [open EXCEPT ![k] = Unstarted(k)]
      /\ inherited' = inherited \cup Unstarted(k)
      /\ acceptor' = IF file = "program" THEN [acceptor EXCEPT ![k] = NoClient] ELSE acceptor
      /\ \A q \in Processes \ {k} :
           op'[q] = op[q] /\ piece'[q] = piece[q] /\ parser'[q] = parser[q]
      /\ UNCHANGED <<text, meant, read, reply, file, touched, stdio>>
  BY ExecIs
<1>2. k # Root
  BY <1>1 DEF RootTables
<1>3. ~ Holds(k, c)'
  <2> SUFFICES ASSUME Holds(k, c)' PROVE FALSE
    OBVIOUS
  <2>1. mode'[k] = "serves" /\ c \in Unstarted(k)
    BY <1>1 DEF Holds, HttpTypes
  <2>2. Doubled(c)'
    BY <1>1, <1>2, <2>1 DEF Doubled, SecondServer
  <2> QED BY <2>2
<1>4. ASSUME NEW q \in Processes, Holds(q, c)'
      PROVE  /\ Holds(q, c)
             /\ op'[q][c] = op[q][c] /\ piece'[q][c] = piece[q][c] /\ parser'[q][c] = parser[q][c]
             /\ acceptor'[q] = c => acceptor[q] = c
  <2>1. q # k
    BY <1>3, <1>4
  <2> QED BY <1>1, <1>4, <2>1 DEF Holds, HttpTypes
<1>5. \A q \in Processes : mode'[q] = mode[q] \/ mode[q] = "forked"
  BY <1>1 DEF HttpTypes
<1> QED BY <1>1, <1>4, <1>5 DEF Quiet

LEMMA ConnectKeeps ==
  ASSUME HttpTypes, Waiting, NEW d \in Clients, Connect(d), NEW c \in Clients, ClientInv(c)
  PROVE  ClientInv(c)'
<1>1. /\ UNCHANGED <<read, reply, file, touched, mode, acceptor, open, stdio, op, piece, parser>>
      /\ \E t : text' = [text EXCEPT ![d] = t]
      /\ \E m : meant' = [meant EXCEPT ![d] = m]
  BY DEF Connect, environment, tables
<1>2. CASE c # d
  <2>1. text'[c] = text[c] /\ meant'[c] = meant[c]
    BY <1>1, <1>2 DEF HttpTypes
  <2> QED BY <1>1, <2>1, QuietKeeps DEF Quiet, Holds
<1>3. CASE c = d
  <2>1. reply[c] = <<>> /\ \A p \in Processes : c \notin open[p] /\ stdio[p] # c
    BY <1>3 DEF Connect, Waiting, Untouched
  <2>2. reply'[c] = <<>> /\ \A p \in Processes : c \notin open'[p] /\ stdio'[p] # c
    BY <1>1, <2>1
  <2>3. DOMAIN reply'[c] = {}
    BY <2>2, EmptySeq, LenProperties
  <2> QED BY <2>2, <2>3 DEF ClientInv, Holds, StatusFits, Wrote
<1> QED BY <1>2, <1>3

LEMMA AcceptKeeps ==
  ASSUME HttpTypes, Waiting, NEW p \in Processes, Accept(p), NEW c \in Clients, ClientInv(c)
  PROVE  ClientInv(c)'
<1>1. PICK d \in backlog :
        /\ acceptor' = [acceptor EXCEPT ![p] = d]
        /\ open' = [open EXCEPT ![p] = @ \cup {d}]
  BY DEF Accept
<1>2. /\ UNCHANGED <<text, meant, read, reply, file, touched, mode, stdio, op, piece, parser>>
      /\ mode[p] = "serves" /\ d \in Clients
  BY DEF Accept, Serves, peers, environment, tables, HttpTypes
<1>3. CASE c # d
  <2>1. ASSUME NEW q \in Processes, Holds(q, c)'
        PROVE  Holds(q, c) /\ (acceptor'[q] = c => acceptor[q] = c)
    BY <1>1, <1>2, <1>3, <2>1 DEF Holds, HttpTypes
  <2> QED BY <1>2, <2>1, QuietKeeps DEF Quiet
<1>4. CASE c = d
  <2>1. /\ read[c] = 0 /\ reply[c] = <<>>
        /\ \A q \in Processes : c \notin open[q] /\ stdio[q] # c /\ acceptor[q] # c
                                /\ op[q][c] = "none"
    BY <1>2, <1>4 DEF Waiting, Untouched
  <2>2. DOMAIN reply'[c] = {}
    BY <1>2, <2>1, EmptySeq, LenProperties
  <2>3. ASSUME NEW q \in Processes, Holds(q, c)' PROVE q = p
    BY <1>1, <2>1, <2>3 DEF Holds, HttpTypes
  <2>4. ASSUME NEW q \in Processes, Holds(q, c)' PROVE Holder(q, c)'
    BY <1>2, <2>1, <2>2, <2>3, <2>4 DEF Holder, Wrote
  <2> QED BY <1>2, <2>1, <2>2, <2>4 DEF ClientInv, StatusFits, Wrote
<1> QED BY <1>3, <1>4

LEMMA AcceptedKeeps ==
  ASSUME HttpTypes, Tables, NEW p \in Processes, Accepted(p), NEW c \in Clients, ClientInv(c)
  PROVE  ClientInv(c)'
<1>1. PICK d \in Clients : acceptor[p] = d
  BY DEF Accepted, HttpTypes
<1>2. /\ op' = [op EXCEPT ![p][d] = "reading"]
      /\ acceptor' = [acceptor EXCEPT ![p] = NoClient]
      /\ UNCHANGED <<text, meant, read, reply, file, touched, mode, open, stdio, piece, parser>>
      /\ mode[p] = "serves" /\ d \in open[p] /\ parser[p][d] = Start
  BY <1>1 DEF Accepted, Serves, Tables, peers, environment
<1>3. CASE c # d
  <2>1. ASSUME NEW q \in Processes, Holds(q, c)'
        PROVE  Holds(q, c) /\ op'[q][c] = op[q][c] /\ (acceptor'[q] = c => acceptor[q] = c)
    BY <1>2, <1>3, <2>1, ClientsAssumption DEF Holds, HttpTypes
  <2> QED BY <1>2, <2>1, QuietKeeps DEF Quiet
<1>4. CASE c = d
  <2>1. Holds(p, c) /\ Holder(p, c)
    BY <1>2, <1>4 DEF Holds, ClientInv
  <2>2. /\ read[c] = 0 /\ reply[c] = <<>> /\ ~ Wrote(c, {"output", "log"})
        /\ \A q \in Processes : stdio[q] # c /\ (Holds(q, c) => q = p)
    BY <1>1, <1>4, <2>1 DEF Holder
  <2>3. SoFar(c) = <<>>
    BY <2>2 DEF SoFar
  <2>4. op'[p][c] = "reading" /\ acceptor'[p] # c
    BY <1>2, <1>4, ClientsAssumption DEF HttpTypes
  <2>5. parser'[p][c] = Parse(Start, SoFar(c)')
    BY <1>2, <1>4, <2>3, StartIsParser, ParseNothing DEF SoFar
  <2>6. ~ Wrote(c, {"output", "log"})'
    BY <1>2, <2>2 DEF Wrote
  <2>7. \A q \in Processes : Holds(q, c)' => Holds(q, c)
    BY <1>2 DEF Holds
  <2>8. Holder(p, c)'
    BY <1>2, <2>2, <2>4, <2>5, <2>6, <2>7 DEF Holder
  <2>9. StatusFits(c)' /\ ~ Wrote(c, {"output"})'
    BY <1>2, <2>6 DEF ClientInv, StatusFits, Wrote
  <2> QED BY <1>2, <2>2, <2>7, <2>8, <2>9 DEF ClientInv
<1> QED BY <1>3, <1>4

LEMMA ReceiveKeeps ==
  ASSUME HttpTypes, Texts, Tables, NEW p \in Processes, NEW d \in Clients, Receive(p, d),
         NEW c \in Clients, ClientInv(c)
  PROVE  ClientInv(c)'
<1>1. /\ UNCHANGED <<text, meant, reply, file, touched, mode, acceptor, open, stdio, parser>>
      /\ mode[p] = "serves" /\ op[p][d] = "reading" /\ d \in open[p]
  BY DEF Receive, Serves, Tables, peers, environment
<1>2. PICK w, m, s :
        /\ op' = [op EXCEPT ![p][d] = w]
        /\ read' = [read EXCEPT ![d] = m]
        /\ piece' = [piece EXCEPT ![p][d] = s]
        /\ \/ w = "failed"
           \/ /\ w = "read" /\ m \in Cuts \cup {Len(text[d])}
              /\ read[d] < m /\ m <= Len(text[d]) /\ s = SubSeq(text[d], read[d] + 1, m)
  <2>1. CASE UNCHANGED <<read, piece>> /\ op' = [op EXCEPT ![p][d] = "failed"]
    <3>1. read' = [read EXCEPT ![d] = read[d]] /\ piece' = [piece EXCEPT ![p][d] = piece[p][d]]
      BY <2>1 DEF HttpTypes
    <3> QED BY <2>1, <3>1
  <2>2. CASE \E n \in Cuts \cup {Len(text[d])} :
               /\ read[d] < n /\ n <= Len(text[d])
               /\ piece' = [piece EXCEPT ![p][d] = SubSeq(text[d], read[d] + 1, n)]
               /\ read' = [read EXCEPT ![d] = n]
               /\ op' = [op EXCEPT ![p][d] = "read"]
    BY <2>2
  <2> QED BY <2>1, <2>2 DEF Receive
<1>3. CASE c # d
  <2>1. ASSUME NEW q \in Processes, Holds(q, c)'
        PROVE  Holds(q, c) /\ op'[q][c] = op[q][c] /\ piece'[q][c] = piece[q][c]
    BY <1>1, <1>2, <1>3, <2>1 DEF Holds, HttpTypes
  <2>2. read'[c] = read[c]
    BY <1>2, <1>3 DEF HttpTypes
  <2> QED BY <1>1, <2>1, <2>2, QuietKeeps DEF Quiet
<1>4. CASE c = d
  <2>1. Holds(p, c) /\ Holder(p, c)
    BY <1>1, <1>4 DEF Holds, ClientInv
  <2>2. /\ acceptor[p] # c /\ reply[c] = <<>> /\ parser[p][c] = Parse(Start, SoFar(c))
        /\ ~ Wrote(c, {"output", "log"})
        /\ \A q \in Processes : stdio[q] # c /\ (Holds(q, c) => q = p)
    BY <1>1, <1>4, <2>1 DEF Holder, Tables
  <2>3. op'[p][c] = w /\ piece'[p][c] = s /\ read'[c] = m
    BY <1>2, <1>4 DEF HttpTypes
  <2>4. w = "read" => Parse(parser'[p][c], s) = Parse(Start, SoFar(c)')
    <3> SUFFICES ASSUME w = "read" PROVE Parse(parser'[p][c], s) = Parse(Start, SoFar(c)')
      OBVIOUS
    <3>1. /\ m \in Cuts \cup {Len(text[c])} /\ read[c] < m /\ m <= Len(text[c])
          /\ s = SubSeq(text[c], read[c] + 1, m)
      BY <1>2, <1>4
    <3>2. text[c] \in Seq(Char) /\ read[c] \in Nat
      BY DEF HttpTypes
    <3>3. m \in Nat
      BY <3>1, <3>2, LenProperties, TextsAssumption
    <3>4. /\ SubSeq(text[c], 1, read[c]) \in Seq(Char) /\ s \in Seq(Char)
          /\ SubSeq(text[c], 1, m) = SubSeq(text[c], 1, read[c]) \o s
      BY <3>1, <3>2, <3>3, PieceIs, read[c] <= m
    <3>5. SoFar(c) \in Seq(Char) /\ SoFar(c)' = SoFar(c) \o s
      BY <1>1, <2>3, <3>4 DEF SoFar
    <3>6. Parse(Start, SoFar(c) \o s) = Parse(Parse(Start, SoFar(c)), s)
      BY <3>4, <3>5, StartIsParser, ParsePieces
    <3> QED BY <1>1, <2>2, <3>5, <3>6
  <2>5. ~ Wrote(c, {"output", "log"})'
    BY <1>1, <2>2 DEF Wrote
  <2>6. \A q \in Processes : Holds(q, c)' => Holds(q, c)
    BY <1>1 DEF Holds
  <2>7. w \in {"read", "failed"}
    BY <1>2
  <2>8. Holder(p, c)'
    BY <1>1, <2>2, <2>3, <2>4, <2>5, <2>6, <2>7 DEF Holder
  <2>9. StatusFits(c)' /\ ~ Wrote(c, {"output"})'
    BY <1>1, <2>5 DEF ClientInv, StatusFits, Wrote
  <2> QED BY <1>1, <2>2, <2>6, <2>8, <2>9 DEF ClientInv
<1> QED BY <1>3, <1>4

\* What a server has decided is what the client meant.
LEMMA MeantIs ==
  ASSUME HttpTypes, Texts, Waiting, NEW c \in Clients, \E p \in Processes : c \in open[p],
         NEW q, q = Parse(Start, SoFar(c)), q.state \in Verdicts
  PROVE  meant[c].verdict = q.state /\ meant[c].path = FilePath(q.uri)
<1>1. peer[c] # "away"
  BY DEF Waiting, Untouched
<1>2. meant[c] = Says(text[c])
  BY <1>1 DEF Texts
<1>3. text[c] \in Seq(Char) /\ read[c] \in Nat /\ read[c] <= Len(text[c])
  BY DEF Texts, HttpTypes
<1>4. Says(text[c]) = [verdict |-> q.state, path |-> FilePath(q.uri)]
  BY <1>3, Decided DEF SoFar
<1> QED BY <1>2, <1>4

LEMMA ParseMoreKeeps ==
  ASSUME HttpTypes, NEW p \in Processes, mode[p] = "serves", NEW d \in Clients, op[p][d] = "read",
         NEW q, q = Parsed(p, d), ParseMore(p, d, q),
         NEW c \in Clients, ClientInv(c)
  PROVE  ClientInv(c)'
<1>1. PICK w : (d \in open[p] => w = "reading") /\ op' = [op EXCEPT ![p][d] = w]
  BY DEF ParseMore
<1>2. /\ parser' = [parser EXCEPT ![p][d] = q]
      /\ piece' = [piece EXCEPT ![p][d] = <<>>]
      /\ UNCHANGED <<text, meant, read, reply, file, touched, mode, acceptor, open, stdio>>
  BY DEF ParseMore, peers, environment
<1>3. CASE c # d \/ c \notin open[p]
  BY <1>1, <1>2, <1>3, QuietElsewhere, QuietKeeps
<1>4. CASE c = d /\ c \in open[p]
  <2>1. Holds(p, c) /\ Holder(p, c)
    BY <1>4 DEF Holds, ClientInv
  <2>2. /\ reply[c] = <<>> /\ Parse(parser[p][c], piece[p][c]) = Parse(Start, SoFar(c))
        /\ ~ Wrote(c, {"output", "log"}) /\ (acceptor[p] = c => read[c] = 0)
        /\ \A r \in Processes : stdio[r] # c /\ (Holds(r, c) => r = p)
    BY <1>4, <2>1 DEF Holder
  <2>3. op'[p][c] = "reading" /\ parser'[p][c] = q
    BY <1>1, <1>2, <1>4 DEF HttpTypes
  <2>4. parser'[p][c] = Parse(Start, SoFar(c)')
    BY <1>2, <1>4, <2>2, <2>3 DEF SoFar, Parsed
  <2>5. ~ Wrote(c, {"output", "log"})'
    BY <1>2, <2>2 DEF Wrote
  <2>6. \A r \in Processes : Holds(r, c)' => Holds(r, c)
    BY <1>2 DEF Holds
  <2>7. Holder(p, c)'
    BY <1>2, <2>2, <2>3, <2>4, <2>5, <2>6 DEF Holder
  <2>8. StatusFits(c)' /\ ~ Wrote(c, {"output"})'
    BY <1>2, <2>5 DEF ClientInv, StatusFits, Wrote
  <2> QED BY <1>2, <2>2, <2>6, <2>7, <2>8 DEF ClientInv
<1> QED BY <1>3, <1>4

\* The one step that writes a status line.
LEMMA HandleRequestKeeps ==
  ASSUME HttpTypes, Texts, Waiting, Tables,
         NEW p \in Processes, mode[p] = "serves", NEW d \in Clients, op[p][d] = "read",
         NEW q, q = Parsed(p, d), HandleRequest(p, d, q),
         NEW c \in Clients, ClientInv(c)
  PROVE  ClientInv(c)'
<1>1. /\ parser' = [parser EXCEPT ![p][d] = q]
      /\ piece' = [piece EXCEPT ![p][d] = <<>>]
      /\ UNCHANGED <<text, meant, read, file, touched, mode, acceptor, open, stdio>>
      /\ q.state \in Verdicts /\ (q.state = "good" => Stat(q.uri) # "error")
      /\ \/ /\ d \in open[p]
            /\ reply' = [Logged(p) EXCEPT ![d] = Append(@, StatusLine(q))]
            /\ op' = [op EXCEPT ![p][d] = "sent"]
         \/ reply' = Logged(p) /\ op' = [op EXCEPT ![p][d] = "sendfailed"]
  BY DEF HandleRequest, peers, environment
<1>2. CASE c # d \/ c \notin open[p]
  <2>1. reply'[c] = Logged(p)[c]
    BY <1>1, <1>2, Logs
  <2>2. \/ reply'[c] = reply[c]
        \/ /\ reply'[c] = Append(reply[c], "log")
           /\ \E k \in Processes : stdio[k] = c /\ mode[k] = "serves"
    BY <2>1, LoggedIs
  <2>3. PICK w : op' = [op EXCEPT ![p][d] = w]
    BY <1>1
  <2>4. Quiet(c)
    BY <1>1, <1>2, <2>2, <2>3, QuietElsewhere
  <2> QED BY <2>4, QuietKeeps
<1>3. CASE c = d /\ c \in open[p]
  <2>1. Holds(p, c) /\ Holder(p, c)
    BY <1>3 DEF Holds, ClientInv
  <2>2. /\ reply[c] = <<>> /\ Parse(parser[p][c], piece[p][c]) = Parse(Start, SoFar(c))
        /\ ~ Wrote(c, {"output", "log"}) /\ acceptor[p] # c
        /\ \A r \in Processes : stdio[r] # c /\ (Holds(r, c) => r = p)
    BY <1>3, <2>1 DEF Holder, Tables
  <2>3. q = Parse(Start, SoFar(c)) /\ SoFar(c)' = SoFar(c)
    BY <1>1, <1>3, <2>2 DEF Parsed, SoFar
  <2>4. meant[c].verdict = q.state /\ meant[c].path = FilePath(q.uri)
    BY <1>1, <1>3, <2>3, MeantIs
  <2>5. parser'[p][c] = q /\ Logged(p)[c] = <<>>
    BY <1>1, <1>3, <2>2, LoggedIs DEF HttpTypes
  <2>6. \A r \in Processes : stdio'[r] # c /\ (Holds(r, c)' => r = p)
    BY <1>1, <2>2 DEF Holds
  <2>7. CASE reply' = Logged(p) /\ op' = [op EXCEPT ![p][d] = "sendfailed"]
    <3>1. op'[p][c] = "sendfailed" /\ reply'[c] = reply[c]
      BY <1>3, <2>2, <2>5, <2>7 DEF HttpTypes
    <3>2. ~ Wrote(c, {"output", "log"})' /\ ~ Wrote(c, {"output"})'
      BY <2>2, <3>1 DEF Wrote
    <3>3. Holder(p, c)'
      BY <1>1, <2>2, <2>6, <3>1, <3>2 DEF Holder
    <3>4. StatusFits(c)'
      BY <1>1, <3>1 DEF ClientInv, StatusFits
    <3> QED BY <2>6, <3>2, <3>3, <3>4 DEF ClientInv
  <2>8. CASE /\ reply' = [Logged(p) EXCEPT ![d] = Append(@, StatusLine(q))]
             /\ op' = [op EXCEPT ![p][d] = "sent"]
    <3> PICK x : x = StatusLine(q)
      OBVIOUS
    <3>1. op'[p][c] = "sent" /\ reply'[c] = <<x>>
      <4>1. op'[p][c] = "sent" /\ reply'[c] = Append(<<>>, x)
        BY <1>3, <2>5, <2>8, Logs DEF HttpTypes
      <4> QED BY <4>1
    <3>2. x \in StatusLines /\ x \notin {"output", "log"}
      BY DEF StatusLine, StatusLines
    <3>3. ~ Wrote(c, {"output", "log"})' /\ ~ Wrote(c, {"output"})'
      <4>1. \A i \in DOMAIN reply'[c] : reply'[c][i] = x
        BY <3>1
      <4> QED BY <3>2, <4>1 DEF Wrote
    <3>4. StatusFits(c)'
      <4>1. \A i \in DOMAIN reply'[c] : i = 1 /\ reply'[c][i] = x
        BY <3>1
      <4>2. meant'[c] = meant[c] /\ q.state \in {"good", "bad"}
        BY <1>1 DEF Verdicts
      <4>3. IF q.state = "bad" THEN x = "400" ELSE x # "400"
        BY DEF StatusLine
      <4> QED BY <2>4, <4>1, <4>2, <4>3 DEF StatusFits
    <3>5. q.state = "good" =>
            x = "200" \/ (x = "404" /\ (meant[c].path # Path \/ file = "absent"))
      <4> SUFFICES ASSUME q.state = "good", ~ Regular(q.uri)
                   PROVE  meant[c].path # Path \/ file = "absent"
        BY DEF StatusLine
      <4> QED BY <1>1, <2>4 DEF Regular, Stat, HttpTypes, Files
    <3>6. Told(p, c)'
      <4>1. Len(reply'[c]) = 1 /\ reply'[c][1] = x
        BY <3>1
      <4> QED BY <1>1, <2>3, <2>5, <3>5, <4>1 DEF Told
    <3>7. Holder(p, c)'
      BY <1>1, <2>2, <2>6, <3>1, <3>3, <3>6 DEF Holder
    <3> QED BY <2>6, <3>3, <3>4, <3>7 DEF ClientInv
  <2> QED BY <1>1, <2>7, <2>8
<1> QED BY <1>2, <1>3

LEMMA ReadDoneKeeps ==
  ASSUME HttpTypes, Texts, Waiting, Tables, NEW p \in Processes, NEW d \in Clients, ReadDone(p, d),
         NEW c \in Clients, ClientInv(c)
  PROVE  ClientInv(c)'
<1>1. mode[p] = "serves" /\ op[p][d] = "read"
  BY DEF ReadDone, Serves
<1>2. PICK q : q = Parsed(p, d) /\ (ParseMore(p, d, q) \/ HandleThrows(p, d, q) \/ HandleRequest(p, d, q))
  BY DEF ReadDone
<1>3. CASE ParseMore(p, d, q)
  BY <1>1, <1>2, <1>3, ParseMoreKeeps
<1>4. CASE HandleThrows(p, d, q)
  <2>1. End(p, "dead") /\ (reply' = reply \/ reply' = Logged(p))
    BY <1>4 DEF HandleThrows
  <2> QED BY <1>1, <2>1, QuietEnd, QuietKeeps
<1>5. CASE HandleRequest(p, d, q)
  BY <1>1, <1>2, <1>5, HandleRequestKeeps
<1> QED BY <1>2, <1>3, <1>4, <1>5

\* The first test of the file was right, or the file has changed: the child of fork has
\* a client that was told 200, or one whose file is touched.
LEMMA ForkKeeps ==
  ASSUME HttpTypes, Texts, Waiting, NEW p \in Processes, NEW d \in Clients, Fork(p, d),
         NEW c \in Clients, ClientInv(c)
  PROVE  ClientInv(c)'
<1>1. /\ mode[p] = "serves" /\ op[p][d] = "sent" /\ d \in open[p]
      /\ parser[p][d].state = "good" /\ Regular(parser[p][d].uri) /\ reply' = Logged(p)
      /\ UNCHANGED <<text, meant, read, file, touched>>
  BY ForkIs
<1>2. CASE Stop(p, d) /\ UNCHANGED <<mode, acceptor, stdio, piece>>
  BY <1>1, <1>2, QuietStop, QuietKeeps
<1>3. ASSUME NEW k \in Processes \ {p},
             mode[k] = "unborn", mode' = [mode EXCEPT ![k] = "forked"],
             acceptor' = [acceptor EXCEPT ![k] = acceptor[p]],
             stdio' = [stdio EXCEPT ![k] = d],
             open' = [open EXCEPT ![k] = open[p], ![p] = @ \ {d}],
             op' = [op EXCEPT ![k] = op[p], ![p][d] = "none"],
             piece' = [piece EXCEPT ![k] = piece[p]],
             parser' = [parser EXCEPT ![k] = parser[p], ![p][d] = Start]
      PROVE  ClientInv(c)'
  <2>1. CASE c # d
    BY <1>3, <2>1, QuietFork, QuietKeeps
  <2>2. CASE c = d
    <3>1. Holds(p, c) /\ Holder(p, c)
      BY <1>1, <2>2 DEF Holds, ClientInv
    <3>2. /\ Told(p, c) /\ ~ Wrote(c, {"output", "log"})
          /\ \A r \in Processes : stdio[r] # c /\ (Holds(r, c) => r = p)
      BY <1>1, <2>2, <3>1 DEF Holder
    <3>3. reply'[c] = reply[c]
      BY <1>1, <3>2, LoggedIs
    <3>4. /\ ~ Wrote(c, {"output", "log"})' /\ ~ Wrote(c, {"output"})' /\ ~ Wrote(c, {"log"})'
          /\ StatusFits(c)'
      BY <1>1, <3>2, <3>3 DEF Wrote, ClientInv, StatusFits
    <3>5. \A r \in Processes : ~ Holds(r, c)'
      <4>1. ASSUME NEW r \in Processes, Holds(r, c)' PROVE FALSE
        <5>1. r # k /\ r # p
          BY <1>1, <1>3, <2>2, <4>1 DEF Holds, HttpTypes
        <5>2. Holds(r, c)
          BY <1>3, <4>1, <5>1 DEF Holds, HttpTypes
        <5> QED BY <3>2, <5>1, <5>2
      <4> QED BY <4>1
    <3>6. \A r \in Processes : stdio'[r] = c => r = k
      BY <1>3, <3>2 DEF HttpTypes
    <3>7. reply[c] # <<>>
      BY <3>2, EmptySeq DEF Told
    <3>8. reply[c][1] = "200" \/ c \in touched
      <4> PICK q : q = parser[p][c]
        OBVIOUS
      <4>1. meant[c].path = FilePath(q.uri)
        BY <1>1, <2>2, <3>2, MeantIs DEF Told
      <4>2. FilePath(q.uri) = Path /\ file # "absent" /\ Path \notin TooLong
        BY <1>1, <2>2 DEF Regular, Stat
      <4> QED BY <1>1, <2>2, <3>2, <4>1, <4>2 DEF Told
    <3>9. mode'[k] = "forked"
      BY <1>3 DEF HttpTypes
    <3>10. Child(k, c)'
      BY <1>1, <3>3, <3>4, <3>6, <3>7, <3>8, <3>9 DEF Child
    <3> QED BY <3>4, <3>5, <3>6, <3>10 DEF ClientInv
  <2> QED BY <2>1, <2>2
<1> QED BY <1>2, <1>3, ForkIs

LEMMA ProgramWritesKeeps ==
  ASSUME HttpTypes, Tables, NEW k \in Processes, ProgramWrites(k), NEW c \in Clients, ClientInv(c)
  PROVE  ClientInv(c)'
<1>1. /\ mode[k] = "program" /\ stdio[k] \in Clients
      /\ reply' = [reply EXCEPT ![stdio[k]] = Append(@, "output")]
      /\ UNCHANGED <<text, meant, read, file, touched, mode, acceptor, open, stdio, op, piece, parser>>
  BY DEF ProgramWrites, Tables, HttpTypes, peers, environment, tables
<1>2. CASE stdio[k] # c
  <2>1. reply'[c] = reply[c]
    BY <1>1, <1>2 DEF HttpTypes
  <2> QED BY <1>1, <2>1, QuietKeeps DEF Quiet, Holds
<1>3. CASE stdio[k] = c
  <2>0. "output" \in Lines \ StatusLines
    BY DEF Lines, StatusLines
  <2>1. reply'[c] = Append(reply[c], "output")
    BY <1>1, <1>3 DEF HttpTypes
  <2>2. Child(k, c)
    BY <1>3 DEF ClientInv
  <2>3. /\ reply[c] # <<>> /\ ~ Wrote(c, {"log"})
        /\ reply[c][1] = "200" \/ c \in touched
        /\ \A q \in Processes : stdio[q] = c => q = k
    BY <1>1, <2>2 DEF Child
  <2>4. \A p \in Processes : ~ Holds(p, c)'
    BY <1>1, <1>3 DEF ClientInv, Holder, Holds
  <2>5. /\ reply'[c] # <<>> /\ ~ Wrote(c, {"log"})'
        /\ reply'[c][1] = "200" \/ c \in touched'
    BY <1>1, <2>0, <2>1, <2>3, WroteMore
  <2>6. StatusFits(c)'
    BY <1>1, <2>0, <2>1, StatusKept DEF ClientInv
  <2>7. ASSUME NEW q \in Processes, stdio'[q] = c PROVE Child(q, c)'
    <3>1. q = k /\ mode'[q] = "program" /\ \A r \in Processes : stdio'[r] = c => r = q
      BY <1>1, <2>3, <2>7
    <3> QED BY <2>5, <3>1 DEF Child
  <2> QED BY <2>4, <2>5, <2>6, <2>7 DEF ClientInv
<1> QED BY <1>2, <1>3

LEMMA ClientsNext ==
  ASSUME HttpTypes, Texts, Waiting, Tables, RootTables, [HttpNext]_hvars,
         NEW c \in Clients, ClientInv(c), ~ Doubled(c)'
  PROVE  ClientInv(c)'
<1>1. ASSUME NEW d \in Clients, Leave(d) PROVE ClientInv(c)'
  BY <1>1, QuietKeeps DEF Leave, environment, tables, Quiet, Holds
<1>2. ASSUME ChangeFile PROVE ClientInv(c)'
  <2>1. /\ UNCHANGED <<text, meant, read, reply, mode, acceptor, open, stdio, op, piece, parser>>
        /\ touched' = touched \cup {d \in Clients : reply[d] # <<>> /\ meant[d].path = Path}
    BY <1>2 DEF ChangeFile, peers, tables
  <2> QED BY <2>1, QuietKeeps DEF Quiet, Holds
<1>3. ASSUME UNCHANGED hvars PROVE ClientInv(c)'
  BY <1>3, QuietKeeps DEF hvars, Quiet, Holds
<1>4. ASSUME NEW p \in Processes, NEW d \in Clients, ReadFailed(p, d) \/ SendDone(p, d)
      PROVE  ClientInv(c)'
  <2>1. /\ mode[p] = "serves" /\ Stop(p, d)
        /\ UNCHANGED <<text, meant, read, reply, file, touched, mode, acceptor, stdio, piece>>
    BY <1>4 DEF ReadFailed, SendDone, Serves, peers, environment
  <2> QED BY <2>1, QuietStop, QuietKeeps
<1>5. ASSUME NEW p \in Processes, NEW d \in Clients, SendThrows(p, d) PROVE ClientInv(c)'
  <2>1. mode[p] = "serves" /\ End(p, "dead") /\ (reply' = reply \/ reply' = Logged(p))
    BY <1>5 DEF SendThrows, Serves
  <2> QED BY <2>1, QuietEnd, QuietKeeps
<1>6. ASSUME NEW k \in Processes, Exec(k) PROVE ClientInv(c)'
  BY <1>6, QuietExec, QuietKeeps
<1>7. ASSUME NEW k \in Processes, ProgramEnds(k) PROVE ClientInv(c)'
  BY <1>7, QuietEnd, QuietKeeps DEF ProgramEnds
<1> QED BY <1>1, <1>2, <1>3, <1>4, <1>5, <1>6, <1>7, ConnectKeeps, AcceptKeeps, AcceptedKeeps,
           ReceiveKeeps, ReadDoneKeeps, ForkKeeps, ProgramWritesKeeps
        DEF HttpNext, Handler
--------------------------------------------------------------------------------
(***************************************************************************)
(* The end of the first server.                                            *)
(***************************************************************************)
\* Who has meant something keeps to it, and does not come back from a reset.
LEMMA MeantStays ==
  ASSUME HttpTypes, Texts, [HttpNext]_hvars, NEW c \in Clients
  PROVE  /\ meant[c].verdict = "good" => meant'[c] = meant[c]
         /\ peer[c] = "reset" => peer'[c] = "reset"
<1>1. CASE UNCHANGED <<peer, meant>>
  BY <1>1
<1>2. ASSUME NEW d \in Clients, Connect(d)
      PROVE  /\ meant[c].verdict = "good" => meant'[c] = meant[c]
             /\ peer[c] = "reset" => peer'[c] = "reset"
  <2>1. /\ peer[d] = "away" /\ peer' = [peer EXCEPT ![d] = "there"]
        /\ \E m : meant' = [meant EXCEPT ![d] = m]
    BY <1>2 DEF Connect
  <2>2. CASE c # d
    BY <2>1, <2>2 DEF Texts, HttpTypes
  <2>3. CASE c = d
    <3>1. meant[c] = [verdict |-> "indeterminate", path |-> <<>>]
      BY <2>1, <2>3 DEF Texts
    <3> QED BY <2>1, <2>3, <3>1
  <2> QED BY <2>2, <2>3
<1>3. ASSUME NEW d \in Clients, Leave(d)
      PROVE  meant' = meant /\ (peer[c] = "reset" => peer'[c] = "reset")
  BY <1>3 DEF Leave, HttpTypes
<1>4. \A p \in Processes, d \in Clients : Receive(p, d) => UNCHANGED <<peer, meant>>
  BY DEF Receive, peers
<1>5. ChangeFile \/ UNCHANGED hvars => UNCHANGED <<peer, meant>>
  BY DEF ChangeFile, peers, hvars
<1> QED BY <1>1, <1>2, <1>3, <1>4, <1>5, UnreadSteps DEF HttpNext, Unread

\* The steps that end it.
LEMMA RootDies ==
  ASSUME HttpTypes, RootTables, [HttpNext]_hvars, mode[Root] # "dead", mode'[Root] = "dead"
  PROVE  \E c \in Clients : \/ SendThrows(Root, c)
                            \/ /\ op[Root][c] = "read"
                               /\ HandleThrows(Root, c, Parsed(Root, c))
<1> USE ProcessesAssumption
<1>1. mode[Root] = "serves" /\ mode' # mode
  BY DEF RootTables
<1>2. ASSUME NEW p \in Processes, NEW how, End(p, how) PROVE p = Root
  BY <1>1, <1>2 DEF End, HttpTypes
<1>3. \A c \in Clients : ~ Connect(c) /\ ~ Leave(c)
  BY <1>1 DEF Connect, Leave
<1>4. ~ ChangeFile /\ ~ UNCHANGED hvars
  BY <1>1 DEF ChangeFile, hvars
<1>5. \A p \in Processes : ~ Accept(p) /\ ~ Accepted(p) /\ ~ ProgramWrites(p)
  BY <1>1 DEF Accept, Accepted, ProgramWrites
<1>6. \A p \in Processes, c \in Clients : ~ Receive(p, c) /\ ~ ReadFailed(p, c) /\ ~ SendDone(p, c)
  BY <1>1 DEF Receive, ReadFailed, SendDone
<1>7. ASSUME NEW p \in Processes, NEW c \in Clients, Fork(p, c) PROVE FALSE
  <2>1. mode' = mode \/ \E k \in Processes : mode[k] = "unborn" /\ mode' = [mode EXCEPT ![k] = "forked"]
    BY <1>7, ForkIs
  <2> QED BY <1>1, <2>1 DEF HttpTypes
<1>8. ASSUME NEW k \in Processes, Exec(k) PROVE FALSE
  <2>1. mode' = [mode EXCEPT ![k] = IF file = "program" THEN "program" ELSE "serves"]
    BY <1>8, ExecIs
  <2> QED BY <1>1, <2>1 DEF HttpTypes
<1>9. ASSUME NEW k \in Processes, ProgramEnds(k) PROVE FALSE
  <2>1. k = Root
    BY <1>2, <1>9 DEF ProgramEnds
  <2> QED BY <1>1, <1>9, <2>1 DEF ProgramEnds
<1>10. ASSUME NEW p \in Processes, NEW c \in Clients, ReadDone(p, c)
       PROVE  p = Root /\ op[p][c] = "read" /\ HandleThrows(p, c, Parsed(p, c))
  <2>1. PICK q : q = Parsed(p, c) /\ (ParseMore(p, c, q) \/ HandleThrows(p, c, q) \/ HandleRequest(p, c, q))
    BY <1>10 DEF ReadDone
  <2>2. ~ ParseMore(p, c, q) /\ ~ HandleRequest(p, c, q)
    BY <1>1 DEF ParseMore, HandleRequest
  <2>3. HandleThrows(p, c, Parsed(p, c))
    BY <2>1, <2>2
  <2>4. End(p, "dead")
    BY <2>3 DEF HandleThrows
  <2> QED BY <1>2, <1>10, <2>3, <2>4 DEF ReadDone
<1>11. \A p \in Processes, c \in Clients : SendThrows(p, c) => p = Root
  BY <1>2 DEF SendThrows
<1> QED BY <1>3, <1>4, <1>5, <1>6, <1>7, <1>8, <1>9, <1>10, <1>11 DEF HttpNext, Handler

LEMMA RootSurvivesNext ==
  ASSUME HttpInv, [HttpNext]_hvars
  PROVE  RootSurvives'
<1> USE ProcessesAssumption
<1>0. HttpTypes /\ Texts /\ Waiting /\ Tables /\ RootTables /\ RootSurvives
  BY DEF HttpInv
<1> SUFFICES ASSUME mode'[Root] = "dead"
             PROVE  \E c \in Clients :
                      \/ Doubled(c)'
                      \/ /\ meant'[c].verdict = "good"
                         /\ \/ meant'[c].path \in TooLong
                            \/ peer'[c] = "reset" /\ Wrote(c, {"200", "404"})'
  BY DEF RootSurvives
<1>1. CASE mode[Root] = "dead"
  <2>1. PICK c \in Clients :
          \/ Doubled(c)
          \/ /\ meant[c].verdict = "good"
             /\ \/ meant[c].path \in TooLong
                \/ peer[c] = "reset" /\ Wrote(c, {"200", "404"})
    BY <1>0, <1>1 DEF RootSurvives
  <2>2. Doubled(c) => Doubled(c)'
    BY <1>0, DoubledStays
  <2>3. Wrote(c, {"200", "404"}) => Wrote(c, {"200", "404"})'
    BY <1>0, RepliesGrow
  <2> QED BY <1>0, <2>1, <2>2, <2>3, MeantStays
<1>2. CASE mode[Root] # "dead"
  <2>1. PICK c \in Clients : \/ SendThrows(Root, c)
                             \/ /\ op[Root][c] = "read"
                                /\ HandleThrows(Root, c, Parsed(Root, c))
    BY <1>0, <1>2, RootDies
  <2>2. /\ mode[Root] = "serves" /\ stdio[Root] = NoClient
        /\ op[Root][c] \in {"read", "sent"} /\ c \in open[Root]
    BY <1>0, <1>2, <2>1 DEF RootTables, SendThrows, Again
  <2>3. CASE Doubled(c)
    BY <1>0, <2>3, DoubledStays
  <2>4. CASE ~ Doubled(c)
    <3>1. Holder(Root, c)
      BY <2>2, <2>4 DEF HttpInv, ClientInv, Holds
    <3>2. PICK q : /\ q = Parse(Start, SoFar(c)) /\ q.state = "good"
                   /\ \/ Stat(q.uri) = "error"
                      \/ peer[c] = "reset" /\ Wrote(c, {"200", "404"})
      <4>1. CASE SendThrows(Root, c)
        <5>1. /\ op[Root][c] = "sent" /\ parser[Root][c].state = "good"
              /\ Stat(parser[Root][c].uri) = "error" \/ peer[c] = "reset"
          BY <2>2, <4>1 DEF SendThrows, Again, LogKills
        <5>2. Told(Root, c)
          BY <3>1, <5>1 DEF Holder
        <5>3. Wrote(c, {"200", "404"})
          <6>1. 1 \in DOMAIN reply[c]
            BY <1>0, <5>2, LenProperties DEF Told, HttpTypes
          <6> QED BY <5>1, <5>2, <6>1 DEF Told, Wrote
        <5> QED BY <5>1, <5>2, <5>3 DEF Told
      <4>2. CASE op[Root][c] = "read" /\ HandleThrows(Root, c, Parsed(Root, c))
        <5>1. Parsed(Root, c) = Parse(Start, SoFar(c))
          BY <3>1, <4>2 DEF Holder, Parsed
        <5>2. Parsed(Root, c).state = "good" /\ Stat(Parsed(Root, c).uri) = "error"
          BY <2>2, <4>2 DEF HandleThrows, LogKills
        <5> QED BY <5>1, <5>2
      <4> QED BY <2>1, <4>1, <4>2
    <3>3. meant[c].verdict = "good" /\ meant[c].path = FilePath(q.uri)
      BY <1>0, <2>2, <3>2, MeantIs DEF Verdicts
    <3>4. Stat(q.uri) = "error" => meant[c].path \in TooLong
      BY <1>0, <3>3 DEF Stat, HttpTypes, Files
    <3>5. Wrote(c, {"200", "404"}) => Wrote(c, {"200", "404"})'
      BY <1>0, RepliesGrow
    <3> QED BY <1>0, <3>2, <3>3, <3>4, <3>5, MeantStays
  <2> QED BY <2>3, <2>4
<1> QED BY <1>1, <1>2
--------------------------------------------------------------------------------
(***************************************************************************)
(* The invariant, and what follows from it.                                *)
(***************************************************************************)
LEMMA InvInit == HttpInit => HttpInv
<1> SUFFICES ASSUME HttpInit PROVE HttpInv
  OBVIOUS
<1>1. HttpTypes
  BY TypesInit
<1>2. Texts
  <2>1. \A c \in Clients : read[c] = 0 /\ text[c] = <<>> /\ Len(<<>>) = 0
    BY EmptySeq DEF HttpInit
  <2> QED BY <2>1 DEF HttpInit, Texts
<1>3. /\ \A c \in Clients : reply[c] = <<>>
      /\ \A p \in Processes : /\ stdio[p] = NoClient /\ acceptor[p] = NoClient /\ open[p] = {}
                              /\ mode[p] = IF p = Root THEN "serves" ELSE "unborn"
                              /\ \A c \in Clients : op[p][c] = "none" /\ parser[p][c] = Start
      /\ \A c \in Clients : read[c] = 0
  BY DEF HttpInit, NoOps, Starts
<1>4. Waiting /\ Tables /\ RootTables
  <2>1. ASSUME NEW c \in Clients PROVE Untouched(c)
    <3>1. ASSUME NEW p \in Processes
          PROVE  c \notin open[p] /\ stdio[p] # c /\ acceptor[p] # c
      BY <1>3, ClientsAssumption
    <3>2. \A p \in Processes : op[p][c] = "none" /\ parser[p][c] = Start
      BY <1>3
    <3> QED BY <1>3, <3>1, <3>2 DEF Untouched
  <2>2. \A p \in Processes : mode[p] \notin {"forked", "program"}
    BY <1>3
  <2>3. Tables
    BY <1>3, <2>2, ClientsAssumption DEF Tables
  <2>4. RootTables
    BY <1>3, ProcessesAssumption DEF RootTables
  <2>5. Waiting
    BY <2>1 DEF HttpInit, Waiting
  <2> QED BY <2>3, <2>4, <2>5
<1>5. RootSurvives
  BY <1>3, ProcessesAssumption DEF RootSurvives
<1>6. ASSUME NEW c \in Clients PROVE ClientInv(c)
  <2>1. DOMAIN reply[c] = {}
    BY <1>3, EmptySeq, LenProperties
  <2> QED BY <1>3, <2>1, ClientsAssumption DEF ClientInv, Holds, StatusFits, Wrote
<1> QED BY <1>1, <1>2, <1>4, <1>5, <1>6 DEF HttpInv

LEMMA InvNext ==
  ASSUME HttpInv, [HttpNext]_hvars
  PROVE  HttpInv'
<1>0. HttpTypes /\ Texts /\ Waiting /\ Tables /\ RootTables
  BY DEF HttpInv
<1>1. HttpTypes' /\ Texts' /\ Waiting' /\ Tables' /\ RootTables' /\ RootSurvives'
  BY <1>0, TypesNext, TextsNext, WaitingNext, TablesNext, RootTablesNext, RootSurvivesNext
<1>2. ASSUME NEW c \in Clients, ~ Doubled(c)' PROVE ClientInv(c)'
  <2>1. ~ Doubled(c)
    BY <1>0, <1>2, DoubledStays
  <2>2. ClientInv(c)
    BY <2>1 DEF HttpInv
  <2> QED BY <1>0, <1>2, <2>2, ClientsNext
<1> QED BY <1>1, <1>2 DEF HttpInv

LEMMA Invariant == HttpSpec => []HttpInv
<1>1. HttpInv /\ [HttpNext]_hvars => HttpInv'
  BY InvNext
<1> QED BY InvInit, <1>1, PTL DEF HttpSpec

\* What the tables of the server, of its children and of its clients hold.
THEOREM HttpTypesHold == HttpSpec => []HttpTypes
<1>1. HttpInv => HttpTypes
  BY DEF HttpInv
<1> QED BY Invariant, <1>1, PTL

\* request_parser::consume, state by state, decides a text as the grammar does, whatever
\* the samples are.
THEOREM ParserIsRight == HttpSpec => []ParserDecides
<1>1. ParserDecides
  BY ParserIsCorrect, SamplesAssumption DEF ParserDecides, Agreement
<1> QED BY <1>1, PTL

\* do_read, Parse and Handle_request answer once, and as the whole text demands, however
\* the kernel cuts it and whatever the children of fork become.
THEOREM StatusIsRight == HttpSpec => []OneStatusLine
<1>1. HttpInv => OneStatusLine
  BY DEF HttpInv, ClientInv, StatusFits, OneStatusLine
<1> QED BY Invariant, <1>1, PTL

\* The second call of is_regular_file, the fork and the failure of execlp: a program talks
\* to clients that were told 200, or whose file has changed, and never beside a log.
THEOREM OutputIsRight == HttpSpec => []OutputFits
<1>1. HttpInv => OutputFits
  BY DEF HttpInv, ClientInv, OutputFits
<1> QED BY Invariant, <1>1, PTL

\* Whatever the children do, the first server ends only by the exceptions of a good
\* request, or in a connection that another server reads from, too.
THEOREM RootIsSafe == HttpSpec => []RootSurvives
<1>1. HttpInv => RootSurvives
  BY DEF HttpInv
<1> QED BY Invariant, <1>1, PTL
================================================================================
