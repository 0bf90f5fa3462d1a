---------------------------- MODULE MCNumberedPipes ----------------------------
(* NumberedPipes with the lines that a user types in the instances.        *)
EXTENDS NumberedPipes

CONSTANTS
  Producers,  \* numbers after | of programs that write more than a pipe holds
  Filters,    \* numbers after | of programs that read to the end and write
  Builtins

Cmd(options, k, reads, output) ==
  [options |-> options, k |-> k, isExclamationmark |-> FALSE, redirect |-> FALSE,
   reads |-> reads, output |-> output]

Typed ==
  {Cmd("EXEC", k, FALSE, Capacity + 1) : k \in Producers}
    \cup {Cmd("EXEC", k, TRUE, 1) : k \in Filters}
    \cup {[Cmd("EXEC", 1, FALSE, 1) EXCEPT !.redirect = TRUE]}
    \cup {Cmd(o, NoPipe, FALSE, 0) : o \in Builtins}

\* Lines of up to two commands; what is not the last has a number.
MCLines ==
  {<<>>} \cup {<<c>> : c \in Typed}
    \cup {<<c, d>> : c \in {t \in Typed : t.k # NoPipe}, d \in Typed}

PlainAndFour == {NoPipe, 1, 4}
================================================================================
