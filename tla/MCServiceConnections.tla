------------------------- MODULE MCServiceConnections -------------------------
(* A client that reads, and one that does not. *)
EXTENDS ServiceConnectionsProps

CONSTANTS a, b

Ask(kinds) == <<"request">> \o kinds \o <<"request">>

MCScriptsOf ==
  [c \in {a, b} |->
     IF c = a THEN {Ask(<<"silent">>), Ask(<<"garbled">>)}
     ELSE {Ask(<<"request", "request">>), <<"request", "fatal">>}]

\* With a limit of two bytes: empty lines, lines up to the limit and one above.
MCSpellings ==
  [kind \in Kind |->
     CASE kind = "silent" -> {<<>>, <<"return">>}
       [] kind = "garbled" -> {<<"letter", "stray">>}
       [] kind = "fatal" -> {<<"letter">>}
       [] kind = "request" ->
            {<<"letter", "letter">>, <<"letter", "return">>,
             <<"letter", "letter", "return">>, <<"letter", "letter", "letter", "stray">>}]
=============================================================================
