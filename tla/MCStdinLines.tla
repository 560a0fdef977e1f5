---------------------------- MODULE MCStdinLines ----------------------------
(* StdinLines with handles of one or two characters, pieces of two, and a   *)
(* buffer that takes nine handles.                                          *)
EXTENDS StdinLines

Line(command, args) == <<"%", command>> \o args \o <<NL>>

\* All arguments of up to four characters, and those of n of two.
Short == UNION {[1 .. k -> {" ", "2", "x"}] : k \in 0 .. 4}
Args(n) == [1 .. n -> {" ", "x"}]

\* All short commands on lines of their own.
Single ==
  {Line(command, args) : command \in {"b", "m"}, args \in Short \cup Args(5)}
    \cup {Line("C", <<"2">> \o args) : args \in Short \cup Args(6)}
    \cup {Line("c", <<" ", "3">> \o args) : args \in Args(6)}
    \cup {Line("L", <<>>), <<NL>>, <<"x", NL>>, <<"%", NL>>, Line("x", <<>>)}

\* What isspace() takes for a blank.
Blank ==
  {Line(command, args) : command \in {"B", "M"},
     args \in [1 .. 4 -> {"tab", "vertical tab", "x"}]
                \cup [1 .. 4 -> {"form feed", "carriage return", "x"}]}

\* Numbers around every bound, with and without handles for them.
Number == {<<"0">>, <<"1">>, <<"4">>, <<"9">>, <<"1", "0">>, <<"0", "2">>,
           <<"+", "2">>, <<"-", "2">>, <<"+">>, <<"2", "x">>, <<"x", "2">>,
           <<"0", "0", "2">>}

Counted ==
  {Line("c", <<" ">> \o number \o FlattenSeq([i \in 1 .. n |-> <<" ", "x">>])) :
     number \in Number, n \in {1, 2, 3, 4, 5, 9, 10}}

\* Two lines, short, full, longer than the buffer, or without their end.
Long(n) == Line("b", [i \in 1 .. n |-> "x"])
First == {<<NL>>, Line("m", <<"x", "x", " ", "2", "2", "2">>),
          Long(LineMax - 2), Long(LineMax - 1)}
Second == {Line("l", <<>>), <<"%", "b">>}

MCInputs == Single \cup Blank \cup Counted \cup {a \o b : a \in First, b \in Second}
==============================================================================
