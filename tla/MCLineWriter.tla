---------------------------- MODULE MCLineWriter ----------------------------
(* Values of the constants for model checking the written lines. *)
EXTENDS LineWriter

\* The characters that have a meaning in a line, and one that has none.
Chars == {"l", "/", ":"}
Answers == {MakeBooleanValue(TRUE), MakeBooleanValue(FALSE), MakeIntegerValue(-10), NoValue}
EventPaths == {<<"/", "l", "/", "s">>, <<"/", "b", "/", "s">>}
EventPayloads == {<< >>, <<"true">>, <<":">>}

\* The Nodes of a status line.
Ids == {"l", "b"}
StatusValues == {MakeBooleanValue(TRUE), NoValue}

\* As in the examples, and on one line.
DeviceConfigs == {<<"\n", "{", "}", "\n">>, <<"{", "}">>, <<"\n", "{", "l", "}", "\n">>}

=============================================================================
