------------------------------- MODULE MCPipe -------------------------------
EXTENDS Pipe

\* Writes of one byte and of as many as the pipe holds.
TwoStrings == {<<"a">>, <<"b", "a">>}

=============================================================================
