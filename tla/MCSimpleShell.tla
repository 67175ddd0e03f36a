--------------------------- MODULE MCSimpleShell ---------------------------
(* SimpleShell with a small set of lines.                                  *)
EXTENDS SimpleShell

\* One line for each path through the code.  The pipelines have a stage whose
\* output goes to a file, one between two pipes, and an empty one.
MCLines == {
    <<>>, <<"&">>,
    <<"prog">>, <<"prog", "&">>,
    <<"cd", "dir", "&">>, <<"exit", "1">>, <<"exit">>,
    <<"submit", "prog">>, <<"sched">>,
    <<"flood", ">", "file", "|", "prog">>, <<"prog", "|", "prog", "|">>,
    <<"prog", "|", "prog", "&">> }

\* Pipelines of which each program's output fits into a pipe, and one that does not.
FloodLines == {<<"flood", "|", "prog">>, <<"prog", "|", "prog">>}
=============================================================================
