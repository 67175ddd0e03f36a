----------------------------- MODULE MCDamShell -----------------------------
(* DamShell with a small set of lines, outputs and scripts.                *)
EXTENDS DamShell

\* One line for each path through the code.
MCLines == {
    <<"prog", "\n">>, <<"exit", "\n">>, <<"./x.sh">>,
    <<"prog", " ", "|", "cat", "\n">>, <<"history", "|", "cat", "\n">>,
    <<"prog", "|", "cat", "&", " ", "&", "prog", "\n">>,
    <<"prog", "|", " ", "|", "cat", "\n">> }

\* A leftover line, one that is a pipeline, and one that names a script.
MCOutputs == { <<<<"prog", "\n">>>>, <<<<"prog", "|", "cat", "\n">>, <<"\n">>>>, <<<<"./x.sh">>>> }

\* A script with a line that is cut by the end of a block, one with lines of
\* several lengths and an unended one, and one without a command.
MCScripts == {
    <<"prog", "\n", "prog", "|", "cat", "\n">>, <<"prog", "\n", "\n", "\n", "prog">>, <<"\n">> }
=============================================================================
