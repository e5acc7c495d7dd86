------------------------- MODULE MCProjectWorkflow -------------------------
\* A project whose workflow has a status between the first and the last.
EXTENDS ProjectWorkflow

ThreeKeys == <<"todo", "review", "done">>
ThreeLinks == << <<"todo", "review">>, <<"review", "done">>, <<"done", "todo">> >>
=============================================================================
