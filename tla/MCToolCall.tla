---------------------------- MODULE MCToolCall ----------------------------
(***************************************************************************)
(* A small instance of ToolCall.                                           *)
(***************************************************************************)
EXTENDS ToolCall

\* A tool that says nothing, one that answers, one that fills stderr first.
SomeScripts == {<<>>, <<"stdout">>, <<"stderr", "stderr", "stdout">>}
=============================================================================
