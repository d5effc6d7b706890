------------------------------ MODULE MCPipeline ------------------------------
(* The functions a caller may pass: nothing pushed, two queries of which none,
   the last or the first fails, and a COPY, which pipelines do not support. *)
EXTENDS Pipeline

MCScripts == {<<>>, <<"ok", "ok">>, <<"ok", "fail">>, <<"fail", "ok">>, <<"copy">>}
=============================================================================
