----------------------------- MODULE MCSession -----------------------------
(* A session with the sinks of server.py's _build_sink, without log_to_stdout. *)
EXTENDS Session

MCSinks == <<"JSONLSink", "PipelineSink">>
=============================================================================
