---------------------------- MODULE MCRemoteView ----------------------------
(* Model-checking instance of RemoteView on its own: a resource that begins *)
(* with an empty line.                                                      *)
EXTENDS RemoteView

TextsWithEmptyFirstLine == {<<Newline, Other>>}
=============================================================================
