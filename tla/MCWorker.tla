------------------------------ MODULE MCWorker ------------------------------
(***************************************************************************)
(* Three dispatches under a parallelism of two: one of each backend, with  *)
(* a timeout on the Gemini node alone, or all over the Gemini API.         *)
(***************************************************************************)
EXTENDS Worker

CONSTANTS w1, w2, w3

ThreeWorkers  == {w1, w2, w3}
OneOfEach     == [w \in ThreeWorkers |-> CASE w = w1 -> "gemini" [] w = w2 -> "claude" [] w = w3 -> "tool"]
GeminiOnly    == [w \in ThreeWorkers |-> "gemini"]
OneTimed      == {w1}
OneContracted == {w1}

=============================================================================
