------------------------- MODULE MCGracefulShutdown -------------------------
(* Two requests and a background task while the server is told to stop.     *)
EXTENDS GracefulShutdown
CONSTANTS h1, h2, b1
OneTask == {h1}
MCTasks == {h1, h2, b1}
MCHandlers == Tasks \cap {h1, h2}
=============================================================================
