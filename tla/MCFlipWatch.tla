---------------------------- MODULE MCFlipWatch ----------------------------
(* One blue-green service, one request, the watch loop.                    *)
EXTENDS FlipWatch
=============================================================================
