--------------------------- MODULE MCSourceMonitor ---------------------------
(* SourceMonitor with a page that is there, gone, throttled or unreachable. *)
EXTENDS SourceMonitor, TLC

Status(code) == [error |-> "none", status |-> code]

ThreeAnswers == {Status(200), Status(404), Status(429)}
=============================================================================
