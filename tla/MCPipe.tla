-------------------------------- MODULE MCPipe --------------------------------
(* Model-checking instances of Pipe: a few ways to call pipeTo() that set  *)
(* each option both ways, with and without a signal.                       *)
EXTENDS Pipe

Option(preventClose, preventAbort, preventCancel, signal, throws) ==
  [preventClose |-> preventClose, preventAbort |-> preventAbort,
   preventCancel |-> preventCancel, signal |-> signal, throws |-> throws]

SomeOptions ==
  { Option(FALSE, FALSE, FALSE, "none", FALSE),
    Option(FALSE, TRUE, TRUE, "live", FALSE),
    Option(TRUE, TRUE, TRUE, "none", FALSE),
    Option(TRUE, FALSE, FALSE, "live", TRUE) }
==============================================================================
