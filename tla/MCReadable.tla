------------------------------ MODULE MCReadable ------------------------------
(* Model-checking instances of ReadableStream.                             *)
EXTENDS ReadableStream

AllSizes == {1, -1, -2}
UnitSizes == {1}
==============================================================================
