------------------------------ MODULE MCWritable ------------------------------
(* Model-checking instances of WritableStream.                             *)
EXTENDS WritableStream

AllSizes == {1, BadSize, SizeThrows}
UnitSizes == {1}
==============================================================================
