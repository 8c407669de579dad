---------------------------- MODULE StreamBasics -----------------------------
(***************************************************************************)
(* What the readable and the writable side of the web streams share        *)
(* (modules/raster_runtime_stream_web): promises, the answers of a queuing *)
(* strategy, and the Rust code's expect().                                 *)
(***************************************************************************)
EXTENDS Integers, Sequences, FiniteSets

(* Chunks are numbered from one.                                           *)
NoChunk == 0

(* What the strategy's size() may do besides returning a size.             *)
BadSize == -1
SizeThrows == -2

(* A promise is "pending", "ok" or "err", or "none": nobody has been given *)
(* it yet.  resolve and reject act on a pending promise only: a            *)
(* ResolveablePromise made settled holds no functions, and the engine      *)
(* ignores a second settlement.                                            *)
Settle(p, outcome) == IF p = "pending" THEN outcome ELSE p

Elements(q) == {q[i] : i \in DOMAIN q}

(* An expect() or panic! of the Rust code was reached.                     *)
Panicked(s) == [s EXCEPT !.panic = TRUE]
==============================================================================
