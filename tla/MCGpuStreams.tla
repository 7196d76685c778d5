---------------------------- MODULE MCGpuStreams ----------------------------
(* Instances of GpuStreams for TLC. *)
EXTENDS GpuStreams

\* A unified machine, then inits and teardowns only, then instructions of
\* the unrolled machine: every kind of transfer, in different places.
ThreeCircuits == <<{"decoder", "inits", "trace"}, {"inits"}, {"decoder", "trace"}>>
=============================================================================
