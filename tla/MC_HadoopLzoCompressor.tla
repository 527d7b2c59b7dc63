----------------------- MODULE MC_HadoopLzoCompressor ------------------------
(***************************************************************************)
(* The compressor and the stream that LzoCodec makes for each other, with  *)
(* one size for the buffers of both, and compressors with a smaller buffer *)
(* than the stream's.                                                      *)
(***************************************************************************)
EXTENDS HadoopRoundTrip

=============================================================================
