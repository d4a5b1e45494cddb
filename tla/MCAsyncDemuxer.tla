--------------------------- MODULE MCAsyncDemuxer ---------------------------
(* Two interleaved streams; a seek to the last packet finds no video. *)
EXTENDS AsyncDemuxer
MCStreams == <<"video", "audio">>
MCFile == <<"video", "audio", "audio">>
MCPositions == {1, 3}
=============================================================================
