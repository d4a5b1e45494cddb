---------------------------- MODULE MCDownloader ----------------------------
(* Instances of Downloader for TLC. *)
EXTENDS Downloader

(* A and B have one size, C another. *)
Sizes == [v \in {"A", "B", "C"} |-> IF v = "C" THEN 2 ELSE 1]

=============================================================================
