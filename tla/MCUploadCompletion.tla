--------------------------- MODULE MCUploadCompletion ---------------------------
(* Instances of UploadCompletion, with its streams, for TLC. *)
EXTENDS StreamedCompletion, TLC

Pixel == <<0>>

(* A file, the same bytes declared under another MIME type, a longer one   *)
(* that begins with them, one too large, and a declaration whose size is   *)
(* not that of its content.                                                *)
Files ==
  { [type |-> "png", size |-> 1, content |-> Pixel],
    [type |-> "pdf", size |-> 1, content |-> Pixel],
    [type |-> "png", size |-> 2, content |-> Pixel \o <<1>>],
    [type |-> "png", size |-> 3, content |-> Pixel \o <<1, 1>>],
    [type |-> "png", size |-> 1, content |-> Pixel \o <<1>>] }

FilesWithinLimit == {f \in Files : f.size <= MaxUploadBytes}

Digests == {f.content : f \in Files}

FileDigests == [f \in Files |-> f.content]
=============================================================================
