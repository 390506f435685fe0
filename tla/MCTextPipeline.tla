--------------------------- MODULE MCTextPipeline ---------------------------
(***************************************************************************)
(* TextPipeline on every document of a few lines: page numbers, dotted     *)
(* leaders, a running header, a short word, a sentence of two pieces and a *)
(* line too long for a chunk, with blank lines anywhere.                   *)
(***************************************************************************)
EXTENDS TextPipeline

LinePieces ==
    [page |-> <<1>>, code |-> <<4>>, toc |-> <<6, 1>>,
     word |-> <<1>>, head |-> <<5>>, prose |-> <<5, 1>>, long |-> <<13>>]

\* Files of every type and extension, named or not, with a declared size that is
\* missing, true or wrong.
UploadedFiles ==
    [named : BOOLEAN, ext : {"pdf", "md", "other"},
     declared : {NoSize, 1, MaxUploadSize, MaxUploadSize + 1},
     size : {1, MaxUploadSize, MaxUploadSize + 1},
     magic : {"pdf", "html", "docx", "plain", "csv", "xlsx", "png", "empty"}]

=============================================================================
