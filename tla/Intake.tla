------------------------------- MODULE Intake -------------------------------
(***************************************************************************)
(* What a file meets on its way in: the checks of upload_document and      *)
(* create_document before anything is stored, and parse_to_markdown when   *)
(* its bytes are processed later.                                          *)
(*                                                                         *)
(* A file has a name or none (named, ext), a declared size, which may be   *)
(* missing or wrong, a size, and `magic`, what libmagic makes of its bytes *)
(* (external).  MIME types go by their short names.                        *)
(***************************************************************************)
EXTENDS Naturals, Sequences

CONSTANTS
    NoSize,         \* file.size is None
    MaxUploadSize,  \* settings.max_upload_size_bytes
    IsBlankLine(_)  \* of a line of Markdown

ALLOWED_MIME_TYPES == {"pdf", "html", "docx", "plain", "markdown"}

\* The extension narrows plain text, and decides nothing else.
SniffMime(file) ==
    IF file.magic = "plain" /\ file.ext \in {"md", "markdown"} THEN "markdown"
    ELSE file.magic

TooLarge(size) == size # NoSize /\ size > MaxUploadSize

\* The response to POST /documents/upload, where storage and database answer.
Response(file) ==
    CASE ~file.named -> "400"
      [] file.named /\ (TooLarge(file.declared) \/ TooLarge(file.size)) -> "413"
      [] OTHER -> IF SniffMime(file) \in ALLOWED_MIME_TYPES THEN "202" ELSE "415"

-----------------------------------------------------------------------------
\* _PROSE_MIME_EXTENSIONS, and so the types with a parser.
ProseMimeExtensions ==
    [pdf |-> ".pdf", html |-> ".html", docx |-> ".docx", plain |-> ".txt",
     markdown |-> ".md"]

HasText(lines) == \E i \in DOMAIN lines : ~IsBlankLine(lines[i])

\* parse_to_markdown, where the converter makes `lines` of the bytes: there is
\* nothing to go on with for a type without a parser, nor without any text.
Parses(mime, lines) == mime \in DOMAIN ProseMimeExtensions /\ HasText(lines)

=============================================================================
