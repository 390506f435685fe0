---------------------------- MODULE TextPipeline ----------------------------
(***************************************************************************)
(* The middle of process_document: the Markdown of a document, cleaned,    *)
(* chunked, and cut into embedding requests, for a document of which       *)
(* nothing is stored yet; and the checks its upload met before.            *)
(*                                                                         *)
(* The Markdown is a list of lines.  A line is of a kind (its stripped     *)
(* text) and starts `at` some character of the document, white space not   *)
(* counted; the kind gives the pieces between its sentence ends.           *)
(***************************************************************************)
EXTENDS Chunking, EmbedBatches

CONSTANTS
    Kinds,        \* kinds of lines that are not blank
    PiecesOf,     \* kind -> lengths of its pieces, in order
    SentenceEnds, \* kinds whose last piece ends a sentence
    TocKinds, DigitKinds, \* kinds with a dotted leader, kinds of digits only
    Blank,        \* the kind of a blank line
    MaxLines,     \* bound: lines of a document, the blank ones between not counted
    MinRepeats, MaxBoilerplateLen, MaxPageNumberLen,  \* of Cleaning
    Files, NoSize, MaxUploadSize,                     \* of Intake
    MaxBatchTexts, MaxBatchTokens, CharsPerToken      \* of EmbedBatches

\* Of a line that is not blank, something is left when it is stripped.
ASSUME LinesAndCaps ==
    /\ PiecesOf \in [Kinds -> Seq(Nat \ {0}) \ {<<>>}] /\ Blank \notin Kinds
    /\ TocKinds \subseteq Kinds /\ DigitKinds \subseteq Kinds
    /\ MinRepeats \in Nat /\ MaxBoilerplateLen \in Nat /\ MaxPageNumberLen \in Nat
    /\ MaxBatchTexts \in Nat \ {0} /\ MaxBatchTokens \in Nat /\ CharsPerToken \in Nat \ {0}

VARIABLES
    lines,   \* what parse_to_markdown returns
    chunks   \* what chunk_markdown makes of it, cleaned

Pieces(line) == IF line.kind = Blank THEN <<>> ELSE PiecesOf[line.kind]
Size(line) == Total(Pieces(line))
\* len(line.strip()): one character of white space between two pieces.
LengthOf(line) == IF line.kind = Blank THEN 0 ELSE Size(line) + Len(Pieces(line)) - 1

C == INSTANCE Cleaning
       WITH Stripped <- LAMBDA line : line.kind,
            HasDotLeader <- LAMBDA line : line.kind \in TocKinds,
            IsDigits <- LAMBDA line : line.kind \in DigitKinds
In == INSTANCE Intake WITH IsBlankLine <- C!IsBlank

\* A line as runs: sentences end inside it, and it ends with a line break, which
\* behind a full stop is a sentence's end too.
RunsOf(line) ==
    LET pieces == Pieces(line)
        start(i) == line.at + Total(SubSeq(pieces, 1, i - 1))
    IN [i \in DOMAIN pieces |->
          [at |-> start(i), len |-> pieces[i],
           sep |-> IF i < Len(pieces) \/ line.kind \in SentenceEnds
                   THEN "sentence" ELSE "line"]]

\* The lines as one text: a blank one makes a paragraph of what stands before it.
TextOf(someLines) ==
    LET add(before, line) ==
          IF line.kind # Blank THEN before \o RunsOf(line)
          ELSE IF before = <<>> THEN before
          ELSE [before EXCEPT ![Len(before)].sep = "paragraph"]
        text[n \in 0..Len(someLines)] ==
          IF n = 0 THEN <<>> ELSE add(text[n - 1], someLines[n])
    IN text[Len(someLines)]

\* clean_markdown, then chunk_markdown.
ChunksOf(someLines) == ChunkMarkdown(TextOf(C!CleanMarkdown(someLines)))

\* sync_document_chunks embeds all of them.
Tokens == [chunk \in ToSet(chunks) |-> EstimateTokens(JoinedLen(chunk), CharsPerToken)]
Caps == [texts |-> MaxBatchTexts, tokens |-> MaxBatchTokens]
Batches == IterBatches(chunks, Tokens, Caps)

\* The types of the files an upload accepts, and what becomes of one whose bytes
\* hold these lines.
Accepted == {In!SniffMime(file) : file \in {f \in Files : In!Response(f) = "202"}}
Status(mime) == IF In!Parses(mime, lines) THEN "ready" ELSE "failed"

-----------------------------------------------------------------------------
\* The documents: all of up to MaxLines lines, with a blank one before, between
\* or behind them or not.

Characters(someLines) == Total([i \in DOMAIN someLines |-> Size(someLines[i])])
Written == Len(SelectSeq(lines, LAMBDA line : line.kind # Blank))

Init == lines = <<>> /\ chunks = ChunksOf(<<>>)

AddLine(kind) ==
    /\ Written < MaxLines
    /\ lines' = Append(lines, [kind |-> kind, at |-> Characters(lines)])
    /\ chunks' = ChunksOf(lines')

\* More than one blank line is no different from one, to a regular expression.
AddBlank ==
    /\ lines # <<>> => Last(lines).kind # Blank
    /\ lines' = Append(lines, [kind |-> Blank, at |-> Characters(lines)])
    /\ chunks' = ChunksOf(lines')

Next == AddBlank \/ \E kind \in Kinds : AddLine(kind)
Spec == Init /\ [][Next]_<<lines, chunks>>

-----------------------------------------------------------------------------
(* Properties *)

CharsOfRun(run) == run.at..(run.at + run.len - 1)
CharsOf(text) == UNION {CharsOfRun(text[i]) : i \in DOMAIN text}
CharsIn(atoms) == UNION {CharsOf(atoms[i]) : i \in DOMAIN atoms}

Alike(i) == {j \in DOMAIN lines : lines[j].kind = lines[i].kind}
Furniture(i) ==
    \/ lines[i].kind \in TocKinds
    \/ lines[i].kind \in DigitKinds /\ LengthOf(lines[i]) <= MaxPageNumberLen
    \/ LengthOf(lines[i]) <= MaxBoilerplateLen /\ Cardinality(Alike(i)) >= MinRepeats
Prose == {i \in DOMAIN lines : lines[i].kind # Blank /\ ~Furniture(i)}
\* The characters worth finding: of the prose, or of everything if there is none.
Content ==
    LET worth == IF Prose = {} THEN DOMAIN lines ELSE Prose
    IN UNION {CharsOf(RunsOf(lines[i])) : i \in worth}

\* No chunk is longer than the chunk size (chunking_service.py:158), its seed
\* and the blank lines that join its atoms included.
WithinSize == \A i \in DOMAIN chunks : JoinedLen(chunks[i]) <= ChunkSize

\* Every character of the document that is not furniture is in a chunk, and no
\* other one is (cleaning_service.py:51-59), whatever boundaries the document
\* has or lacks; and each chunk starts behind the start and ends behind the end
\* of the one before: its position in the list is its position in the document.
\* For an overlap that is not negative, which config.py:153 does not see to.
NothingLost ==
    /\ Content = UNION {CharsIn(chunks[i]) : i \in DOMAIN chunks}
    /\ \A i \in 1..(Len(chunks) - 1) :
          /\ Min(CharsIn(chunks[i])) < Min(CharsIn(chunks[i + 1]))
          /\ Max(CharsIn(chunks[i])) < Max(CharsIn(chunks[i + 1]))

ParagraphsOf(someLines) ==
    {CharsOf(block) : block \in ToSet(Split(TextOf(someLines), "paragraph"))}

\* The paragraphs the chunker gets are those of the document, less the furniture
\* in them: a removed line neither joins two of them nor cuts one in two
\* (cleaning_service.py:55).
ParagraphsStay ==
    ParagraphsOf(C!CleanMarkdown(lines))
        = {block \cap Content : block \in ParagraphsOf(lines)} \ {{}}

\* Neighbours share no more characters than the overlap allows, whether by atoms
\* carried over or by windows, and a chunk no more than that with later ones.
\* For an overlap that is not negative.
OverlapBounded ==
    \A i, j \in DOMAIN chunks : i < j =>
        Cardinality(CharsIn(chunks[i]) \cap CharsIn(chunks[j])) <= Overlap

\* The blocks of the cleaned document at every level.
PiecesIn(texts, kind) == UNION {ToSet(Split(t, kind)) : t \in texts}
Blocks ==
    LET paragraphs == PiecesIn({TextOf(C!CleanMarkdown(lines))}, "paragraph")
        sentences == PiecesIn(paragraphs, "sentence")
    IN paragraphs \cup sentences \cup PiecesIn(sentences, "line")

\* A paragraph that fits a chunk is never cut, nor a sentence that fits, nor a
\* line of a sentence that does not (chunking_service.py:10-22).
FittingStaysWhole ==
    \A block \in Blocks : TextLen(block) <= ChunkSize =>
        \E i \in DOMAIN chunks : CharsOf(block) \subseteq CharsIn(chunks[i])

\* A document that becomes `ready` can be found, and one that cannot fails:
\* whatever an upload accepts has a parser (document_service.py:25-27), and if
\* the parser finds any text at all, cleaning and chunking leave at least one
\* chunk and one embedding request.
ReadyIsSearchable ==
    \A mime \in Accepted :
        /\ Status(mime) = "ready" <=> \E i \in DOMAIN lines : lines[i].kind # Blank
        /\ Status(mime) = "ready" => chunks # <<>> /\ Batches # <<>>

\* A request keeps both caps (embedding_service.py:60-63), though a single text
\* over the token cap would go out alone; every chunk is sent once, in order (a
\* vector is matched to its chunk by position); and no request could have taken
\* the next one's first text.
RequestsFillCaps ==
    /\ FlattenSeq(Batches) = chunks
    /\ \A i \in DOMAIN Batches :
          Len(Batches[i]) \in 1..MaxBatchTexts /\ TokensOf(Batches[i], Tokens) <= MaxBatchTokens
    /\ \A i \in 1..(Len(Batches) - 1) :
          \/ Len(Batches[i]) = MaxBatchTexts
          \/ TokensOf(Batches[i], Tokens) + Tokens[Batches[i + 1][1]] > MaxBatchTokens

=============================================================================
