------------------------------ MODULE Chunking ------------------------------
(***************************************************************************)
(* chunk_markdown: text broken into atoms at the strongest boundary that   *)
(* makes them fit, atoms packed greedily into chunks, each chunk seeded    *)
(* with the tail of the one before.                                        *)
(*                                                                         *)
(* A text is a sequence of runs.  A run is characters with no boundary     *)
(* inside; `at` is where it starts in the document, counting characters of *)
(* runs only, and `sep` is the boundary behind it, as the regular          *)
(* expressions find it.  What the characters are makes no difference.      *)
(***************************************************************************)
EXTENDS Integers, Sequences, SequencesExt, FiniteSetsExt, ListOps

CONSTANTS
    ChunkSize, \* settings.chunk_size
    Overlap    \* settings.chunk_overlap

\* config.py refuses an overlap that is not smaller, and chunk_markdown again.
ASSUME Parameters == Overlap \in Nat /\ ChunkSize \in Nat /\ Overlap < ChunkSize

\* Slip: the finest boundary is tried first.
FinestFirst == <<"line", "sentence", "paragraph">>

\* _BOUNDARIES, strongest first; a paragraph break is a blank line, the others
\* are one character of white space.
Boundaries == <<"paragraph", "sentence", "line">>
SepLen(sep) == IF sep = "paragraph" THEN 2 ELSE 1

\* len(text.strip()): the boundary behind the last run does not count.
TextLen(text) ==
    Total([i \in DOMAIN text |-> text[i].len + SepLen(text[i].sep)])
        - (IF text = <<>> THEN 0 ELSE SepLen(Last(text).sep))

\* The pieces between the boundaries of one kind, none of them empty.
Split(text, kind) ==
    LET add(acc, run) ==
          IF run.sep = kind
          THEN [pieces |-> Append(acc.pieces, Append(acc.open, run)), open |-> <<>>]
          ELSE [acc EXCEPT !.open = Append(@, run)]
        acc[n \in 0..Len(text)] ==
          IF n = 0 THEN [pieces |-> <<>>, open |-> <<>>] ELSE add(acc[n - 1], text[n])
        end == acc[Len(text)]
    IN IF end.open = <<>> THEN end.pieces ELSE Append(end.pieces, end.open)

\* Slip: the last window is one only if it is full.
FullWindows(run) ==
    LET step == ChunkSize - Overlap
        windows == {k \in 0..run.len : k * step + ChunkSize <= run.len}
    IN [k \in 1..Cardinality(windows) |->
          <<[at |-> run.at + (k - 1) * step, len |-> ChunkSize, sep |-> run.sep]>>]

\* _char_windows on a run longer than a chunk: one more window as long as the
\* last one does not reach the end.
CharWindows(run) ==
    LET step == ChunkSize - Overlap
        windows == {k \in 0..run.len : k = 0 \/ (k - 1) * step + ChunkSize < run.len}
        length(start) == IF start + ChunkSize < run.len THEN ChunkSize ELSE run.len - start
    IN [k \in 1..Cardinality(windows) |->
          LET start == (k - 1) * step IN
          <<[at |-> run.at + start, len |-> length(start), sep |-> run.sep]>>]

\* One level of _atomize: a text too long for a chunk is divided.
Divide(texts, kind) ==
    FlattenSeq([i \in DOMAIN texts |->
                  IF TextLen(texts[i]) <= ChunkSize THEN <<texts[i]>> ELSE Split(texts[i], kind)])

\* _atomize, level by level.  A boundary that does not divide a text leaves it to
\* the next, and what none divides is cut.
Atomize(text) ==
    LET whole == IF text = <<>> THEN <<>> ELSE <<text>>
        level[n \in 0..Len(Boundaries)] ==
          IF n = 0 THEN whole ELSE Divide(level[n - 1], Boundaries[n])
        texts == level[Len(Boundaries)]
    IN FlattenSeq([i \in DOMAIN texts |->
                     IF TextLen(texts[i]) <= ChunkSize THEN <<texts[i]>>
                     ELSE CharWindows(Head(texts[i]))])

\* Atoms are joined by a blank line.
JoinedLen(atoms) ==
    IF atoms = <<>> THEN 0
    ELSE Total([i \in DOMAIN atoms |-> TextLen(atoms[i])]) + 2 * (Len(atoms) - 1)

\* Slip: room for a blank line is given away.
LooseTail(atoms) ==
    LET starts == {i \in 1..(Len(atoms) + 1) :
                     JoinedLen(SubSeq(atoms, i, Len(atoms))) <= Overlap + 2}
    IN SubSeq(atoms, Min(starts), Len(atoms))

\* The longest suffix that fits the overlap.
OverlapTail(atoms) ==
    LET starts == {i \in 1..(Len(atoms) + 1) :
                     JoinedLen(SubSeq(atoms, i, Len(atoms))) <= Overlap}
    IN SubSeq(atoms, Min(starts), Len(atoms))

\* Slip: the joining blank line is left out.
FitsTight(current, atom) == JoinedLen(current) + TextLen(atom) <= ChunkSize

Fits(current, atom) == JoinedLen(current) + 2 + TextLen(atom) <= ChunkSize

\* One turn of the packing loop.  A tail that would not leave room for the atom
\* is dropped.
AddAtom(acc, atom) ==
    IF acc.current = <<>> \/ Fits(acc.current, atom)
    THEN [acc EXCEPT !.current = Append(@, atom)]
    ELSE LET tail == OverlapTail(acc.current)
             seed == IF tail # <<>> /\ ~Fits(tail, atom) THEN <<>> ELSE tail
         IN [chunks |-> Append(acc.chunks, acc.current), current |-> Append(seed, atom)]

ChunkMarkdown(text) ==
    LET atoms == Atomize(text)
        acc[n \in 0..Len(atoms)] ==
          IF n = 0 THEN [chunks |-> <<>>, current |-> <<>>] ELSE AddAtom(acc[n - 1], atoms[n])
        end == acc[Len(atoms)]
    IN IF end.current = <<>> THEN end.chunks ELSE Append(end.chunks, end.current)

=============================================================================
