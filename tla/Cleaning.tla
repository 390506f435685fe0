------------------------------ MODULE Cleaning ------------------------------
(***************************************************************************)
(* clean_markdown: the lines of a parsed document without its furniture,   *)
(* that is, tables of contents, page numbers and running headers.  A line  *)
(* is known by its stripped text; what else it carries is passed through.  *)
(***************************************************************************)
EXTENDS Naturals, FiniteSets, Sequences, ListOps

CONSTANTS
    Stripped(_),        \* line.strip()
    LengthOf(_),        \* its length, 0 for a blank line
    HasDotLeader(_),    \* does _DOT_LEADER find four dots in it?
    IsDigits(_),        \* is it all digits?
    MinRepeats,         \* _MIN_REPEATS
    MaxBoilerplateLen,  \* _MAX_BOILERPLATE_LEN
    MaxPageNumberLen    \* digits of a page number

IsPageNumber(line) == IsDigits(line) /\ LengthOf(line) <= MaxPageNumberLen
IsBlank(line) == LengthOf(line) = 0

\* Slip: blank lines are counted too, and recur in every document.
BlanksCount(lines) == {i \in DOMAIN lines : LengthOf(lines[i]) <= MaxBoilerplateLen}

\* The lines that may be a running header: short, and not blank.
Counted(lines) ==
    {i \in DOMAIN lines : LengthOf(lines[i]) \in 1..MaxBoilerplateLen}

Repeated(lines) ==
    LET counted == Counted(lines)
        count(text) == Cardinality({i \in counted : Stripped(lines[i]) = text})
    IN {text \in {Stripped(lines[i]) : i \in counted} : count(text) >= MinRepeats}

\* The lines that are no furniture, blank ones among them.
Kept(lines) ==
    LET repeated == Repeated(lines)
        keep(line) == /\ ~HasDotLeader(line) /\ ~IsPageNumber(line)
                      /\ Stripped(line) \notin repeated
    IN Only(lines, {line \in {lines[i] : i \in DOMAIN lines} : keep(line)})

\* Slip: what is left is taken as it is.
CleanBlindly(lines) == Kept(lines)

\* A document that is all furniture is left alone.
CleanMarkdown(lines) ==
    LET kept == Kept(lines)
    IN IF \A i \in DOMAIN kept : IsBlank(kept[i]) THEN lines ELSE kept

=============================================================================
