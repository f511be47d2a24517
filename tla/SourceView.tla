----------------------------- MODULE SourceView -----------------------------
(***************************************************************************)
(* source_view_lines, source_view_location and print_lines                 *)
(* (src/source_view.c): which lines of a source file are shown around a    *)
(* location, from a file that may have changed, may be gone, or may be far *)
(* longer than the limit of what is read.  A file is its length and the    *)
(* positions of its newlines; a byte is its position, from one.            *)
(***************************************************************************)
EXTENDS Integers, Sequences, FiniteSets

CONSTANTS Files,       \* the files there may be: [length, newlines]
          ReadLimit,   \* SOURCE_READ_LIMIT
          LineLimit,   \* SOURCE_LINE_LIMIT
          MaxUnsigned, \* UINT32_MAX
          FileCount,   \* info->file_count
          LineNumbers  \* those of locations and of the commands; 0 is no number

NoLocation == [file |-> 0, line |-> 0]
Locations == {NoLocation} \cup [file : 1 .. FileCount, line : LineNumbers \ {0}]
\* source [LINE] [FILE_INDEX], the index 0 for none; where.
Requests == [command : {"source"}, line : LineNumbers, index : 0 .. FileCount + 1]
            \cup [command : {"where"}, line : {0}, index : {0}]

ASSUME SourceViewAssumption ==
  /\ {ReadLimit, LineLimit} \subseteq Nat \ {0} /\ LineLimit > 1 /\ FileCount \in Nat
  /\ MaxUnsigned \in Nat /\ MaxUnsigned > ReadLimit + 4
  /\ LineNumbers \subseteq 0 .. MaxUnsigned
  /\ \A f \in Files : f.length \in Nat /\ f.newlines \subseteq 1 .. f.length

VARIABLES request, location,  \* the command, and what debug_info_lookup finds
          file,    \* the contents of the file that is opened, or Missing
          window,  \* first and last
          bytes, line, text, \* of the loop; text is [from, used, truncated]
          viewing,
          shown,   \* the lines printed
          message  \* what was said

viewVars == <<request, location, file, window, bytes, line, text, viewing, shown, message>>

\* Saturated at both ends of the numbers.
FirstShown(center) == IF center > 4 THEN center - 4 ELSE 1
LastShown(center) == IF center > MaxUnsigned - 4 THEN MaxUnsigned ELSE center + 4

\* The file: the one asked for, or that of the location.
Chosen == IF request.index = 0 THEN location.file ELSE request.index
\* The line in the middle: the one asked for, or the current one if it is in the file.
Center == IF request.line # 0 THEN request.line
          ELSE IF location.file = Chosen THEN location.line ELSE 1

\* The file is not there.
Missing == [length |-> -1, newlines |-> {}]
NoText == [from |-> 1, used |-> 0, truncated |-> FALSE]

ViewInit ==
  /\ request \in Requests /\ location \in Locations
  /\ file \in Files \cup {Missing}
  /\ window = [first |-> 1, last |-> 1]
  /\ bytes = 0 /\ line = 1 /\ text = NoText /\ shown = << >> /\ message = {}
  /\ viewing = "call"

Say(words) == viewing' = "closed" /\ message' = {words}

\* source_view_lines and source_view_location up to print_lines
Choose ==
  /\ viewing = "call" /\ UNCHANGED <<request, location, file, bytes, line, text, shown>>
  /\ \/ /\ Chosen \notin 1 .. FileCount
        /\ Say(IF Chosen = 0 THEN "nowhere" ELSE "unknown") /\ UNCHANGED window
     \/ /\ Chosen \in 1 .. FileCount
        /\ window' = IF request.command = "where"
                       THEN [first |-> location.line, last |-> location.line]
                       ELSE [first |-> FirstShown(Center), last |-> LastShown(Center)]
        /\ viewing' = "open" /\ UNCHANGED message

OpenSource ==
  /\ viewing = "open"
  /\ IF file = Missing THEN Say("unavailable") ELSE viewing' = "line" /\ UNCHANGED message
  /\ UNCHANGED <<request, location, file, window, bytes, line, text, shown>>

Stop == viewing' = "closing"

NextLine ==
  /\ viewing = "line"
  /\ text' = [from |-> bytes + 1, used |-> 0, truncated |-> FALSE]
  /\ IF line <= window.last THEN viewing' = "text" ELSE Stop
  /\ UNCHANGED <<request, location, file, window, bytes, line, shown, message>>

AtNewline == bytes + 1 \in file.newlines
AtEnd == bytes = file.length

Room == text.used + 1 < LineLimit

ReadByte ==
  /\ viewing = "text" /\ bytes < ReadLimit /\ ~AtEnd /\ ~AtNewline
  /\ bytes' = bytes + 1
  /\ text' = IF Room THEN [text EXCEPT !.used = @ + 1] ELSE [text EXCEPT !.truncated = TRUE]
  /\ UNCHANGED <<request, location, file, window, line, viewing, shown, message>>

Limited ==
  /\ viewing = "text" /\ bytes = ReadLimit
  /\ Stop /\ message' = {"limited"}
  /\ UNCHANGED <<request, location, file, window, bytes, line, text, shown>>

\* fgetc says EOF on an error as well.
LineBroken == viewing = "text" /\ bytes < ReadLimit

Marked(n) == request.command = "source" /\ location.file = Chosen /\ location.line = n

Printed == IF line >= window.first
             THEN Append(shown, [line |-> line, from |-> text.from, used |-> text.used,
                                 truncated |-> text.truncated,
                                 marked |-> Marked(line)])
             ELSE shown

\* A line that ends with the file is not shown.
LineEndsDropped(newline) ==
  IF newline THEN viewing' = "line" /\ shown' = Printed ELSE Stop /\ UNCHANGED shown
\* Whether a newline or the end of the file ends the line.
LineEnds(newline) ==
  IF newline THEN viewing' = "line" /\ shown' = Printed
  ELSE /\ Stop
       /\ shown' = IF text.used = 0 /\ ~text.truncated THEN shown ELSE Printed

EndOfLine ==
  /\ LineBroken /\ ~AtEnd /\ AtNewline
  /\ LineEnds(TRUE)
  /\ bytes' = bytes + 1 /\ line' = line + 1
  /\ UNCHANGED <<request, location, file, window, text, message>>

EndOfFile ==
  /\ LineBroken /\ AtEnd
  /\ LineEnds(FALSE)
  /\ UNCHANGED <<request, location, file, window, bytes, line, text, message>>

ReadError ==
  /\ LineBroken
  /\ LineEnds(FALSE) /\ message' = {"error"}
  /\ UNCHANGED <<request, location, file, window, bytes, line, text>>

\* fclose
CloseSource ==
  /\ viewing = "closing" /\ viewing' = "closed"
  /\ message' = IF shown = << >> /\ "limited" \notin message THEN message \cup {"empty"} ELSE message
  /\ UNCHANGED <<request, location, file, window, bytes, line, text, shown>>

ViewDone == viewing = "closed" /\ UNCHANGED viewVars

ViewNext == Choose \/ OpenSource \/ NextLine \/ ReadByte \/ Limited \/ EndOfLine \/ EndOfFile
            \/ ReadError \/ CloseSource \/ ViewDone
ViewSpec == ViewInit /\ [][ViewNext]_viewVars
-----------------------------------------------------------------------------
CutShort == {"limited", "error"} \cap message # {}

\* Line n of the file: it begins at the start or behind a newline, with n - 1 newlines
\* before it, and ends before the next newline or with the file.
Starts(n, from) ==
  /\ from = 1 \/ from - 1 \in file.newlines
  /\ Cardinality({p \in file.newlines : p < from}) = n - 1
FileEnd(from) ==
  CHOOSE p \in {q - 1 : q \in file.newlines} \cup {file.length} :
    p >= from - 1 /\ \A q \in file.newlines : q >= from => p < q
HasLine(n) ==
  \E from \in 1 .. file.length : Starts(n, from)

\* Every line shown has its own number, text and mark: numbers stay in step with the
\* newlines through truncated lines, empty lines and a last line without a newline.
ShowsLinesOfFile ==
  \A k \in DOMAIN shown :
    LET s == shown[k]
        size == FileEnd(s.from) - s.from + 1
    IN /\ Starts(s.line, s.from)
       /\ "error" \notin message => /\ s.used = IF size < LineLimit THEN size ELSE LineLimit - 1
                                    /\ s.truncated <=> size >= LineLimit
       /\ s.marked <=> request.command = "source" /\ location = [file |-> Chosen, line |-> s.line]
       /\ s.line = window.first + k - 1

\* The line in the middle, asked for or current, is shown if the file has it, even at
\* the last line number there is, unless the limit or an error came first; and "line is
\* unavailable" is said of no window that has a line.
CenterShown ==
  viewing = "closed" /\ file # Missing /\ Chosen \in 1 .. FileCount =>
    /\ window.first <= Center /\ Center <= window.last
    /\ ~CutShort /\ HasLine(Center) => \E k \in DOMAIN shown : shown[k].line = Center
    /\ ~CutShort => ("empty" \in message <=> \A n \in window.first .. file.length + 1 :
                                            HasLine(n) => n > window.last)

\* No more is read than the limit nor stored than the buffer, and the limit is said to
\* be reached only by a file that long; the line number never wraps.
StaysInLimits ==
  /\ bytes <= ReadLimit /\ text.used < LineLimit
  /\ line <= ReadLimit + 1
  /\ "limited" \in message => file.length >= ReadLimit

\* The three together, of source and where.
ShowsSource == ShowsLinesOfFile /\ CenterShown /\ StaysInLimits
=============================================================================
