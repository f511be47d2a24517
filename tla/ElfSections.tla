----------------------------- MODULE ElfSections -----------------------------
(***************************************************************************)
(* validate_sections, attributes and uleb (src/program_elf.c): the section *)
(* table and the nested records of the RISC-V attributes.  What the bytes  *)
(* say is left open; modelled are the pointers of the parser and the tests *)
(* that keep every read inside the section.  read is the last range of     *)
(* bytes that was examined.                                                *)
(***************************************************************************)
EXTENDS ProgramFile

CONSTANTS Numbers,   \* what a 32-bit field of the file may say
          Count      \* how many sections the table has

ASSUME SectionsAssumption == FileSize \in Nat /\ Numbers \subseteq Nat /\ Count \in Nat

VARIABLES left,      \* sections not yet validated
          section,   \* where the attribute section lies, [start, length]
          offset,    \* the record of a vendor, in the section
          end,       \* its end
          p,         \* the cursor
          subend,    \* the end of the subsection
          read,      \* history: the range examined last
          place, verdict

sectionVars == <<left, section, offset, end, p, subend, read, place, verdict>>

Size == section.length
NoRead == [first |-> 0, length |-> 0]

SectionsInit ==
  /\ left = Count /\ section = [start |-> 0, length |-> 0]
  /\ offset = 0 /\ end = 0 /\ p = 0 /\ subend = 0 /\ read = NoRead
  /\ place = "section" /\ verdict = "running"

Return(r) == place' = "done" /\ verdict' = r
Reads(first, length) == read' = [first |-> first, length |-> length]
\* What uleb may examine before limit: at most five bytes.
Group(from, limit) == {n \in 0 .. 5 : from + n <= limit}

EndOfSections ==
  /\ place = "section" /\ left = 0 /\ Return("ok")
  /\ UNCHANGED <<left, section, offset, end, p, subend, read>>

\* A section that is not the attributes: refused for thread-local storage or a range
\* beyond the file, which does not bind one that has no bytes in the file.
OtherSection ==
  /\ place = "section" /\ left > 0 /\ left' = left - 1
  /\ \/ UNCHANGED <<place, verdict>>
     \/ Return("section")
  /\ UNCHANGED <<section, offset, end, p, subend, read>>

\* 'A' is the version of the format.
AttributeSection(start, length) ==
  /\ place = "section" /\ left > 0 /\ InRange(start, length, FileSize)
  /\ left' = left - 1 /\ section' = [start |-> start, length |-> length]
  /\ IF length < 1 THEN Return("invalid") /\ read' = NoRead /\ UNCHANGED offset
     ELSE /\ Reads(0, 1)
          /\ \/ Return("invalid") /\ UNCHANGED offset
             \/ place' = "vendor" /\ offset' = 1 /\ UNCHANGED verdict
  /\ UNCHANGED <<end, p, subend>>

EndOfAttributes ==
  /\ place = "vendor" /\ offset >= Size
  /\ place' = "section" /\ UNCHANGED <<left, section, offset, end, p, subend, read, verdict>>

Shortest == 5

VendorLength(length) ==
  /\ place = "vendor" /\ offset < Size
  /\ IF InRange(offset, 4, Size) THEN Reads(offset, 4) ELSE UNCHANGED read
  /\ IF InRange(offset, 4, Size) /\ length >= Shortest /\ InRange(offset, length, Size)
       THEN end' = offset + length /\ place' = "name" /\ UNCHANGED verdict
       ELSE Return("malformed") /\ UNCHANGED end
  /\ UNCHANGED <<left, section, offset, p, subend>>

\* memchr looks for the end of the name; another vendor is skipped.
VendorName ==
  LET vendor == offset + 4
  IN /\ place = "name" /\ Reads(vendor, end - vendor)
     /\ \/ Return("malformed") /\ UNCHANGED p
        \/ place' = "next vendor" /\ UNCHANGED <<p, verdict>>
        \/ \E nul \in vendor .. end - 1 :
             p' = nul + 1 /\ place' = "subsection" /\ UNCHANGED verdict
     /\ UNCHANGED <<left, section, offset, end, subend>>

RecordDone == place = "next vendor" \/ (place = "subsection" /\ p >= end)
NextVendor ==
  /\ RecordDone
  /\ offset' = end /\ place' = "vendor"
  /\ UNCHANGED <<left, section, end, p, subend, read, verdict>>

ScopeFails ==
  /\ place = "subsection" /\ p < end
  /\ \E n \in Group(p, end) : Reads(p, n)
  /\ Return("malformed") /\ UNCHANGED <<left, section, offset, end, p, subend>>

\* Only the lower bound of the size is tested.
SubendFitsLoose(start, cursor, subsize) == subsize >= cursor - start
SubendFits(start, cursor, subsize) == subsize >= cursor - start /\ subsize <= end - start

\* The scope, a uleb of n bytes, and the size of the subsection behind it.
Scope(n, subsize) ==
  LET cursor == p + n + 4
  IN /\ place = "subsection" /\ p < end /\ n \in Group(p, end) \ {0}
     /\ IF end - (p + n) < 4
          THEN Reads(p, n) /\ Return("malformed") /\ UNCHANGED <<p, subend>>
          ELSE /\ Reads(p, n + 4) /\ p' = cursor
               /\ \/ /\ SubendFits(p, cursor, subsize)
                     /\ subend' = p + subsize
                     /\ place' = "tag" /\ UNCHANGED verdict
                  \/ Return("malformed") /\ UNCHANGED subend  \* or another scope
     /\ UNCHANGED <<left, section, offset, end>>

EndOfTags ==
  /\ place = "tag" /\ p >= subend
  /\ place' = "subsection" /\ UNCHANGED <<left, section, offset, end, p, subend, read, verdict>>

TagFails ==
  /\ place = "tag" /\ p < subend
  /\ \E n \in Group(p, subend) : Reads(p, n)
  /\ Return("malformed") /\ UNCHANGED <<left, section, offset, end, p, subend>>

\* A tag; an odd one has a text, an even one a number.
Tag ==
  /\ place = "tag" /\ p < subend
  /\ \E n \in Group(p, subend) \ {0} : Reads(p, n) /\ p' = p + n
  /\ place' \in {"text", "number"}
  /\ UNCHANGED <<left, section, offset, end, subend, verdict>>

\* Refused without a NUL, or for an architecture beyond RV32I.
TextValue ==
  /\ place = "text" /\ Reads(p, subend - p)
  /\ \/ Return("refused") /\ UNCHANGED p
     \/ \E nul \in p .. subend - 1 : p' = nul + 1 /\ place' = "tag" /\ UNCHANGED verdict
  /\ UNCHANGED <<left, section, offset, end, subend>>

\* Refused if malformed, or for a stack alignment or unaligned accesses.
NumberValue ==
  /\ place = "number"
  /\ \E n \in Group(p, subend) :
       /\ Reads(p, n)
       /\ \/ Return("refused") /\ UNCHANGED p
          \/ n > 0 /\ p' = p + n /\ place' = "tag" /\ UNCHANGED verdict
  /\ UNCHANGED <<left, section, offset, end, subend>>

SectionsDone == place = "done" /\ UNCHANGED sectionVars

Parse == \/ EndOfSections \/ OtherSection \/ EndOfAttributes \/ VendorName \/ NextVendor \/ ScopeFails
         \/ EndOfTags \/ TagFails \/ Tag \/ TextValue \/ NumberValue
         \/ \E a, b \in Numbers : AttributeSection(a, b)
         \/ \E a \in Numbers : VendorLength(a)
         \/ \E a \in Numbers, n \in 1 .. 5 : Scope(n, a)
SectionsNext == Parse \/ SectionsDone
SectionsSpec == SectionsInit /\ [][SectionsNext]_sectionVars
-----------------------------------------------------------------------------
\* Every byte that the parser examines lies in the section and the section in the
\* file, although the lengths it follows are nested four deep and each is an
\* unchecked number of the file (attributes, uleb, memchr).
ReadsInSection ==
  /\ InRange(section.start, section.length, FileSize)
  /\ read.first >= 0 /\ read.length >= 0 /\ InRange(read.first, read.length, Size)

\* The nested records stay nested: the cursor is in its subsection, that in the
\* record of the vendor, and that in the section.
Nested ==
  /\ place \in {"tag", "text", "number"} =>
       offset < p /\ p <= subend /\ subend <= end /\ end <= Size
  /\ place = "subsection" => offset < p /\ p <= end /\ end <= Size

\* Both together: no length of the file leads the parser out of what encloses it.
ParserStaysInside == ReadsInSection /\ Nested

\* Parsing ends whatever the file says: every record and every subsection moves the
\* cursor on.
SectionsReturn == <>(place = "done")
=============================================================================
