------------------------------ MODULE Processing ------------------------------
(***************************************************************************)
(* How a fetched document becomes chunks (app/ingestion/processors): its   *)
(* text is cleaned, cut at its headings or definitions, and what is still  *)
(* too long is cut at paragraphs or, at last, anywhere.  A chunk carries   *)
(* the offsets of its text in the clean content, which citations show.     *)
(*                                                                         *)
(* Text is a sequence of characters of six kinds:                          *)
(*   x  a printable character          n  a newline                        *)
(*   s  white space within a line      t  a whole HTML tag                 *)
(*   c  a control character            h  what begins a heading, or the    *)
(*                                        definition of a function         *)
(* It is the text after html.unescape, which can give any text.  Offsets   *)
(* count from 0, as in the code.                                           *)
(***************************************************************************)
EXTENDS Naturals, Sequences, FiniteSets, SequencesExt

CONSTANTS
    Plain,       \* kinds of characters of which long texts are made
    MaxLength,   \* bound on the texts made of these
    MaxMarked,   \* bound on the texts made of all kinds
    MaxChars     \* _MAX_CHUNK_CHARS

ASSUME ProcessingConstants == MaxChars \in Nat \ {0}

VARIABLES
    raw,      \* what the connector has normalized
    kind,     \* classify_content_type
    content,  \* the cleaned text, or Untouched
    chunks    \* what process_document returns: sequence of [from, text]

processingVars == <<raw, kind, content, chunks>>

Characters == {"x", "n", "s", "t", "c", "h"}
ContentTypes == {"code", "chat", "incident", "document"}
Untouched == <<>>

\* A set of places of a sequence, and its elements there, in their order.
InOrder(s, places) == SelectSeq([k \in DOMAIN s |-> k], LAMBDA k : k \in places)
Pick(s, places) ==
    LET order == InOrder(s, places) IN [k \in DOMAIN order |-> s[order[k]]]

Blank(s) == \A k \in DOMAIN s : s[k] \in {"n", "s"}

\* text[from:to]
Slice(s, from, to) == SubSeq(s, from + 1, to)

-----------------------------------------------------------------------------
(* clean_content.                                                          *)

Untagged(s)   == [k \in DOMAIN s |-> IF s[k] = "t" THEN "s" ELSE s[k]]
Controlled(s) == Pick(s, {k \in DOMAIN s : s[k] # "c"})

\* Three newlines or more become two.
Collapsed(s) ==
    Pick(s, {k \in DOMAIN s : ~(k > 2 /\ \A j \in k - 2 .. k : s[j] = "n")})

\* A white space is trailing if nothing but white space follows in its line.
Trailing(s, k) ==
    \A j \in k .. Len(s) : s[j] = "s" \/ \E i \in k .. j : s[i] = "n" /\ Blank(SubSeq(s, k, i))

RightTrimmed(s) == Pick(s, {k \in DOMAIN s : ~(s[k] = "s" /\ Trailing(s, k))})

Stripped(s) ==
    Pick(s, {k \in DOMAIN s : ~Blank(SubSeq(s, 1, k)) /\ ~Blank(SubSeq(s, k, Len(s)))})

Clean(s) == Stripped(RightTrimmed(Collapsed(Controlled(Untagged(s)))))

-----------------------------------------------------------------------------
(* The sections of the clean text.                                         *)

LineStarts(s) == {k \in DOMAIN s : k = 1 \/ s[k - 1] = "n"}

\* _HEADING_BOUNDARY: at the beginning of a line.
Headings(s) == {k \in LineStarts(s) : s[k] = "h"}

\* _CODE_BOUNDARY: after up to four white spaces, newlines among them.  The match
\* begins as early as it can.
Definitions(s) ==
    LET before(k) == {p \in LineStarts(s) : p <= k /\ k - p <= 4 /\ Blank(SubSeq(s, p, k - 1))}
    IN {Min(before(k)) : k \in {j \in DOMAIN s : s[j] = "h" /\ before(j) # {}}}

\* _find_boundaries: always with the beginning.
Boundaries(s, type) ==
    {1} \cup CASE type = "code"     -> Definitions(s)
               [] type = "document" -> Headings(s)
               [] OTHER             -> {}

\* _slice_by_boundaries: blank sections are dropped.
Sections(s, type) ==
    LET starts == InOrder(s, Boundaries(s, type))
        end(k) == IF k < Len(starts) THEN starts[k + 1] - 1 ELSE Len(s)
        all    == [k \in DOMAIN starts |->
                        [from |-> starts[k] - 1, text |-> SubSeq(s, starts[k], end(k))]]
    IN SelectSeq(all, LAMBDA piece : ~Blank(piece.text))

-----------------------------------------------------------------------------
(* _split_oversized.                                                       *)

\* text.split("\n\n"): from left to right, without overlap.
Paragraphs(s) ==
    LET step(acc, k) ==
            IF acc.skip THEN [acc EXCEPT !.skip = FALSE]
            ELSE IF k < Len(s) /\ s[k] = "n" /\ s[k + 1] = "n"
                 THEN [done |-> Append(acc.done, acc.open), open |-> <<>>, skip |-> TRUE]
                 ELSE [acc EXCEPT !.open = Append(@, s[k])]
        end == FoldLeft(step, [done |-> <<>>, open |-> <<>>, skip |-> FALSE],
                        [k \in DOMAIN s |-> k])
    IN Append(end.done, end.open)

\* text.find(p, from).
Find(s, p, from) == Min({k \in from .. Len(s) - Len(p) : Slice(s, k, k + Len(p)) = p})

\* Each paragraph with the offset at which it is found.
Located(s) ==
    LET step(acc, p) ==
            LET k == Find(s, p, acc.next)
            IN [done |-> Append(acc.done, [from |-> k, text |-> p]), next |-> k + Len(p)]
    IN FoldLeft(step, [done |-> <<>>, next |-> 0], Paragraphs(s)).done

\* With a plausible mistake: a group forgets the blank line between its paragraphs.
Joined_NoBlankLine(a, b) == a \o b

Joined(a, b) == a \o <<"n", "n">> \o b

\* Paragraphs are grouped as long as the group is not too long.
Grouped(s) ==
    LET all == Located(s)
        step(acc, p) ==
            IF Len(Joined(acc.group.text, p.text)) > MaxChars
            THEN [done |-> Append(acc.done, acc.group), group |-> p]
            ELSE [acc EXCEPT !.group.text = Joined(@, p.text)]
        end == FoldLeft(step, [done |-> <<>>, group |-> Head(all)], Tail(all))
    IN Append(end.done, end.group)

\* A piece that is too long by itself is cut every MaxChars characters.
Cut(piece) ==
    IF Len(piece.text) <= MaxChars THEN <<piece>>
    ELSE [k \in 1 .. (Len(piece.text) + MaxChars - 1) \div MaxChars |->
            LET from == (k - 1) * MaxChars IN
            [from |-> piece.from + from,
             text |-> Slice(piece.text, from, Min({from + MaxChars, Len(piece.text)}))]]

SplitOversized(s) ==
    IF Len(s) <= MaxChars THEN <<[from |-> 0, text |-> s]>>
    ELSE FlattenSeq([k \in DOMAIN Grouped(s) |-> Cut(Grouped(s)[k])])

\* chunk_document: the pieces of each section, at their offsets in the content.
ChunkDocument(s, type) ==
    LET pieces(section) ==
            LET split == SplitOversized(section.text)
            IN [k \in DOMAIN split |-> [split[k] EXCEPT !.from = section.from + @]]
        sections == Sections(s, type)
    IN FlattenSeq([k \in DOMAIN sections |-> pieces(sections[k])])

-----------------------------------------------------------------------------
Texts == UNION {[1..n -> Plain] : n \in 0..MaxLength}
         \cup UNION {[1..n -> Characters] : n \in 0..MaxMarked}

ProcessingInit ==
    /\ raw \in Texts
    /\ kind \in ContentTypes
    /\ content = Untouched
    /\ chunks = <<>>

\* process_document.
ProcessDocument ==
    /\ content' = Clean(raw)
    /\ chunks' = ChunkDocument(content', kind)
    /\ UNCHANGED <<raw, kind>>

ProcessingNext == ProcessDocument

ProcessingSpec == ProcessingInit /\ [][ProcessingNext]_processingVars

-----------------------------------------------------------------------------
ProcessingTypeOK ==
    /\ raw \in Seq(Characters) /\ content \in Seq(Characters \ {"t", "c"})
    /\ kind \in ContentTypes
    /\ chunks \in Seq([from : Nat, text : Seq(Characters \ {"t", "c"})])

\* At most one blank line at a time.
Tidy(s) == Collapsed(s) = s

Marks(s) == SelectSeq(s, LAMBDA ch : ch \notin {"n", "s"})

(***************************************************************************)
(* Chunks are what they say: no longer than the limit, in the order of the *)
(* content, and with every character that is not white space in one of     *)
(* them, once.  When the content has no two blank lines in a row, each     *)
(* chunk is the text between its offsets, and cleaning it again, as the    *)
(* hash that recognizes unchanged documents supposes, changes nothing.     *)
(***************************************************************************)
ChunksAreExact ==
    /\ \A k \in DOMAIN chunks : Len(chunks[k].text) <= MaxChars
    /\ content # Untouched =>
         Marks(FlattenSeq([k \in DOMAIN chunks |-> chunks[k].text])) = Marks(content)
    /\ Tidy(content) =>
         /\ \A k \in DOMAIN chunks :
              LET end == chunks[k].from + Len(chunks[k].text) IN
              /\ chunks[k].text = Slice(content, chunks[k].from, end)
              /\ k < Len(chunks) => end <= chunks[k + 1].from
         /\ Clean(content) = content
=============================================================================
