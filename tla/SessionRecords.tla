--------------------------- MODULE SessionRecords ---------------------------
(***************************************************************************)
(* SessionRecords: a reader of an agent's transcript, a file of JSON lines   *)
(* that the agent goes on writing.  Each command reads the file anew; a       *)
(* reader pages through the list of records with a line cursor, or through    *)
(* one record's evidence with an offset into its text.                        *)
(***************************************************************************)
EXTENDS Naturals, FiniteSetsExt, SequencesExt

CONSTANTS
    Raw,       \* the lines that an agent may write
    MaxLines,  \* bound: the lines it writes
    Limit,     \* the records of a page of the list
    Length,    \* the length of a chunk of text
    None

VARIABLES
    file,    \* the lines written so far
    tail,    \* "complete", or "partial": the last line is not written to its end
    list,    \* paging through the index: cursor, lines returned, line it covers
    shown    \* paging through one record: its line, boundary, offset, and the text

vars == <<file, tail, list, shown>>

Init ==
    /\ file = <<>> /\ tail = "complete" /\ shown = None
    /\ list = [after |-> 0, lines |-> <<>>, more |-> TRUE, upto |-> 0]

\* the agent writes a line in one or two parts
Write ==
    /\ tail = "complete" /\ Len(file) < MaxLines
    /\ \E raw \in Raw : file' = Append(file, raw)
    /\ tail' \in {"complete", "partial"} /\ UNCHANGED <<list, shown>>

Finish == tail = "partial" /\ tail' = "complete" /\ UNCHANGED <<file, list, shown>>

\* __init__: the lines that are complete, no further than a requested boundary
Through(limit) ==
    LET complete == IF tail = "partial" THEN Len(file) - 1 ELSE Len(file)
    IN  IF limit # None THEN Min({limit, complete}) ELSE complete

\* a malformed line up to the boundary fails the command
Readable(through) == \A l \in 1..through : file[l].kind # "malformed"

\* _read: the lines that make a record
Records(through) == SelectSeq([i \in 1..through |-> i], LAMBDA l : file[l].kind # "hidden")

\* _append: where the calls and the results of an ID are
Calls(id, through) == {l \in 1..through : id \in file[l].calls}
Results(id, through) == {l \in 1..through : id \in file[l].results}

\* details: what is known of each call of a record
Status(l, through) == [id \in file[l].calls \union file[l].results |->
    IF Calls(id, through) = {} THEN "missing_call"
    ELSE IF Results(id, through) = {} THEN "no_recorded_result" ELSE "paired"]

\* Mutant of NextAfter: the cursor moves by the limit, not to the page's last record.
NextAfterRaw(page, selected) == list.after + Limit

\* the cursor of the next page
NextAfter(page, selected) == Last(page)

\* index: one page of the listed records after the cursor
Index ==
    LET through == Through(None)
        selected == SelectSeq(Records(through), LAMBDA l : l > list.after /\ file[l].listed)
        page == SubSeq(selected, 1, Min({Len(selected), Limit}))
        more == Len(selected) > Len(page)
    IN  /\ list.more /\ Readable(through)
        /\ list' = [after |-> IF more THEN NextAfter(page, selected) ELSE list.after,
                    lines |-> list.lines \o page, more |-> more,
                    upto |-> IF more THEN Last(page) ELSE through]
        /\ UNCHANGED <<file, tail, shown>>

\* evidence_bundle: the record, its calls and results, and the executions between
Bundle(l, through) ==
    LET ids == DOMAIN Status(l, through)
        between(i, id) ==
            /\ Status(l, through)[id] = "paired" /\ file[i].kind = "execution"
            /\ Min(Calls(id, through)) < i /\ i < Max(Results(id, through))
        chosen(i) ==
            i = l \/ \E id \in ids : \/ i \in Calls(id, through) \union Results(id, through)
                                     \/ between(i, id)
    IN  SelectSeq(Records(through), chosen)

\* its text: whether all calls are paired, and each record with its details
Text(l, through) ==
    LET bundle == Bundle(l, through)
        status == Status(l, through)
    IN  <<\A id \in DOMAIN status : status[id] = "paired">>
        \o FlattenSeq([i \in 1..Len(bundle) |-> <<bundle[i], Status(bundle[i], through)>>])

\* show: a chunk of the text, and where the next one starts
Chunk(l, offset, through) ==
    SubSeq(Text(l, through), offset + 1, Min({offset + Length, Len(Text(l, through))}))

ShowFirst ==
    LET through == Through(None)
    IN  /\ shown = None /\ Readable(through)
        /\ \E i \in 1..Len(Records(through)) :
              LET l == Records(through)[i] IN
              shown' = [line |-> l, through |-> through, text |-> Chunk(l, 0, through),
                        whole |-> Text(l, through), more |-> Length < Len(Text(l, through))]
        /\ UNCHANGED <<file, tail, list>>

\* main: an offset is refused without the boundary of the first page
ShowNext ==
    LET through == Through(shown.through)
        text == shown.text \o Chunk(shown.line, Len(shown.text), through)
    IN  /\ shown # None /\ shown.more /\ Readable(through)
        /\ shown' = [shown EXCEPT !.text = text, !.more = Len(text) < Len(Text(shown.line, through))]
        /\ UNCHANGED <<file, tail, list>>

Next == Write \/ Finish \/ Index \/ ShowFirst \/ ShowNext

Spec == Init /\ [][Next]_vars /\ WF_vars(ShowNext)

\* The pages of the list hold every record exactly once and in order, up to
\* where the transcript was read, though the transcript grows between them and its last line may be
\* half written.
PagesAreExact ==
    list.lines = SelectSeq(Records(list.upto), LAMBDA l : file[l].listed)

\* "stable character paging": the chunks of one record's evidence are pieces of one
\* text, the one that the first chunk began, whatever is written meanwhile.
ChunksAreOfOneText ==
    IF shown = None THEN TRUE
    ELSE IF shown.more THEN IsPrefix(shown.text, shown.whole) ELSE shown.text = shown.whole

Reading == shown # None /\ shown.more
=============================================================================
