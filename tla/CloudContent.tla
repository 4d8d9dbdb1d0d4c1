---------------------------- MODULE CloudContent ----------------------------
(***************************************************************************)
(* MemoryCloudVfsContentCache: the ranges of file contents CloudVfs keeps, *)
(* oldest first, and the count of their bytes.  Bytes are not told apart   *)
(* one by one: a slice says which revision they were sent from, from where *)
(* on, and how many they are.                                              *)
(***************************************************************************)
EXTENDS Integers, Sequences, SequencesExt, FiniteSetsExt

Slice == [rev : Nat, from : Nat, len : Nat]

\* What RangeEntry says: these bytes were stored as those of the revision rev
\* of doc, from offset on.
Entry(doc, rev, offset, bytes) ==
    [doc |-> doc, rev |-> rev, offset |-> offset, bytes |-> bytes]

BytesOf(entries) ==
    LET Upto[n \in 0 .. Len(entries)] ==
            IF n = 0 THEN 0 ELSE Upto[n - 1] + entries[n].bytes.len
    IN  Upto[Len(entries)]

DocsOf(entries) == {entries[i].doc : i \in DOMAIN entries}

\* The entries of the documents of docs, in their order.
Those(entries, docs) ==
    LET Upto[n \in 0 .. Len(entries)] ==
            IF n = 0 THEN <<>>
            ELSE IF entries[n].doc \in docs THEN Append(Upto[n - 1], entries[n])
            ELSE Upto[n - 1]
    IN  Upto[Len(entries)]

Others(entries, docs) == Those(entries, DocsOf(entries) \ docs)

\* The entries that hold the whole of a range.
Holding(entries, doc, rev, offset, length) ==
    {i \in DOMAIN entries :
        LET e == entries[i] IN
        /\ e.doc = doc /\ e.rev = rev
        /\ offset >= e.offset
        /\ offset + length <= e.offset + e.bytes.len}

\* Mutant: an entry is given from its start, wherever the range begins.
GetRange_FromStart(entries, doc, rev, offset, length) ==
    LET e == entries[Min(Holding(entries, doc, rev, offset, length))]
    IN  [e.bytes EXCEPT !.len = length]

\* get_range where some entry holds the range: the first one serves it.
GetRange(entries, doc, rev, offset, length) ==
    LET e == entries[Min(Holding(entries, doc, rev, offset, length))]
    IN  [e.bytes EXCEPT !.from = @ + (offset - e.offset), !.len = length]

\* trim_to: the oldest go until the count is small enough, or none is left.
TrimTo(cache, maximum) ==
    LET After(n)  == cache.used - BytesOf(SubSeq(cache.entries, 1, n))
        all       == Len(cache.entries)
        dropped   == Min({n \in 0 .. all : After(n) <= maximum} \cup {all})
    IN  [entries |-> SubSeq(cache.entries, dropped + 1, all), used |-> After(dropped)]

\* put_range, to which CloudVfs adds trim_to.
PutRange(cache, entry, maximum) ==
    TrimTo([entries |-> Append(cache.entries, entry),
            used    |-> cache.used + entry.bytes.len], maximum)

\* Mutant: the count is kept.
RemoveDocs_KeepsCount(cache, docs) ==
    [entries |-> Others(cache.entries, docs), used |-> cache.used]

\* remove_doc for each of docs.
RemoveDocs(cache, docs) ==
    [entries |-> Others(cache.entries, docs),
     used    |-> cache.used - BytesOf(Those(cache.entries, docs))]

EmptyCache == [entries |-> <<>>, used |-> 0]
=============================================================================
