------------------------------- MODULE MoFile -------------------------------
(***************************************************************************)
(* Compiling a catalogue to a .mo file and loading it again (gettext/mo.go)*)
(*                                                                         *)
(* A program fills the catalogue source and writes it; the file is made of *)
(* seven words, two tables of (length, offset) pairs and the strings they  *)
(* point at.  A write may fail after any number of bytes, and the file may *)
(* also come from another tool, in another byte order or layout.  The file *)
(* is then read into the catalogue loaded, which a failed read leaves with *)
(* what it had added, and reading is tried again into the same catalogue.  *)
(***************************************************************************)
EXTENDS Catalog

CONSTANTS
    Messages,     \* the messages a program may add
    Headers,      \* the headers, functions from header keys to values
    PluralForms,  \* the header key "plural-forms"
    OpenForms,    \* a value of it that ends with its expression
    ClosedForms,  \* a value of it with a semicolon after the expression
    MaxMessages   \* bound on the messages of source

VARIABLES
    pc,      \* "edit", "written", "entries", "read", "failed" or "again"
    source,  \* the catalogue that is compiled
    file,    \* the file: the bytes of it that exist and what they hold
    i,       \* the loop variable of Read
    loaded   \* the catalogue Read fills

vars == <<pc, source, file, i, loaded>>

HeadSize == 28

Join(ss, sep) ==
    IF ss = <<>> THEN <<>>
    ELSE FlattenSeq([j \in DOMAIN ss |-> IF j = 1 THEN ss[j] ELSE <<sep>> \o ss[j]])

Split(s, sep) ==
    LET cuts == SetToSortSeq({0, Len(s) + 1} \cup {j \in DOMAIN s : s[j] = sep}, <)
    IN  [j \in 1..(Len(cuts) - 1) |-> SubSeq(s, cuts[j] + 1, cuts[j + 1] - 1)]

(***************************************************************************)
(* Writing.                                                                *)
(***************************************************************************)

\* The map is ranged over in any order, and nothing separates the entries.
\* An entry is the byte of its key followed by the bytes of its value.
getHeader(c) ==
    {FlattenSeq([j \in DOMAIN ks |-> <<ks[j]>> \o c.Header[ks[j]]]) :
        ks \in SetToSeqs(DOMAIN c.Header)}

\* The offset of the next string does not count the NUL after this one.
appendShort(m, msg) ==
    LET src == (IF msg.HasCtx THEN msg.Ctx \o <<EOT>> ELSE <<>>) \o Join(msg.Src, NUL)
        dst == Join(msg.Dst, NUL)
    IN  [src |-> m.src \o src \o <<NUL>>,
         dst |-> m.dst \o dst \o <<NUL>>,
         srcList |-> m.srcList \o <<Len(src), m.srcIdx>>,
         dstList |-> m.dstList \o <<Len(dst), m.dstIdx>>,
         srcIdx |-> m.srcIdx + Len(src),
         dstIdx |-> m.dstIdx + Len(dst) + 1]

append(m, msg) ==
    LET src == (IF msg.HasCtx THEN msg.Ctx \o <<EOT>> ELSE <<>>) \o Join(msg.Src, NUL)
        dst == Join(msg.Dst, NUL)
    IN  [src |-> m.src \o src \o <<NUL>>,
         dst |-> m.dst \o dst \o <<NUL>>,
         srcList |-> m.srcList \o <<Len(src), m.srcIdx>>,
         dstList |-> m.dstList \o <<Len(dst), m.dstIdx>>,
         srcIdx |-> m.srcIdx + Len(src) + 1,
         dstIdx |-> m.dstIdx + Len(dst) + 1]

headerMessage(text) ==
    [plural |-> FALSE, Src |-> <<<<>>>>, Dst |-> <<text>>, Ctx |-> <<>>, HasCtx |-> FALSE]

newMoMessageWriter(c, header) ==
    LET count == Cardinality(DOMAIN c.Messages) + 1
        m == FoldLeft(append,
                      [src |-> <<>>, dst |-> <<>>, srcList |-> <<>>, dstList |-> <<>>,
                       srcIdx |-> HeadSize + count * 16, dstIdx |-> 0],
                      <<headerMessage(header)>> \o sortedMessages(c))
    IN  [srcList |-> m.srcList,
         dstList |-> [j \in DOMAIN m.dstList |->
                         m.dstList[j] + (IF j % 2 = 0 THEN m.srcIdx ELSE 0)],
         msgs |-> m.src \o m.dst]

\* The file Write makes when every byte is written.
moFile(c, header) ==
    LET w == newMoMessageWriter(c, header)
        count == Cardinality(DOMAIN c.Messages) + 1
    IN  [order |-> "little", rev |-> 0, count |-> count,
         mTable |-> HeadSize, tTable |-> HeadSize + count * 8,
         idxs |-> w.srcList \o w.dstList, msgs |-> w.msgs,
         size |-> HeadSize + count * 16 + Len(w.msgs)]

\* Another tool's file: either byte order or neither, a newer revision, the
\* table of the translations before the table of the messages.
foreignFiles(f) ==
    LET swapped == [f EXCEPT !.mTable = f.tTable, !.tTable = f.mTable,
                             !.idxs = SubSeq(@, 2 * f.count + 1, 4 * f.count)
                                        \o SubSeq(@, 1, 2 * f.count)]
    IN  {[g EXCEPT !.order = o, !.rev = r] :
            g \in {f, swapped}, o \in {"little", "big", "unknown"}, r \in 0..2}

(***************************************************************************)
(* Reading.                                                                *)
(***************************************************************************)

\* A read that takes what there is.
thereInPart(f, o, n) == o <= f.size

\* Whether n bytes at offset o are there: binary.Read fails unless all are.
there(f, o, n) == o + n <= f.size

\* The word at offset o, which is one of the tables'.
word(f, o) == f.idxs[((o - HeadSize) \div 4) + 1]

\* The n bytes at offset o; bytes of the head and of the tables, and bytes
\* that were never written, are no letters of a message.
bytesAt(f, o, n) ==
    LET base == HeadSize + f.count * 16
        junk == 255
    IN  [j \in 1..n |->
            IF o + j <= f.size /\ o + j - base \in DOMAIN f.msgs
            THEN f.msgs[o + j - base] ELSE junk]

\* The header text is one line, as no entry is followed by a newline: all
\* that follows the first key is its value.
readMoHeader(c, text) ==
    IF text = <<>> THEN c
    ELSE [c EXCEPT !.Header = (text[1] :> Tail(text)) @@ @]

\* An empty context is taken for none.
messageNoEmptyContext(mb, tb) ==
    LET cut == SelectInSeq(mb, LAMBDA x : x = EOT)
        mStr == SubSeq(mb, cut + 1, Len(mb))
        plural == NUL \in ToSet(mStr)
    IN  [plural |-> plural,
         Src |-> IF plural THEN Split(mStr, NUL) ELSE <<mStr>>,
         Dst |-> IF plural THEN Split(tb, NUL) ELSE <<tb>>,
         Ctx |-> SubSeq(mb, 1, cut - 1),
         HasCtx |-> cut > 1]

\* The message that mb and tb stand for: the context ends at the first EOT, and
\* a NUL in the rest makes it a plural message.
message(mb, tb) ==
    LET cut == SelectInSeq(mb, LAMBDA x : x = EOT)
        mStr == SubSeq(mb, cut + 1, Len(mb))
        plural == NUL \in ToSet(mStr)
    IN  [plural |-> plural,
         Src |-> IF plural THEN Split(mStr, NUL) ELSE <<mStr>>,
         Dst |-> IF plural THEN Split(tb, NUL) ELSE <<tb>>,
         Ctx |-> SubSeq(mb, 1, cut - 1),
         HasCtx |-> cut # 0]

\* The selector a plural-forms value asks for; text after an expression that
\* no semicolon ends makes it malformed.
getPluralFunc(value) ==
    IF value[1] = ClosedForms \/ value = <<OpenForms>> THEN "single" ELSE "malformed"

(***************************************************************************)
(* The steps.                                                              *)
(***************************************************************************)

NoFile == [order |-> "unknown", rev |-> 0, count |-> 0, mTable |-> 0, tTable |-> 0,
           idxs |-> <<>>, msgs |-> <<>>, size |-> 0]

Init ==
    /\ pc = "edit"
    /\ source \in {[NewCatalog EXCEPT !.Header = h] : h \in Headers}
    /\ file = NoFile
    /\ i = 0
    /\ loaded = NewCatalog

AddMessage(m) ==
    /\ pc = "edit"
    /\ Cardinality(DOMAIN source.Messages) < MaxMessages
    /\ source' = Add(source, m)
    /\ UNCHANGED <<pc, file, i, loaded>>

CloneSource ==
    /\ pc = "edit"
    /\ source' = Clone(source)
    /\ UNCHANGED <<pc, file, i, loaded>>

\* Write, of which the first size bytes reach the file.
Write ==
    /\ pc \in {"edit", "again"}
    /\ \E header \in getHeader(source) :
          LET f == moFile(source, header) IN
          \E size \in 0..f.size : file' = [f EXCEPT !.size = size]
    /\ pc' = "written"
    /\ UNCHANGED <<source, i, loaded>>

WriteElsewhere ==
    /\ pc \in {"edit", "again"}
    /\ \E header \in getHeader(source) : file' \in foreignFiles(moFile(source, header))
    /\ pc' = "written"
    /\ UNCHANGED <<source, i, loaded>>

\* Read, up to the loop over the entries.
ReadHead ==
    /\ pc = "written"
    /\ i' = 0
    /\ pc' = IF there(file, 0, HeadSize) /\ file.order # "unknown" /\ file.rev <= 1
             THEN "entries" ELSE "failed"
    /\ UNCHANGED <<source, file, loaded>>

\* The string a pair of the table at offset o points at; NoBytes, which is no
\* string, when a read fails.
NoBytes == <<256>>

entry(o) ==
    IF ~there(file, o, 8) THEN NoBytes
    ELSE LET len == word(file, o)
             idx == word(file, o + 4)
         IN  IF there(file, idx, len) THEN bytesAt(file, idx, len) ELSE NoBytes

\* One turn of the loop.
ReadEntry ==
    /\ pc = "entries"
    /\ i < file.count
    /\ LET mb == entry(file.mTable + 8 * i)
           tb == entry(file.tTable + 8 * i)
       IN  IF NoBytes \in {mb, tb}
           THEN pc' = "failed" /\ UNCHANGED <<i, loaded>>
           ELSE /\ loaded' = IF mb = <<>> THEN readMoHeader(loaded, tb)
                                          ELSE Add(loaded, message(mb, tb))
                /\ i' = i + 1
                /\ UNCHANGED pc
    /\ UNCHANGED <<source, file>>

\* After the loop: the plural selector of the header.
ReadPluralForms ==
    /\ pc = "entries"
    /\ i = file.count
    /\ LET fn == IF PluralForms \in DOMAIN loaded.Header
                 THEN getPluralFunc(loaded.Header[PluralForms]) ELSE loaded.PluralFunc
       IN  IF fn = "malformed"
           THEN pc' = "failed" /\ UNCHANGED loaded
           ELSE pc' = "read" /\ loaded' = [loaded EXCEPT !.PluralFunc = fn]
    /\ UNCHANGED <<source, file, i>>

\* The program gives up a file it could not read, to have it written again.
Retry ==
    /\ pc = "failed"
    /\ pc' = "again"
    /\ file' = NoFile
    /\ i' = 0
    /\ UNCHANGED <<source, loaded>>

Next ==
    \/ \E m \in Messages : AddMessage(m)
    \/ CloneSource
    \/ Write
    \/ WriteElsewhere
    \/ ReadHead
    \/ ReadEntry
    \/ ReadPluralForms
    \/ Retry

Spec == Init /\ [][Next]_vars

(***************************************************************************)
(* Properties.                                                             *)
(***************************************************************************)

\* A plural message with a single source is written like a simple message,
\* and read as one.
Representable(m) == m.plural => Len(m.Src) >= 2

\* The catalogue as a program looks up key k in it.
At(c, k) == IF k.HasCtx THEN SetContext(c, k.Ctx) ELSE RemoveContext(c)

SameLookups(k) ==
    LET c == At(source, k)
        d == [At(loaded, k) EXCEPT !.PluralFunc = source.PluralFunc]
    IN  /\ Get(c, k.Src) = Get(d, k.Src)
        /\ \A num \in 0..2 : GetPlural(c, k.Src, num) = GetPlural(d, k.Src, num)

\* However a read ends - at the end of a file cut short, after an earlier read
\* that failed, or well - every message it has added to the catalogue is one
\* of the compiled catalogue, under its key, and gives the same translations
\* (the reads of mo.go:78-101 and the splitting of :112-137).
OnlyExactMessages ==
    \A k \in DOMAIN loaded.Messages :
        /\ k \in DOMAIN source.Messages
        /\ Representable(source.Messages[k]) => SameLookups(k)

\* A read that returns no error has loaded every message and, when the header
\* has at most one entry, the header and the plural selector it asks for
\* (MoReader.Read and MoWriter.Write, also after reads that failed).
RoundTrip ==
    pc = "read" =>
        /\ DOMAIN loaded.Messages = DOMAIN source.Messages
        /\ Cardinality(DOMAIN source.Header) <= 1 =>
              /\ loaded.Header = source.Header
              /\ loaded.PluralFunc =
                    IF PluralForms \in DOMAIN source.Header THEN "single" ELSE "default"

\* The strings of a compiled file follow each other without gap or overlap from
\* the end of the tables to the end of the file, each ended by a NUL that its
\* length leaves out, as the format asks (the offsets kept by moMessageWriter).
StringsTile ==
    pc = "edit" =>
        \A header \in getHeader(source) :
            LET f == moFile(source, header)
                base == HeadSize + f.count * 16
                first(e) == f.idxs[2 * e]
                last(e) == f.idxs[2 * e] + f.idxs[2 * e - 1]
                entries == 1..(2 * f.count)
            IN  /\ \A e \in entries :
                      last(e) - base + 1 \in DOMAIN f.msgs /\ f.msgs[last(e) - base + 1] = NUL
                /\ first(1) = base
                /\ \A e \in entries \ {1} : first(e) = last(e - 1) + 1
                /\ last(2 * f.count) + 1 = f.size
=============================================================================
