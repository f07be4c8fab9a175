------------------------------ MODULE Catalog ------------------------------
(***************************************************************************)
(* The translation catalogue of gettext/gettext.go: messages under their   *)
(* keys, the header, the plural selector and the active context.           *)
(*                                                                         *)
(* A string is a sequence of bytes, of which only the ones the code tells  *)
(* apart matter: NUL and EOT, which the .mo format uses as separators, and *)
(* letters, which are greater.  A SimpleMessage is a message with plural   *)
(* FALSE, one source and one translation.  The source positions of         *)
(* MessageInfo are left out: nothing that is looked up depends on them.    *)
(***************************************************************************)
EXTENDS Naturals, SequencesExt

NUL == 0
EOT == 4

\* Key of SimpleMessage and of PluralMessage.
Key(m) == [Src |-> IF m.Src = <<>> THEN <<>> ELSE m.Src[1],
           Ctx |-> IF m.HasCtx THEN m.Ctx ELSE <<>>,
           HasCtx |-> m.HasCtx]

\* The plural selectors: the default one, and the one of a language with a
\* single form, which a header may ask for.
PluralIndex(fn, num) == IF fn = "default" /\ num # 1 THEN 1 ELSE 0

NewCatalog == [Header |-> <<>>, Messages |-> <<>>, PluralFunc |-> "default",
               ctx |-> <<>>, hasCtx |-> FALSE]

Add(c, m) == [c EXCEPT !.Messages = (Key(m) :> m) @@ @]

\* The clone starts from NewCatalog and is given everything but the header.
Clone(c) == [NewCatalog EXCEPT !.PluralFunc = c.PluralFunc, !.ctx = c.ctx,
                               !.hasCtx = c.hasCtx, !.Messages = c.Messages]

SetContext(c, ctx) == [c EXCEPT !.ctx = ctx, !.hasCtx = TRUE]

RemoveContext(c) == [c EXCEPT !.ctx = <<>>, !.hasCtx = FALSE]

Found(c, key) == [Src |-> key, Ctx |-> c.ctx, HasCtx |-> c.hasCtx]

Get(c, key) ==
    LET k == Found(c, key) IN
    IF k \in DOMAIN c.Messages /\ ~c.Messages[k].plural
    THEN c.Messages[k].Dst[1]
    ELSE <<>>

GetPlural(c, key, num) ==
    LET k == Found(c, key)
        i == PluralIndex(c.PluralFunc, num) + 1
    IN  IF k \in DOMAIN c.Messages /\ c.Messages[k].plural /\ i \in DOMAIN c.Messages[k].Dst
        THEN c.Messages[k].Dst[i]
        ELSE <<>>

\* The order of Go strings: bytewise, a prefix first.
StringLess(s, t) ==
    \/ IsStrictPrefix(s, t)
    \/ \E i \in DOMAIN s \cap DOMAIN t :
          s[i] < t[i] /\ \A j \in 1..(i - 1) : s[j] = t[j]

KeyLess(k, l) ==
    \/ StringLess(k.Src, l.Src)
    \/ k.Src = l.Src /\ ~k.HasCtx /\ l.HasCtx
    \/ k.Src = l.Src /\ k.HasCtx /\ l.HasCtx /\ StringLess(k.Ctx, l.Ctx)

\* By source; under one source without a context first, then by context.
sortedMessages(c) ==
    LET keys == SetToSortSeq(DOMAIN c.Messages, KeyLess)
    IN  [i \in DOMAIN keys |-> c.Messages[keys[i]]]
=============================================================================
