-------------------------- MODULE MCSourceCollection -------------------------
(* Values of the constants of SourceCollection for TLC.                    *)
EXTENDS SourceCollection

\* Texts up to one byte beyond the limit of a description.
MCTexts == {t \in [len : 0..MaxField + 1, inner : 0..MaxTitle + 1, kept : 0..MaxField + 1,
                   shift : -1..1] :
               /\ t.inner <= t.len /\ t.kept <= t.len
               /\ t.kept > 0 => t.kept + t.shift > 0}
MCShortTexts == {t \in MCTexts : t.len <= 1 /\ t.shift = 0}

\* A Telegram message: a text that is not blank, with a title of its own unless
\* it is of one line.
MCMessage(t, first, h) ==
    [title |-> 0, statement |-> NoText, plainTitle |-> first, plain |-> t, empty |-> FALSE,
     name |-> 1, url |-> 1, known |-> TRUE, difficulty |-> "unknown", guess |-> "hard",
     hits |-> h]

\* What an adapter of a website brings.
MCPage(ttl, n, s, t, e, u, k, d) ==
    [title |-> ttl, statement |-> s, plainTitle |-> 1, plain |-> t, empty |-> e,
     name |-> n, url |-> u, known |-> k, difficulty |-> d, guess |-> "easy",
     hits |-> [r \in 1..Rules |-> 0]]

MCNone == [r \in 1..Rules |-> 0]

MCMessages ==
    {MCMessage(t, first, MCNone) : t \in {x \in MCTexts : x.len > 0}, first \in 0..MaxTitle + 1}
    \union
    {MCMessage(t, 1, h) : t \in {x \in MCShortTexts : x.len > 0}, h \in [1..Rules -> 0..2]}

MCPages ==
    {MCPage(ttl, n, s, t, e, u, k, d) :
        ttl \in {0, MaxTitle, MaxTitle + 1}, n \in {1, MaxTitle + 1}, s \in MCShortTexts, t \in MCShortTexts,
        e \in BOOLEAN, u \in {0, 1, MaxURL + 1}, k \in BOOLEAN, d \in {"unknown", "medium"}}

MCRaws == MCMessages \union MCPages
==============================================================================
